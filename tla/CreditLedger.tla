---------------------------- MODULE CreditLedger ----------------------------
(***************************************************************************)
(* The prepaid credits of one account: its credit_accounts row, its rows   *)
(* of credit_ledger, and the four SQL functions that change them           *)
(* (migrations/credits_billing.sql).                                       *)
(*                                                                         *)
(* Each function is one transaction that holds the lock of the account     *)
(* row, so each is one step.  A function is an action with a parameter r   *)
(* for the reply its caller would read: "ok", "refused" ({ok: false}) or   *)
(* "error" (the transaction aborts and PostgREST answers with an error).   *)
(***************************************************************************)
EXTENDS Integers, FiniteSets, FiniteSetsExt

CONSTANTS
    Holds,          \* hold ids: a fresh one per metered call
    GrantKeys,      \* idempotency keys of grants
    MaxHold,        \* max_credits(tool): the amount reserved by a call
    Costs           \* costs in credits a successful tool may report

ASSUME CreditAssumption ==
    /\ MaxHold \in Nat
    /\ Costs \subseteq Nat

VARIABLES
    account,    \* the credit_accounts row
    ledger      \* the credit_ledger rows

ledgerVars == <<account, ledger>>

\* balance_credits has CHECK (balance_credits >= 0).
Account == [exists : BOOLEAN, balance : Nat, granted : Nat, spent : Nat]
NoAccount == [exists |-> FALSE, balance |-> 0, granted |-> 0, spent |-> 0]

\* ref is the hold_id, or the idempotency_key of a grant (entry_type 'grant'
\* or 'topup').
Entry == [type : {"hold", "commit", "refund"}, ref : Holds, amount : Int]
         \cup [type : {"grant"}, ref : GrantKeys, amount : Int]

LedgerTypeOK ==
    /\ account \in Account
    /\ ledger \subseteq Entry

LedgerInit ==
    /\ account = NoAccount
    /\ ledger = {}

----------------------------------------------------------------------------
Entries(t, ref) == {e \in ledger : e.type = t /\ e.ref = ref}
Has(t, ref) == Entries(t, ref) # {}

\* Unique indexes allow one entry of a type per hold and one per grant key.
Amount(t, ref) ==
    IF Has(t, ref) THEN (CHOOSE e \in Entries(t, ref) : TRUE).amount ELSE 0

\* The amount taken from the balance by hold h.
Held(h) == -Amount("hold", h)

\* What h costs its owner at this moment: everything it took, less refunds.
Charge(h) == -(Amount("hold", h) + Amount("commit", h) + Amount("refund", h))

----------------------------------------------------------------------------
(* The functions.                                                          *)

CreditReserveUnchecked(h, n, r) ==
    /\ account.exists /\ r = "ok"
    /\ ledger' = ledger \cup {[type |-> "hold", ref |-> h, amount |-> -n]}
    /\ account' = [account EXCEPT !.balance = @ - n]
CreditReserve(h, n, r) ==
    \/ /\ ~account.exists \/ account.balance < n
       /\ r = "refused"
       /\ UNCHANGED ledgerVars
    \/ /\ account.exists /\ account.balance >= n
       /\ r = "ok"
       /\ IF Has("hold", h)
            THEN UNCHANGED ledgerVars
            ELSE /\ ledger' = ledger \cup {[type |-> "hold", ref |-> h, amount |-> -n]}
                 /\ account' = [account EXCEPT !.balance = @ - n]

\* The refund of an unused remainder has no ON CONFLICT clause: after a
\* release it violates the unique index and the whole commit is undone.
CreditCommit(h, n, r) ==
    LET diff == Held(h) - n
        marker == [type |-> "commit", ref |-> h, amount |-> 0]
        refund == [type |-> "refund", ref |-> h, amount |-> diff]
    IN \/ ~Has("hold", h) /\ r = "refused" /\ UNCHANGED ledgerVars
       \/ /\ Has("hold", h) /\ Has("commit", h)
          /\ r = "ok" /\ UNCHANGED ledgerVars
       \/ /\ Has("hold", h) /\ ~Has("commit", h)
          /\ diff > 0 /\ Has("refund", h)
          /\ r = "error" /\ UNCHANGED ledgerVars
       \/ /\ Has("hold", h) /\ ~Has("commit", h)
          /\ diff > 0 /\ ~Has("refund", h)
          /\ r = "ok"
          /\ ledger' = ledger \cup {marker, refund}
          /\ account' = [account EXCEPT !.balance = @ + diff, !.spent = @ + n]
       \/ /\ Has("hold", h) /\ ~Has("commit", h)
          /\ diff <= 0
          /\ r = "ok"
          /\ ledger' = ledger \cup {marker}
          /\ account' = [account EXCEPT !.spent = @ + n]

\* A release after any refund of the hold, be it a commit's, changes nothing
\* and is ok.
CreditRelease(h, r) ==
    \/ ~Has("hold", h) /\ r = "refused" /\ UNCHANGED ledgerVars
    \/ Has("hold", h) /\ Has("refund", h) /\ r = "ok" /\ UNCHANGED ledgerVars
    \/ /\ Has("hold", h) /\ ~Has("refund", h)
       /\ r = "ok"
       /\ ledger' = ledger \cup {[type |-> "refund", ref |-> h, amount |-> Held(h)]}
       /\ account' = [account EXCEPT !.balance = @ + Held(h)]

CreditGrantUnreversed(k, n, r) ==
    /\ r = "ok"
    /\ account' = [account EXCEPT !.exists = TRUE, !.balance = @ + n, !.granted = @ + n]
    /\ ledger' = IF Has("grant", k) THEN ledger
                 ELSE ledger \cup {[type |-> "grant", ref |-> k, amount |-> n]}
\* The upsert adds n; a key already in the ledger takes it back again.
CreditGrant(k, n, r) ==
    /\ r = "ok"
    /\ IF Has("grant", k)
         THEN UNCHANGED ledgerVars
         ELSE /\ ledger' = ledger \cup {[type |-> "grant", ref |-> k, amount |-> n]}
              /\ account' = [account EXCEPT !.exists = TRUE, !.balance = @ + n,
                                            !.granted = @ + n]

----------------------------------------------------------------------------
(* Properties.                                                             *)

\* The balance is what the ledger adds up to, in whichever order requests
\* reach the functions and however often a grant is repeated, and no credit
\* was granted that the ledger does not show.
LedgerExplainsBalance ==
    /\ account.balance = MapThenSumSet(LAMBDA e : e.amount, ledger)
    /\ account.granted =
         MapThenSumSet(LAMBDA e : e.amount, {e \in ledger : e.type = "grant"})
============================================================================
