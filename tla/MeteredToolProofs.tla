-------------------------- MODULE MeteredToolProofs --------------------------
(***************************************************************************)
(* What holds of metered calls for any number of them, any prices, any     *)
(* number of crashes, and a network that loses and delays as it likes.     *)
(***************************************************************************)
EXTENDS MeteredTool, FiniteSetTheorems, WellFoundedInduction, TLAPS

\* Costs are clamped to what was held, and a cost is a number of credits.
LEMMA ClampedType ==
    ASSUME NEW n \in Costs
    PROVE  ClampedCost(n) \in Nat /\ ClampedCost(n) <= MaxHold
BY CreditAssumption DEF ClampedCost

\* Sending a request leaves well-formed requests, replies and phases.
LEMMA AskType ==
    ASSUME TypeOK, NEW c \in Calls, NEW fn \in Function, NEW phase \in Phase,
           Ask(c, fn, phase)
    PROVE  /\ net' \subseteq Request
           /\ reply' \in [Calls -> {"none", "ok", "refused", "error"}]
           /\ pc' \in [Calls -> Phase]
BY DEF Ask, TypeOK, Request

LEMMA AnswerType ==
    ASSUME TypeOK, NEW c \in Calls, NEW v \in Verdict, NEW known \in BOOLEAN,
           Answer(c, v, known)
    PROVE  /\ UNCHANGED <<net, reply>>
           /\ verdict' \in [Calls -> Verdict]
           /\ confirmed' \in [Calls -> BOOLEAN]
           /\ pc' \in [Calls -> Phase]
BY DEF Answer, TypeOK, Phase

\* Unchanged rows are still well formed.
LEMMA LedgerKept ==
    ASSUME LedgerTypeOK, UNCHANGED ledgerVars
    PROVE  LedgerTypeOK'
BY DEF LedgerTypeOK, ledgerVars

----------------------------------------------------------------------------
Unsettled == {"idle", "lookup", "granting", "reserving", "executing"}
Asked(fn, c) == [fn |-> fn, call |-> c] \in net

\* Every refund of c returns what its committed cost leaves of the hold.
RemainderOnly(c) ==
    \A e \in Entries("refund", c) : Has("commit", c) /\ e.amount = MaxHold - cost[c]

\* The entries of call c.  A refund is of the whole hold or of what the cost
\* leaves of it; a commit that refunded nothing took the whole hold.
EntriesInv(c) ==
    /\ \A e \in Entries("hold", c) : e.amount = -MaxHold
    /\ \A e \in Entries("commit", c) : e.amount = 0
    /\ \A e \in Entries("refund", c) :
          \/ e.amount = MaxHold
          \/ Has("commit", c) /\ e.amount = MaxHold - cost[c]
    /\ Has("commit", c) \/ Has("refund", c) => Has("hold", c)
    /\ Has("commit", c) /\ ~Has("refund", c) => cost[c] = MaxHold
    /\ cost[c] <= MaxHold

\* How far the ledger and the requests under way may be, given where c stands.
ProgressInv(c) ==
    /\ pc[c] \in Unsettled =>
          /\ ~Asked("commit", c) /\ ~Asked("release", c)
          /\ ~Has("commit", c) /\ ~Has("refund", c)
    /\ pc[c] \in {"idle", "lookup", "granting"} => ~Asked("reserve", c) /\ ~Has("hold", c)
    /\ Asked("reserve", c) => ~Has("hold", c)
    /\ pc[c] = "reserving" =>
          /\ reply[c] = "ok" => Has("hold", c)
          /\ reply[c] = "refused" => ~Has("hold", c)
          /\ reply[c] # "none" => ~Asked("reserve", c)
    /\ pc[c] \in {"executing", "committing", "releasing", "raising", "undoing"} =>
          Has("hold", c) /\ ~Asked("reserve", c)
    /\ pc[c] = "committing" =>
          /\ ~Asked("release", c) /\ RemainderOnly(c)
          /\ reply[c] = "ok" => Has("commit", c) /\ ~Asked("commit", c)
    /\ pc[c] = "releasing" =>
          /\ ~Asked("commit", c) /\ ~Has("commit", c)
          /\ reply[c] = "ok" => Has("refund", c) /\ ~Asked("release", c)

\* A receipt that shows a balance is about a call with nothing under way.
ReceiptInv(c) ==
    confirmed[c] =>
        /\ pc[c] = "answered"
        /\ ~Asked("reserve", c) /\ ~Asked("commit", c) /\ ~Asked("release", c)
        /\ \/ verdict[c] = "insufficient"
              /\ ~Has("hold", c) /\ ~Has("commit", c) /\ ~Has("refund", c)
           \/ verdict[c] = "failed"
              /\ Has("hold", c) /\ ~Has("commit", c) /\ Has("refund", c)
           \/ verdict[c] = "committed"
              /\ Has("hold", c) /\ Has("commit", c) /\ RemainderOnly(c)

\* From the moment a release is asked for, the hold is refunded or the request
\* is on its way; and a call that was answered reserves nothing any more, unless
\* its reservation could not be confirmed.
HoldInv(c) ==
    /\ pc[c] \in {"releasing", "raising", "undoing"} =>
          Asked("release", c) \/ Has("refund", c)
    /\ pc[c] = "committing" => reply[c] # "refused"
    /\ pc[c] = "answered" /\ verdict[c] # "unavailable" =>
          /\ ~Asked("reserve", c)
          /\ Has("hold", c) =>
                Has("commit", c) \/ Has("refund", c) \/ Asked("release", c)

CallInv(c) == EntriesInv(c) /\ ProgressInv(c) /\ ReceiptInv(c) /\ HoldInv(c)
MeteredInv == \A c \in Calls : CallInv(c)

----------------------------------------------------------------------------
(* The entries of a call.                                                  *)

LEMMA AddEntry ==
    ASSUME NEW x, ledger' = ledger \cup {x}, NEW t, NEW k
    PROVE  Entries(t, k)' = IF x.type = t /\ x.ref = k
                              THEN Entries(t, k) \cup {x} ELSE Entries(t, k)
BY DEF Entries

LEMMA SameEntries ==
    ASSUME ledger' = ledger, NEW t, NEW k
    PROVE  Entries(t, k)' = Entries(t, k)
BY DEF Entries

\* What was held, taken and given back, read off the invariant.
LEMMA Amounts ==
    ASSUME NEW c, EntriesInv(c)
    PROVE  /\ Has("hold", c) => Amount("hold", c) = -MaxHold
           /\ ~Has("hold", c) => Amount("hold", c) = 0
           /\ Amount("commit", c) = 0
           /\ ~Has("refund", c) => Amount("refund", c) = 0
           /\ Has("refund", c) =>
                 \E e \in Entries("refund", c) : Amount("refund", c) = e.amount
BY DEF Amount, Has, EntriesInv

LEMMA HeldKnown ==
    ASSUME NEW c, EntriesInv(c), Has("hold", c)
    PROVE  Held(c) = MaxHold
<1>1. Amount("hold", c) = -MaxHold
  BY Amounts
<1> QED BY <1>1, CreditAssumption DEF Held

\* A call is charged nothing, its ceiling or its cost, as its entries tell.
LEMMA ChargeKnown ==
    ASSUME NEW c \in Calls, EntriesInv(c), cost[c] \in Nat
    PROVE  /\ ~Has("hold", c) => Charge(c) = 0
           /\ Has("hold", c) /\ ~Has("refund", c) => Charge(c) = MaxHold
           /\ Has("refund", c) /\ ~Has("commit", c) => Charge(c) = 0
           /\ Has("commit", c) => Charge(c) \in {0, cost[c]}
           /\ Has("commit", c) /\ RemainderOnly(c) => Charge(c) = cost[c]
<1> USE CreditAssumption
<1>1. CASE ~Has("refund", c)
  BY <1>1, Amounts DEF Charge, EntriesInv
<1>2. CASE Has("refund", c)
  <2>1. PICK e \in Entries("refund", c) : Amount("refund", c) = e.amount
    BY <1>2, Amounts
  <2>2. Has("hold", c)
    BY <1>2 DEF EntriesInv
  <2>3. Charge(c) = MaxHold - e.amount
    <3>1. /\ Amount("hold", c) = -MaxHold
          /\ Amount("commit", c) = 0
      BY <2>2, Amounts
    <3>2. e.amount \in Int
      BY DEF EntriesInv
    <3> QED BY <2>1, <3>1, <3>2 DEF Charge
  <2>4. e.amount = MaxHold \/ (Has("commit", c) /\ e.amount = MaxHold - cost[c])
    BY DEF EntriesInv
  <2>5. RemainderOnly(c) => e.amount = MaxHold - cost[c]
    BY DEF RemainderOnly
  <2> QED BY <1>2, <2>2, <2>3, <2>4, <2>5
<1> QED BY <1>1, <1>2

----------------------------------------------------------------------------
(* The functions keep account and ledger well formed: above all, the       *)
(* balance never goes below zero, so no transaction fails on its CHECK.    *)

LEMMA ReserveType ==
    ASSUME LedgerTypeOK, NEW h \in Holds, NEW r, CreditReserve(h, MaxHold, r)
    PROVE  LedgerTypeOK'
<1>1. CASE UNCHANGED ledgerVars
  BY <1>1, LedgerKept
<1>2. CASE /\ account.balance >= MaxHold
           /\ ledger' = ledger \cup {[type |-> "hold", ref |-> h, amount |-> -MaxHold]}
           /\ account' = [account EXCEPT !.balance = @ - MaxHold]
  <2>1. account' \in Account
    <3>1. account.balance - MaxHold \in Nat
      BY <1>2, CreditAssumption DEF LedgerTypeOK, Account
    <3> QED BY <1>2, <3>1 DEF LedgerTypeOK, Account
  <2>2. [type |-> "hold", ref |-> h, amount |-> -MaxHold] \in Entry
    BY CreditAssumption DEF Entry
  <2> QED BY <1>2, <2>1, <2>2 DEF LedgerTypeOK
<1> QED BY <1>1, <1>2 DEF CreditReserve

LEMMA CommitType ==
    ASSUME LedgerTypeOK, NEW h \in Holds, NEW n \in Nat, NEW r,
           Has("hold", h) => Held(h) \in Nat,
           CreditCommit(h, n, r)
    PROVE  LedgerTypeOK'
<1> DEFINE diff == Held(h) - n
           marker == [type |-> "commit", ref |-> h, amount |-> 0]
           refund == [type |-> "refund", ref |-> h, amount |-> diff]
<1>1. CASE UNCHANGED ledgerVars
  BY <1>1, LedgerKept
<1>2. CASE /\ Has("hold", h) /\ diff > 0
           /\ ledger' = ledger \cup {marker, refund}
           /\ account' = [account EXCEPT !.balance = @ + diff, !.spent = @ + n]
  <2>1. diff \in Nat
    BY <1>2
  <2>2. marker \in Entry /\ refund \in Entry
    BY <2>1 DEF Entry
  <2> HIDE DEF diff, marker, refund
  <2>3. account' \in Account
    <3>1. account.balance + diff \in Nat /\ account.spent + n \in Nat
      BY <2>1 DEF LedgerTypeOK, Account
    <3> QED BY <1>2, <3>1 DEF LedgerTypeOK, Account
  <2> QED BY <1>2, <2>2, <2>3 DEF LedgerTypeOK
<1>3. CASE /\ ledger' = ledger \cup {marker}
           /\ account' = [account EXCEPT !.spent = @ + n]
  <2>1. marker \in Entry
    BY DEF Entry
  <2>2. account' \in Account
    BY <1>3 DEF LedgerTypeOK, Account
  <2> QED BY <1>3, <2>1, <2>2 DEF LedgerTypeOK
<1> QED BY <1>1, <1>2, <1>3 DEF CreditCommit

LEMMA ReleaseType ==
    ASSUME LedgerTypeOK, NEW h \in Holds, NEW r,
           Has("hold", h) => Held(h) \in Nat,
           CreditRelease(h, r)
    PROVE  LedgerTypeOK'
<1> DEFINE refund == [type |-> "refund", ref |-> h, amount |-> Held(h)]
<1>1. CASE UNCHANGED ledgerVars
  BY <1>1, LedgerKept
<1>2. CASE /\ Has("hold", h)
           /\ ledger' = ledger \cup {refund}
           /\ account' = [account EXCEPT !.balance = @ + Held(h)]
  <2>1. refund \in Entry
    BY <1>2 DEF Entry
  <2>2. account' \in Account
    BY <1>2 DEF LedgerTypeOK, Account
  <2> QED BY <1>2, <2>1, <2>2 DEF LedgerTypeOK
<1> QED BY <1>1, <1>2 DEF CreditRelease

LEMMA GrantType ==
    ASSUME LedgerTypeOK, NEW k \in GrantKeys, NEW n \in Nat, NEW r,
           CreditGrant(k, n, r)
    PROVE  LedgerTypeOK'
<1> DEFINE grant == [type |-> "grant", ref |-> k, amount |-> n]
<1>1. CASE UNCHANGED ledgerVars
  BY <1>1, LedgerKept
<1>2. CASE /\ ledger' = ledger \cup {grant}
           /\ account' = [account EXCEPT !.exists = TRUE, !.balance = @ + n,
                                         !.granted = @ + n]
  <2>1. grant \in Entry
    BY DEF Entry
  <2>2. account' \in Account
    <3>1. account.balance + n \in Nat /\ account.granted + n \in Nat
      BY DEF LedgerTypeOK, Account
    <3> QED BY <1>2, <3>1 DEF LedgerTypeOK, Account
  <2> QED BY <1>2, <2>1, <2>2 DEF LedgerTypeOK
<1> QED BY <1>1, <1>2 DEF CreditGrant

\* One step keeps every variable in its type, as long as what the entries say
\* of each hold is right.
LEMMA TypeStep == TypeOK /\ MeteredInv /\ [Next]_vars => TypeOK'
<1> SUFFICES ASSUME TypeOK, MeteredInv, [Next]_vars PROVE TypeOK'
  OBVIOUS
<1> USE DEF TypeOK, callVars
<1>1. ASSUME NEW c \in Calls, Arrive(c) PROVE TypeOK'
  BY <1>1, LedgerKept DEF Arrive, Phase
<1>2. ASSUME NEW c \in Calls, Step(c) PROVE TypeOK'
  <2>1. CASE \E fn \in Function, phase \in Phase : Ask(c, fn, phase)
             /\ UNCHANGED <<ledgerVars, cost, verdict, confirmed, crashes>>
    BY <2>1, AskType, LedgerKept
  <2>2. CASE \E v \in Verdict, known \in BOOLEAN : Answer(c, v, known)
             /\ UNCHANGED <<ledgerVars, cost, crashes>>
    BY <2>2, AnswerType, LedgerKept
  <2>3. CASE StartTool(c)
    BY <2>3, LedgerKept DEF StartTool, Phase
  <2>4. CASE ToolSucceeds(c)
    <3>1. cost' \in [Calls -> Nat]
      BY <2>4, ClampedType DEF ToolSucceeds
    <3> QED BY <2>4, <3>1, AskType, LedgerKept DEF ToolSucceeds, Function, Phase
  <2> QED BY <1>2, <2>1, <2>2, <2>3, <2>4
          DEF Step, FindAccount, MissAccount, Granted, BillingUnavailable,
              InsufficientCredits, ToolFails, FailedAnswered, ToolRaises, RaisedAnswered,
              Committed, CommitFailed, Undone, Function, Phase, Verdict
<1>3. ASSUME NEW q \in net, Serve(q) PROVE TypeOK'
  <2>1. q.call \in Calls /\ q.call \in Holds
    BY MeteredAssumption DEF Request
  <2>2. Has("hold", q.call) => Held(q.call) \in Nat
    BY <2>1, HeldKnown, CreditAssumption DEF MeteredInv, CallInv
  <2>3. LedgerTypeOK'
    BY <1>3, <2>1, <2>2, MeteredAssumption, ReserveType, CommitType, ReleaseType,
       GrantType DEF Serve
  <2>4. net' \subseteq Request /\ reply' \in [Calls -> {"none", "ok", "refused", "error"}]
    BY <1>3 DEF Serve
  <2> QED BY <1>3, <2>3, <2>4 DEF Serve
<1>4. CASE OrderPaid
  <2>1. LedgerTypeOK'
    BY <1>4, MeteredAssumption, GrantType DEF OrderPaid
  <2> QED BY <1>4, <2>1 DEF OrderPaid
<1>5. CASE Crash
  BY <1>5, LedgerKept DEF Crash, Phase
<1>6. CASE UNCHANGED vars
  BY <1>6, LedgerKept DEF vars
<1> QED BY <1>1, <1>2, <1>3, <1>4, <1>5, <1>6 DEF Next

----------------------------------------------------------------------------
(* The invariant is preserved.                                             *)

\* A step that neither touches a call's entries nor its state, and sends no
\* request for it, is no concern of the call.
LEMMA CallKept ==
    ASSUME NEW c, CallInv(c),
           \A t \in {"hold", "commit", "refund"} : Entries(t, c)' = Entries(t, c),
           \A fn \in {"reserve", "commit", "release"} : Asked(fn, c)' = Asked(fn, c),
           pc'[c] = pc[c], reply'[c] = reply[c], cost'[c] = cost[c],
           verdict'[c] = verdict[c], confirmed'[c] = confirmed[c]
    PROVE  CallInv(c)'
<1>1. \A t \in {"hold", "commit", "refund"} : Has(t, c)' = Has(t, c)
  BY DEF Has
<1>2. RemainderOnly(c)' = RemainderOnly(c)
  BY <1>1 DEF RemainderOnly
<1>3. EntriesInv(c)'
  BY <1>1 DEF CallInv, EntriesInv
<1>4. ProgressInv(c)'
  BY <1>1, <1>2 DEF CallInv, ProgressInv
<1>5. ReceiptInv(c)'
  BY <1>1, <1>2 DEF CallInv, ReceiptInv
<1>6. HoldInv(c)'
  BY <1>1 DEF CallInv, HoldInv
<1> QED BY <1>3, <1>4, <1>5, <1>6 DEF CallInv

\* A step of call c itself: the others are as they were.
LEMMA StepOfCall ==
    ASSUME TypeOK, MeteredInv, NEW c \in Calls, ledger' = ledger,
           \A d \in Calls : d # c =>
              /\ pc'[d] = pc[d] /\ reply'[d] = reply[d] /\ cost'[d] = cost[d]
              /\ verdict'[d] = verdict[d] /\ confirmed'[d] = confirmed[d]
              /\ \A fn \in {"reserve", "commit", "release"} : Asked(fn, d)' = Asked(fn, d),
           CallInv(c)'
    PROVE  MeteredInv'
<1> SUFFICES ASSUME NEW d \in Calls, d # c PROVE CallInv(d)'
  BY DEF MeteredInv
<1>1. \A t \in {"hold", "commit", "refund"} : Entries(t, d)' = Entries(t, d)
  BY SameEntries
<1>2. CallInv(d)
  BY DEF MeteredInv
<1> QED BY <1>1, <1>2, CallKept

\* What sending a request changes.
LEMMA AskEffect ==
    ASSUME TypeOK, NEW c \in Calls, NEW fn, NEW phase, Ask(c, fn, phase)
    PROVE  /\ pc'[c] = phase /\ reply'[c] = "none"
           /\ \A f : Asked(f, c)' <=> Asked(f, c) \/ f = fn
           /\ \A d \in Calls : d # c =>
                 /\ pc'[d] = pc[d] /\ reply'[d] = reply[d]
                 /\ \A f : Asked(f, d)' = Asked(f, d)
BY DEF Ask, TypeOK, Asked

\* What answering a call changes.
LEMMA AnswerEffect ==
    ASSUME TypeOK, NEW c \in Calls, NEW v, NEW known, Answer(c, v, known)
    PROVE  /\ pc'[c] = "answered" /\ verdict'[c] = v /\ confirmed'[c] = known
           /\ \A d \in Calls : d # c =>
                 pc'[d] = pc[d] /\ verdict'[d] = verdict[d] /\ confirmed'[d] = confirmed[d]
           /\ reply' = reply /\ net' = net
           /\ \A d, f : Asked(f, d)' = Asked(f, d)
BY DEF Answer, TypeOK, Asked

\* While a ledger stands still, so does what it says of a call.
LEMMA LedgerStands ==
    ASSUME NEW c, ledger' = ledger, cost'[c] = cost[c]
    PROVE  /\ \A t : Has(t, c)' = Has(t, c)
           /\ RemainderOnly(c)' = RemainderOnly(c)
           /\ EntriesInv(c) => EntriesInv(c)'
<1>1. \A t : Entries(t, c)' = Entries(t, c)
  BY SameEntries
<1>2. \A t : Has(t, c)' = Has(t, c)
  BY <1>1 DEF Has
<1> QED BY <1>1, <1>2 DEF RemainderOnly, EntriesInv

\* A call under way has no receipt yet.
LEMMA NoReceiptYet ==
    ASSUME NEW c \in Calls, MeteredInv, pc[c] # "answered"
    PROVE  ~confirmed[c]
BY DEF MeteredInv, CallInv, ReceiptInv

\* The steps of a call that send a request, with its cost already settled.
LEMMA AskingStep ==
    ASSUME TypeOK, MeteredInv, NEW c \in Calls,
           \/ FindAccount(c) \/ MissAccount(c) \/ Granted(c) \/ ToolFails(c)
           \/ ToolRaises(c) \/ CommitFailed(c)
    PROVE  MeteredInv'
<1>1. /\ ledger' = ledger /\ cost' = cost
      /\ verdict' = verdict /\ confirmed' = confirmed
  BY DEF FindAccount, MissAccount, Granted, ToolFails, ToolRaises, CommitFailed, ledgerVars
<1>2. CallInv(c) /\ ~confirmed[c]
  BY NoReceiptYet DEF FindAccount, MissAccount, Granted, ToolFails, ToolRaises,
     CommitFailed, MeteredInv
<1>3. PICK fn, phase : Ask(c, fn, phase)
  BY DEF FindAccount, MissAccount, Granted, ToolFails, ToolRaises, CommitFailed
<1>4. ProgressInv(c)' /\ HoldInv(c)'
  <2> USE AskEffect, LedgerStands, <1>1, <1>2
      DEF CallInv, ProgressInv, HoldInv, Unsettled
  <2>1. CASE FindAccount(c)
    BY <2>1 DEF FindAccount
  <2>2. CASE MissAccount(c)
    BY <2>2 DEF MissAccount
  <2>3. CASE Granted(c)
    BY <2>3 DEF Granted
  <2>4. CASE ToolFails(c)
    BY <2>4 DEF ToolFails
  <2>5. CASE ToolRaises(c)
    BY <2>5 DEF ToolRaises
  <2>6. CASE CommitFailed(c)
    BY <2>6 DEF CommitFailed
  <2> QED BY <2>1, <2>2, <2>3, <2>4, <2>5, <2>6
<1>5. CallInv(c)'
  BY <1>1, <1>2, <1>4, LedgerStands DEF CallInv, ReceiptInv
<1> QED BY <1>1, <1>3, <1>5, AskEffect, StepOfCall

\* The steps of a call that answer it.
LEMMA AnsweringStep ==
    ASSUME TypeOK, MeteredInv, NEW c \in Calls,
           \/ BillingUnavailable(c) \/ InsufficientCredits(c) \/ FailedAnswered(c)
           \/ RaisedAnswered(c) \/ Committed(c) \/ Undone(c)
    PROVE  MeteredInv'
<1>1. ledger' = ledger /\ cost' = cost
  BY DEF BillingUnavailable, InsufficientCredits, FailedAnswered, RaisedAnswered,
         Committed, Undone, ledgerVars
<1>2. CallInv(c)
  BY DEF MeteredInv
<1>3. PICK v, known : Answer(c, v, known)
  BY DEF BillingUnavailable, InsufficientCredits, FailedAnswered, RaisedAnswered,
         Committed, Undone
<1>4. pc'[c] = "answered" /\ \A f : Asked(f, c)' = Asked(f, c)
  BY <1>3, AnswerEffect
<1>5. ProgressInv(c)'
  BY <1>1, <1>2, <1>4, LedgerStands DEF CallInv, ProgressInv, Unsettled
<1>6. ReceiptInv(c)' /\ HoldInv(c)'
  <2> USE AnswerEffect, LedgerStands, <1>1, <1>2, <1>4
      DEF CallInv, ProgressInv, ReceiptInv, HoldInv, Unsettled, Returns
  <2>1. CASE BillingUnavailable(c)
    BY <2>1 DEF BillingUnavailable
  <2>2. CASE InsufficientCredits(c)
    BY <2>2 DEF InsufficientCredits
  <2>3. CASE FailedAnswered(c)
    BY <2>3 DEF FailedAnswered
  <2>4. CASE RaisedAnswered(c)
    BY <2>4 DEF RaisedAnswered
  <2>5. CASE Committed(c)
    BY <2>5 DEF Committed
  <2>6. CASE Undone(c)
    BY <2>6 DEF Undone
  <2> QED BY <2>1, <2>2, <2>3, <2>4, <2>5, <2>6
<1>7. CallInv(c)'
  BY <1>1, <1>2, <1>5, <1>6, LedgerStands DEF CallInv
<1> QED BY <1>1, <1>3, <1>7, AnswerEffect, StepOfCall

\* The remaining steps of a call: it arrives, starts its tool, and asks for
\* the commit of a cost that was clamped to the hold.
LEMMA MovingStep ==
    ASSUME TypeOK, MeteredInv, NEW c \in Calls, Arrive(c) \/ StartTool(c)
    PROVE  MeteredInv'
<1>1. /\ ledger' = ledger /\ net' = net /\ reply' = reply /\ cost' = cost
      /\ verdict' = verdict /\ confirmed' = confirmed
  BY DEF Arrive, StartTool, ledgerVars
<1>2. CallInv(c) /\ ~confirmed[c]
  BY NoReceiptYet DEF Arrive, StartTool, MeteredInv
<1>3. \A f, d : Asked(f, d)' = Asked(f, d)
  BY <1>1 DEF Asked
<1>4. \A d \in Calls : d # c => pc'[d] = pc[d]
  BY DEF Arrive, StartTool, TypeOK
<1>5. ProgressInv(c)'
  BY <1>1, <1>2, <1>3, LedgerStands
     DEF CallInv, ProgressInv, Unsettled, Arrive, StartTool, TypeOK
<1>6. HoldInv(c)'
  BY DEF HoldInv, Arrive, StartTool, TypeOK
<1>7. CallInv(c)'
  BY <1>1, <1>2, <1>5, <1>6, LedgerStands DEF CallInv, ReceiptInv
<1> QED BY <1>1, <1>3, <1>4, <1>7, StepOfCall

LEMMA CommittingStep ==
    ASSUME TypeOK, MeteredInv, NEW c \in Calls, ToolSucceeds(c)
    PROVE  MeteredInv'
<1>1. /\ ledger' = ledger /\ verdict' = verdict /\ confirmed' = confirmed
      /\ Ask(c, "commit", "committing") /\ pc[c] = "executing"
  BY DEF ToolSucceeds, ledgerVars
<1>2. CallInv(c) /\ ~confirmed[c]
  BY <1>1, NoReceiptYet DEF MeteredInv
<1>3. cost'[c] <= MaxHold /\ \A d \in Calls : d # c => cost'[d] = cost[d]
  BY ClampedType DEF ToolSucceeds, TypeOK
<1>4. \A t \in {"hold", "commit", "refund"} : Entries(t, c)' = Entries(t, c)
  BY <1>1, SameEntries
<1>5. /\ Has("hold", c) /\ ~Has("commit", c) /\ ~Has("refund", c)
      /\ ~Asked("reserve", c) /\ ~Asked("commit", c) /\ ~Asked("release", c)
  BY <1>1, <1>2 DEF CallInv, ProgressInv, Unsettled
<1>6. EntriesInv(c)'
  BY <1>2, <1>3, <1>4, <1>5 DEF CallInv, EntriesInv, Has
<1>7. ProgressInv(c)'
  BY <1>1, <1>4, <1>5, AskEffect DEF ProgressInv, Unsettled, Has, RemainderOnly
<1>8. HoldInv(c)'
  BY <1>1, AskEffect DEF HoldInv
<1>9. CallInv(c)'
  BY <1>1, <1>2, <1>6, <1>7, <1>8 DEF CallInv, ReceiptInv
<1> QED BY <1>1, <1>3, <1>9, AskEffect, StepOfCall

\* A request served concerns its caller's entries only, and is gone.
LEMMA ServeOthers ==
    ASSUME TypeOK, MeteredInv, NEW q \in net, Serve(q),
           \A d \in Calls, t \in {"hold", "commit", "refund"} :
              d # q.call => Entries(t, d)' = Entries(t, d),
           CallInv(q.call)'
    PROVE  MeteredInv'
<1> SUFFICES ASSUME NEW d \in Calls, d # q.call PROVE CallInv(d)'
  BY DEF MeteredInv
<1>1. /\ reply'[d] = reply[d] /\ pc' = pc /\ cost' = cost
      /\ verdict' = verdict /\ confirmed' = confirmed
  BY DEF Serve, callVars, TypeOK
<1>2. \A f : Asked(f, d)' = Asked(f, d)
  BY DEF Serve, Asked
<1>3. CallInv(d)
  BY DEF MeteredInv
<1> QED BY <1>1, <1>2, <1>3, CallKept

\* What the caller of a served request may still have under way.
LEMMA ServeEffect ==
    ASSUME TypeOK, NEW q \in net, Serve(q)
    PROVE  /\ pc' = pc /\ cost' = cost /\ verdict' = verdict /\ confirmed' = confirmed
           /\ q.call \in Calls /\ q.fn \in Function /\ Asked(q.fn, q.call)
           /\ ~Asked(q.fn, q.call)'
           /\ \A f, d : Asked(f, d)' => Asked(f, d)
           /\ \A f : f # q.fn => Asked(f, q.call)' = Asked(f, q.call)
           /\ pc[q.call] \notin Waiting[q.fn] => reply' = reply
<1>1. q \in Request
  BY DEF TypeOK
<1>2. q = [fn |-> q.fn, call |-> q.call]
  BY <1>1 DEF Request
<1> QED BY <1>1, <1>2 DEF Serve, callVars, Asked, Request

LEMMA ServeReserve ==
    ASSUME TypeOK, MeteredInv, NEW q \in net, Serve(q), q.fn = "reserve"
    PROVE  MeteredInv'
<1> DEFINE c == q.call
           hold == [type |-> "hold", ref |-> c, amount |-> -MaxHold]
<1>1. PICK r \in {"ok", "refused", "error"} :
        /\ CreditReserve(c, MaxHold, r)
        /\ reply' = IF pc[c] \in Waiting["reserve"] THEN [reply EXCEPT ![c] = r] ELSE reply
  BY DEF Serve
<1>2. c \in Calls /\ CallInv(c) /\ Asked("reserve", c) /\ ~Asked("reserve", c)'
  BY ServeEffect DEF MeteredInv
<1>3. ~Has("hold", c)
  BY <1>2 DEF CallInv, ProgressInv
<1>4. /\ ~confirmed[c]
      /\ pc[c] \notin {"idle", "lookup", "granting", "executing", "committing",
                       "releasing", "raising", "undoing"}
      /\ ~Has("commit", c) /\ ~Has("refund", c)
  BY <1>2, <1>3 DEF CallInv, ProgressInv, EntriesInv, ReceiptInv
<1>7. HoldInv(c)'
  BY <1>2, <1>4, ServeEffect DEF CallInv, HoldInv
<1>0. hold.type = "hold" /\ hold.ref = c /\ hold.amount = -MaxHold
  OBVIOUS
<1>5. CASE r = "ok" /\ ledger' = ledger \cup {hold}
  <2> HIDE DEF hold
  <2>1. \A d \in Calls, t \in {"hold", "commit", "refund"} :
           d # c \/ t # "hold" => Entries(t, d)' = Entries(t, d)
    BY <1>5, <1>0, AddEntry
  <2>2. Entries("hold", c)' = Entries("hold", c) \cup {hold}
    BY <1>5, <1>0, AddEntry
  <2>3. Has("hold", c)' /\ ~Has("commit", c)' /\ ~Has("refund", c)'
    BY <1>2, <1>4, <2>1, <2>2 DEF Has
  <2>4. EntriesInv(c)'
    BY <1>2, <1>0, <2>1, <2>2, <2>3, ServeEffect DEF CallInv, EntriesInv, Has
  <2>5. ProgressInv(c)'
    BY <1>1, <1>2, <1>4, <1>5, <2>3, ServeEffect
       DEF CallInv, ProgressInv, TypeOK, Unsettled
  <2>6. CallInv(c)'
    BY <1>4, <1>7, <2>4, <2>5, ServeEffect DEF CallInv, ReceiptInv
  <2> QED BY <2>1, <2>6, ServeOthers
<1>6. CASE r \in {"ok", "refused"} /\ ledger' = ledger /\ (r = "ok" => Has("hold", c))
  <2>1. EntriesInv(c)' /\ \A t : Has(t, c)' = Has(t, c)
    BY <1>2, <1>6, LedgerStands, ServeEffect DEF CallInv
  <2>2. ProgressInv(c)'
    BY <1>1, <1>2, <1>3, <1>4, <1>6, <2>1, ServeEffect
       DEF CallInv, ProgressInv, TypeOK, Unsettled
  <2>3. CallInv(c)'
    BY <1>4, <1>7, <2>1, <2>2, ServeEffect DEF CallInv, ReceiptInv
  <2> QED BY <1>6, <2>3, SameEntries, ServeOthers
<1> QED BY <1>1, <1>5, <1>6 DEF CreditReserve, ledgerVars

LEMMA ServeCommit ==
    ASSUME TypeOK, MeteredInv, NEW q \in net, Serve(q), q.fn = "commit"
    PROVE  MeteredInv'
<1> DEFINE c == q.call
           diff == Held(c) - cost[c]
           marker == [type |-> "commit", ref |-> c, amount |-> 0]
           refund == [type |-> "refund", ref |-> c, amount |-> diff]
<1>0. /\ marker.type = "commit" /\ marker.ref = c /\ marker.amount = 0
      /\ refund.type = "refund" /\ refund.ref = c /\ refund.amount = diff
  OBVIOUS
<1>1. PICK r \in {"ok", "refused", "error"} :
        /\ CreditCommit(c, cost[c], r)
        /\ reply' = IF pc[c] \in Waiting["commit"] THEN [reply EXCEPT ![c] = r] ELSE reply
  BY DEF Serve
<1>2. c \in Calls /\ CallInv(c) /\ Asked("commit", c) /\ ~Asked("commit", c)'
  BY ServeEffect DEF MeteredInv
<1>3. ~confirmed[c] /\ pc[c] \notin Unsettled \cup {"releasing"}
  BY <1>2 DEF CallInv, ProgressInv, ReceiptInv
<1>4. reply'[c] = IF pc[c] = "committing" THEN r ELSE reply[c]
  BY <1>1, <1>2 DEF TypeOK, Waiting
<1>5. Has("hold", c) => diff = MaxHold - cost[c] /\ cost[c] <= MaxHold
  BY <1>2, HeldKnown DEF CallInv, EntriesInv
<1>6. cost[c] \in Nat /\ MaxHold \in Nat
  BY <1>2, CreditAssumption DEF TypeOK
<1> HIDE DEF diff, marker, refund
<1>7. ASSUME ledger' = ledger, r = "ok" => Has("commit", c),
             r = "refused" => ~Has("hold", c)
      PROVE  MeteredInv'
  <2>1. /\ EntriesInv(c)' /\ \A t : Has(t, c)' = Has(t, c)
        /\ RemainderOnly(c)' = RemainderOnly(c)
    BY <1>2, <1>7, LedgerStands, ServeEffect DEF CallInv
  <2>2. ProgressInv(c)' /\ HoldInv(c)'
    BY <1>2, <1>3, <1>4, <1>7, <2>1, ServeEffect DEF CallInv, ProgressInv, HoldInv
  <2>3. CallInv(c)'
    BY <1>3, <2>1, <2>2, ServeEffect DEF CallInv, ReceiptInv
  <2> QED BY <1>7, <2>3, SameEntries, ServeOthers
<1>8. ASSUME Has("hold", c), ~Has("commit", c), r = "ok",
             \A d \in Calls, t \in {"hold", "commit", "refund"} :
                d # c \/ t = "hold" => Entries(t, d)' = Entries(t, d),
             Entries("commit", c)' = Entries("commit", c) \cup {marker},
             \/ /\ diff > 0 /\ ~Has("refund", c)
                /\ Entries("refund", c)' = Entries("refund", c) \cup {refund}
             \/ /\ diff <= 0
                /\ Entries("refund", c)' = Entries("refund", c)
      PROVE  MeteredInv'
  <2>1. /\ Has("hold", c)' /\ Has("commit", c)' /\ cost'[c] = cost[c]
        /\ Has("refund", c) => Has("refund", c)'
    BY <1>2, <1>8, ServeEffect DEF Has
  <2>2. EntriesInv(c)'
    BY <1>0, <1>2, <1>5, <1>6, <1>8, <2>1 DEF CallInv, EntriesInv, Has
  <2>3. pc[c] = "committing" => RemainderOnly(c)'
    BY <1>0, <1>2, <1>5, <1>8, <2>1 DEF CallInv, ProgressInv, RemainderOnly, Has
  <2>4. ProgressInv(c)'
    BY <1>2, <1>3, <1>4, <1>8, <2>1, <2>3, ServeEffect DEF CallInv, ProgressInv, Unsettled
  <2>5. HoldInv(c)'
    BY <1>2, <1>4, <1>8, <2>1, ServeEffect DEF CallInv, HoldInv
  <2>6. CallInv(c)'
    BY <1>3, <2>2, <2>4, <2>5, ServeEffect DEF CallInv, ReceiptInv
  <2> QED BY <1>8, <2>6, ServeOthers
<1>9. CASE /\ Has("hold", c) /\ ~Has("commit", c) /\ r = "ok"
           /\ diff > 0 /\ ~Has("refund", c)
           /\ ledger' = ledger \cup {marker, refund}
  <2>1. \A t, d : Entries(t, d)' =
           Entries(t, d) \cup {e \in {marker, refund} : e.type = t /\ e.ref = d}
    BY <1>9 DEF Entries
  <2> QED BY <1>0, <1>8, <1>9, <2>1
<1>10. CASE /\ Has("hold", c) /\ ~Has("commit", c) /\ r = "ok"
            /\ diff <= 0
            /\ ledger' = ledger \cup {marker}
  <2>1. \A t, d : Entries(t, d)' =
           Entries(t, d) \cup {e \in {marker} : e.type = t /\ e.ref = d}
    BY <1>10 DEF Entries
  <2> QED BY <1>0, <1>8, <1>10, <2>1
<1> QED BY <1>1, <1>7, <1>9, <1>10 DEF CreditCommit, ledgerVars, diff, marker, refund

LEMMA ServeRelease ==
    ASSUME TypeOK, MeteredInv, NEW q \in net, Serve(q), q.fn = "release"
    PROVE  MeteredInv'
<1> DEFINE c == q.call
           refund == [type |-> "refund", ref |-> c, amount |-> Held(c)]
<1>0. refund.type = "refund" /\ refund.ref = c /\ refund.amount = Held(c)
  OBVIOUS
<1>1. PICK r \in {"ok", "refused", "error"} :
        /\ CreditRelease(c, r)
        /\ reply' = IF pc[c] \in Waiting["release"] THEN [reply EXCEPT ![c] = r] ELSE reply
  BY DEF Serve
<1>2. c \in Calls /\ CallInv(c) /\ Asked("release", c) /\ ~Asked("release", c)'
  BY ServeEffect DEF MeteredInv
<1>3. ~confirmed[c] /\ pc[c] \notin Unsettled \cup {"committing"}
  BY <1>2 DEF CallInv, ProgressInv, ReceiptInv
<1>4. reply'[c] = IF pc[c] \in {"releasing", "raising", "undoing"} THEN r ELSE reply[c]
  BY <1>1, <1>2 DEF TypeOK, Waiting
<1>5. Has("hold", c) => Held(c) = MaxHold
  BY <1>2, HeldKnown DEF CallInv
<1> HIDE DEF refund
<1>6. CASE /\ ledger' = ledger
           /\ IF r = "ok" THEN Has("refund", c) ELSE ~Has("hold", c)
  <2>1. EntriesInv(c)' /\ \A t : Has(t, c)' = Has(t, c)
    BY <1>2, <1>6, LedgerStands, ServeEffect DEF CallInv
  <2>2. ProgressInv(c)' /\ HoldInv(c)'
    BY <1>2, <1>3, <1>4, <1>6, <2>1, ServeEffect DEF CallInv, ProgressInv, HoldInv
  <2>3. CallInv(c)'
    BY <1>3, <2>1, <2>2, ServeEffect DEF CallInv, ReceiptInv
  <2> QED BY <1>6, <2>3, SameEntries, ServeOthers
<1>7. CASE Has("hold", c) /\ ~Has("refund", c) /\ ledger' = ledger \cup {refund}
  <2>1. \A d \in Calls, t \in {"hold", "commit", "refund"} :
           d # c \/ t # "refund" => Entries(t, d)' = Entries(t, d)
    BY <1>0, <1>7, AddEntry
  <2>2. Entries("refund", c)' = Entries("refund", c) \cup {refund}
    BY <1>0, <1>7, AddEntry
  <2>3. /\ Has("hold", c)' /\ Has("refund", c)' /\ Has("commit", c)' = Has("commit", c)
        /\ cost'[c] = cost[c]
    BY <1>2, <1>7, <2>1, <2>2, ServeEffect DEF Has
  <2>4. EntriesInv(c)'
    BY <1>0, <1>2, <1>5, <1>7, <2>1, <2>2, <2>3 DEF CallInv, EntriesInv, Has
  <2>5. ProgressInv(c)'
    BY <1>2, <1>3, <1>4, <1>7, <2>3, ServeEffect DEF CallInv, ProgressInv, Unsettled
  <2>6. HoldInv(c)'
    BY <1>2, <1>3, <2>3, ServeEffect DEF CallInv, HoldInv
  <2>7. CallInv(c)'
    BY <1>3, <2>4, <2>5, <2>6, ServeEffect DEF CallInv, ReceiptInv
  <2> QED BY <2>1, <2>7, ServeOthers
<1> QED BY <1>1, <1>6, <1>7 DEF CreditRelease, ledgerVars, refund

\* A grant is no entry of any call.
LEMMA GrantEntries ==
    ASSUME NEW k, NEW n, NEW r, CreditGrant(k, n, r)
    PROVE  \A c, t : t \in {"hold", "commit", "refund"} => Entries(t, c)' = Entries(t, c)
BY AddEntry, SameEntries DEF CreditGrant, ledgerVars

LEMMA ServeGrant ==
    ASSUME TypeOK, MeteredInv, NEW q \in net, Serve(q), q.fn = "grant"
    PROVE  MeteredInv'
<1> DEFINE c == q.call
<1>1. \A d, t : t \in {"hold", "commit", "refund"} => Entries(t, d)' = Entries(t, d)
  BY GrantEntries DEF Serve
<1>2. c \in Calls /\ CallInv(c)
  BY ServeEffect DEF MeteredInv
<1>3. CASE pc[c] # "granting"
  BY <1>1, <1>2, <1>3, ServeEffect, CallKept, ServeOthers DEF Waiting
<1>4. CASE pc[c] = "granting"
  <2>1. \A t \in {"hold", "commit", "refund"} : Has(t, c)' = Has(t, c)
    BY <1>1 DEF Has
  <2>2. EntriesInv(c)'
    BY <1>1, <1>2, <2>1, ServeEffect DEF CallInv, EntriesInv
  <2>3. ProgressInv(c)' /\ ReceiptInv(c)' /\ HoldInv(c)'
    BY <1>2, <1>4, <2>1, ServeEffect
       DEF CallInv, ProgressInv, ReceiptInv, HoldInv, Unsettled
  <2> QED BY <1>1, <2>2, <2>3, ServeOthers DEF CallInv
<1> QED BY <1>3, <1>4

----------------------------------------------------------------------------
LEMMA Invariance == TypeOK /\ MeteredInv /\ [Next]_vars => MeteredInv'
<1> SUFFICES ASSUME TypeOK, MeteredInv, [Next]_vars PROVE MeteredInv'
  OBVIOUS
<1>1. ASSUME NEW c \in Calls, Arrive(c) \/ Step(c) PROVE MeteredInv'
  BY <1>1, AskingStep, AnsweringStep, MovingStep, CommittingStep DEF Step
<1>2. ASSUME NEW q \in net, Serve(q) PROVE MeteredInv'
  BY <1>2, ServeReserve, ServeCommit, ServeRelease, ServeGrant, ServeEffect
     DEF Function
<1>3. CASE OrderPaid
  <2>1. /\ UNCHANGED <<pc, cost, verdict, confirmed, net, reply>>
        /\ \A c, t : t \in {"hold", "commit", "refund"} => Entries(t, c)' = Entries(t, c)
    BY <1>3, GrantEntries DEF OrderPaid, callVars
  <2> QED BY <2>1, CallKept DEF MeteredInv, Asked
<1>4. CASE Crash
  <2> SUFFICES ASSUME NEW c \in Calls PROVE CallInv(c)'
    BY DEF MeteredInv
  <2>1. /\ UNCHANGED <<cost, verdict, confirmed, net, reply>> /\ ledger' = ledger
        /\ CallInv(c)
    BY <1>4 DEF Crash, ledgerVars, MeteredInv
  <2>2. CASE pc'[c] = pc[c]
    BY <2>1, <2>2, SameEntries, CallKept DEF Asked
  <2>3. CASE pc'[c] = "lost" /\ pc[c] # "answered"
    <3>1. /\ EntriesInv(c)' /\ \A t : Has(t, c)' = Has(t, c)
          /\ \A fn : Asked(fn, c)' = Asked(fn, c)
      BY <2>1, LedgerStands DEF CallInv, Asked
    <3> QED BY <2>1, <2>3, <3>1 DEF CallInv, ProgressInv, ReceiptInv, HoldInv, Unsettled
  <2> QED BY <1>4, <2>2, <2>3 DEF Crash
<1>5. CASE UNCHANGED vars
  <2>1. UNCHANGED <<pc, cost, verdict, confirmed, net, reply>> /\ ledger' = ledger
    BY <1>5 DEF vars, callVars, ledgerVars
  <2> QED BY <2>1, SameEntries, CallKept DEF MeteredInv, Asked
<1> QED BY <1>1, <1>2, <1>3, <1>4, <1>5 DEF Next

LEMMA Initially == Init => TypeOK /\ MeteredInv
<1> SUFFICES ASSUME Init PROVE TypeOK /\ MeteredInv
  OBVIOUS
<1>1. TypeOK
  BY DEF Init, TypeOK, LedgerInit, LedgerTypeOK, NoAccount, Account, Phase, Verdict
<1>2. \A t, c : Entries(t, c) = {}
  BY DEF Init, LedgerInit, Entries
<1>3. MeteredInv
  BY <1>2, CreditAssumption
     DEF Init, MeteredInv, CallInv, EntriesInv, ProgressInv, ReceiptInv, HoldInv, Has, Asked
<1> QED BY <1>1, <1>3

LEMMA Inductive == Spec => [](TypeOK /\ MeteredInv)
BY Initially, TypeStep, Invariance, PTL DEF Spec

\* The state is well formed whatever the network does; in particular no
\* interleaving of reservations, commits, releases and grants overdraws the
\* account (CHECK (balance_credits >= 0)).
THEOREM TypeCorrect == Spec => []TypeOK
BY Inductive, PTL

\* A receipt that shows a balance states what the ledger kept, for good.
THEOREM ReceiptsMatch == Spec => []ReceiptMatchesLedger
<1>1. TypeOK /\ MeteredInv => ReceiptMatchesLedger
  <2> SUFFICES ASSUME TypeOK, MeteredInv, NEW c \in Calls, confirmed[c]
               PROVE  Charge(c) = ReceiptCharge(c)
    BY DEF ReceiptMatchesLedger
  <2>1. EntriesInv(c) /\ ReceiptInv(c) /\ cost[c] \in Nat
    BY DEF MeteredInv, CallInv, TypeOK
  <2> QED BY <2>1, ChargeKnown DEF ReceiptInv, ReceiptCharge
<1> QED BY <1>1, Inductive, PTL

\* No call is ever charged more than its ceiling, or paid for being made; and
\* a committed one is charged its cost or, once released, nothing.
THEOREM ChargesBounded == Spec => []ChargeBounded
<1>1. TypeOK /\ MeteredInv => ChargeBounded
  <2> SUFFICES ASSUME TypeOK, MeteredInv, NEW c \in Calls
               PROVE  /\ Charge(c) \in 0..MaxHold
                      /\ Has("commit", c) => Charge(c) \in {0, cost[c]}
    BY DEF ChargeBounded
  <2>1. EntriesInv(c) /\ cost[c] \in Nat /\ cost[c] <= MaxHold
    BY DEF MeteredInv, CallInv, EntriesInv, TypeOK
  <2>2. Charge(c) = 0 \/ Charge(c) = MaxHold \/ Charge(c) = cost[c]
    BY <2>1, ChargeKnown
  <2>3. Charge(c) \in 0..MaxHold
    BY <2>1, <2>2, CreditAssumption
  <2> QED BY <2>1, <2>3, ChargeKnown
<1> QED BY <1>1, Inductive, PTL

\* A tool that runs is paid for in advance: its hold is in the ledger, whole.
THEOREM ToolsArePaid == Spec => []ToolRunsOnHeldCredits
<1>1. TypeOK /\ MeteredInv => ToolRunsOnHeldCredits
  <2> SUFFICES ASSUME TypeOK, MeteredInv, NEW c \in Calls, pc[c] = "executing"
               PROVE  Charge(c) = MaxHold
    BY DEF ToolRunsOnHeldCredits
  <2>1. EntriesInv(c) /\ ProgressInv(c) /\ cost[c] \in Nat
    BY DEF MeteredInv, CallInv, TypeOK
  <2>2. Has("hold", c) /\ ~Has("refund", c)
    BY <2>1 DEF ProgressInv, Unsettled
  <2> QED BY <2>1, <2>2, ChargeKnown
<1> QED BY <1>1, Inductive, PTL

\* No call is answered with its hold left open and nobody having asked for its
\* release, the one that reported billing_unavailable excepted.
THEOREM NoneForgotten == Spec => []NoHoldForgotten
<1>1. MeteredInv => NoHoldForgotten
  BY DEF MeteredInv, CallInv, HoldInv, NoHoldForgotten, Asked
<1> QED BY <1>1, Inductive, PTL

----------------------------------------------------------------------------
(***************************************************************************)
(* The sum of the amounts of finitely many entries.                        *)
(***************************************************************************)

\* The library computes it by a recursion over subsets, which takes the chosen
\* entry first.
Total(S) == MapThenSumSet(LAMBDA e : e.amount, S)
Chosen(s) == CHOOSE x \in s : TRUE
Adds(f, S) == f = [s \in SUBSET S |-> IF s = {} THEN 0
                                      ELSE Chosen(s).amount + f[s \ {Chosen(s)}]]

LEMMA TotalIs == ASSUME NEW S PROVE Total(S) = (CHOOSE f : Adds(f, S))[S]
BY DEF Total, MapThenSumSet, MapThenFoldSet, Adds, Chosen

\* Finite sets have a least one among them.
LEMMA LeastSet ==
    ASSUME NEW U, IsFiniteSet(U), NEW C \in SUBSET SUBSET U, C # {}
    PROVE  \E s \in C : \A t \in C : t \subseteq s => t = s
<1> DEFINE R == {ij \in Nat \X Nat : ij[1] < ij[2]}
           N == {Cardinality(s) : s \in C}
<1>1. \A s \in C : IsFiniteSet(s) /\ Cardinality(s) \in Nat
  BY FS_Subset, FS_CardinalityType
<1>2. N \in SUBSET Nat /\ N # {}
  BY <1>1
<1>3. PICK n \in N : \A m \in N : <<m, n>> \notin R
  <2>1. IsWellFoundedOn(R, Nat)
    BY NatLessThanWellFounded DEF OpToRel
  <2> HIDE DEF R, N
  <2> QED BY <1>2, <2>1, WFMin
<1>4. PICK s \in C : n = Cardinality(s)
  BY <1>3
<1>5. ASSUME NEW t \in C, t \subseteq s PROVE t = s
  <2>1. Cardinality(t) \in N /\ Cardinality(t) \in Nat /\ n \in Nat
    BY <1>1, <1>4
  <2>2. ~(Cardinality(t) < n)
    BY <1>3, <2>1
  <2>3. IsFiniteSet(s) /\ Cardinality(t) <= Cardinality(s)
    BY Zenon, <1>1, <1>5, FS_Subset
  <2>4. Cardinality(t) = Cardinality(s)
    BY <1>4, <2>1, <2>2, <2>3
  <2> QED BY Zenon, <1>5, <2>3, <2>4, FS_Subset
<1> QED BY <1>5

LEMMA ChosenIsIn == ASSUME NEW s, s # {} PROVE Chosen(s) \in s
BY DEF Chosen

LEMMA AddsStep ==
    ASSUME NEW S, NEW f, Adds(f, S), NEW s \in SUBSET S
    PROVE  f[s] = IF s = {} THEN 0 ELSE Chosen(s).amount + f[s \ {Chosen(s)}]
BY DEF Adds

\* The recursion has one solution,
LEMMA AddsUnique ==
    ASSUME NEW S, IsFiniteSet(S), NEW T, NEW f, NEW g, Adds(f, S), Adds(g, T),
           NEW s \in (SUBSET S) \cap (SUBSET T)
    PROVE  f[s] = g[s]
<1> DEFINE C == {t \in (SUBSET S) \cap (SUBSET T) : f[t] # g[t]}
<1> SUFFICES ASSUME C # {} PROVE FALSE
  OBVIOUS
<1>1. C \in SUBSET SUBSET S
  OBVIOUS
<1> HIDE DEF C
<1>2. PICK t \in C : \A u \in C : u \subseteq t => u = t
  BY <1>1, LeastSet
<1> USE DEF C
<1>3. t # {}
  BY AddsStep
<1>4. Chosen(t) \in t
  BY <1>3, ChosenIsIn
<1>5. f[t \ {Chosen(t)}] = g[t \ {Chosen(t)}]
  BY <1>2, <1>4
<1> QED BY <1>3, <1>5, AddsStep

\* and has one for every finite set.
LEMMA AddsExists ==
    ASSUME NEW S, IsFiniteSet(S)
    PROVE  \E f : Adds(f, S)
<1> DEFINE C == {t \in SUBSET S : ~\E f : Adds(f, t)}
<1> SUFFICES ASSUME C # {} PROVE FALSE
  OBVIOUS
<1>1. C \in SUBSET SUBSET S
  OBVIOUS
<1> HIDE DEF C
<1>2. PICK T \in C : \A u \in C : u \subseteq T => u = T
  BY <1>1, LeastSet
<1> USE DEF C
<1> DEFINE F(s) == CHOOSE f : Adds(f, s)
           sum(s) == IF s = {} THEN 0 ELSE Chosen(s).amount + F(s \ {Chosen(s)})[s \ {Chosen(s)}]
           g == [s \in SUBSET T |-> sum(s)]
<1>3. \A s \in SUBSET T : s # T => Adds(F(s), s)
  <2> SUFFICES ASSUME NEW s \in SUBSET T, s # T PROVE Adds(F(s), s)
    OBVIOUS
  <2>1. \E f : Adds(f, s)
    BY <1>2
  <2> QED BY <2>1
<1>4. ASSUME NEW s \in SUBSET T, s # {} PROVE s \ {Chosen(s)} \in SUBSET T /\ s \ {Chosen(s)} # T
  BY <1>4, ChosenIsIn
<1> HIDE DEF F
<1>5. ASSUME NEW s \in SUBSET T, s # T PROVE F(s)[s] = g[s]
  <2>1. Adds(F(s), s)
    BY <1>3, <1>5
  <2>2. CASE s = {}
    BY <2>1, <2>2, AddsStep
  <2>3. CASE s # {}
    <3> DEFINE u == s \ {Chosen(s)}
    <3>1. Adds(F(u), u) /\ u \in (SUBSET s) \cap (SUBSET u)
      BY <1>3, <1>4, <2>3
    <3>2. IsFiniteSet(s)
      BY FS_Subset
    <3>3. F(s)[u] = F(u)[u]
      BY <2>1, <3>1, <3>2, AddsUnique
    <3>4. F(s)[s] = Chosen(s).amount + F(s)[u]
      BY <2>1, <2>3, AddsStep
    <3> QED BY <2>3, <3>3, <3>4
  <2> QED BY <2>2, <2>3
<1>6. \A s \in SUBSET T :
         g[s] = IF s = {} THEN 0 ELSE Chosen(s).amount + g[s \ {Chosen(s)}]
  BY <1>4, <1>5
<1>7. Adds(g, T)
  BY <1>6 DEF Adds
<1> QED BY <1>7

\* What the sum of no entries is, and of some.
LEMMA TotalEmpty == Total({}) = 0
<1>1. IsFiniteSet({})
  BY FS_EmptySet
<1>2. PICK f : Adds(f, {})
  BY <1>1, AddsExists
<1>3. Adds(CHOOSE h : Adds(h, {}), {})
  BY <1>2
<1> QED BY <1>3, AddsStep, TotalIs

LEMMA TotalStep ==
    ASSUME NEW S, IsFiniteSet(S), S # {}
    PROVE  Chosen(S) \in S /\ Total(S) = Chosen(S).amount + Total(S \ {Chosen(S)})
<1> DEFINE u == S \ {Chosen(S)}
           f == CHOOSE h : Adds(h, S)
           g == CHOOSE h : Adds(h, u)
<1>1. IsFiniteSet(u) /\ u \in (SUBSET S) \cap (SUBSET u)
  BY FS_Subset
<1>2. Adds(f, S)
  <2>1. \E h : Adds(h, S)
    BY AddsExists
  <2> QED BY <2>1
<1>3. Adds(g, u)
  <2>1. \E h : Adds(h, u)
    BY <1>1, AddsExists
  <2> QED BY <2>1
<1>4. f[u] = g[u]
  BY <1>1, <1>2, <1>3, AddsUnique
<1>5. f[S] = Chosen(S).amount + f[u]
  BY <1>2, AddsStep
<1>6. Total(S) = f[S] /\ Total(u) = g[u]
  BY TotalIs
<1> QED BY <1>4, <1>5, <1>6, ChosenIsIn

\* Amounts are integers.
Integral(S) == \A e \in S : e.amount \in Int

LEMMA TotalType ==
    ASSUME NEW S, IsFiniteSet(S), Integral(S)
    PROVE  Total(S) \in Int
<1> DEFINE C == {t \in SUBSET S : Total(t) \notin Int}
<1> SUFFICES ASSUME C # {} PROVE FALSE
  OBVIOUS
<1>1. C \in SUBSET SUBSET S
  OBVIOUS
<1> HIDE DEF C
<1>2. PICK t \in C : \A u \in C : u \subseteq t => u = t
  BY <1>1, LeastSet
<1> USE DEF C
<1>3. t # {} /\ IsFiniteSet(t)
  <2>1. IsFiniteSet(t) /\ Total(t) \notin Int
    BY FS_Subset
  <2> QED BY <2>1, TotalEmpty
<1>4. Chosen(t) \in t /\ Total(t) = Chosen(t).amount + Total(t \ {Chosen(t)})
  BY <1>3, TotalStep
<1>5. Total(t \ {Chosen(t)}) \in Int
  BY <1>2, <1>4
<1> QED BY <1>4, <1>5 DEF Integral

\* The sum does not depend on the order in which the library takes entries.
LEMMA TotalWithout ==
    ASSUME NEW S, IsFiniteSet(S), Integral(S), NEW x \in S
    PROVE  Total(S) = x.amount + Total(S \ {x})
<1> DEFINE C == {t \in SUBSET S : \E y \in t : Total(t) # y.amount + Total(t \ {y})}
<1> SUFFICES ASSUME C # {} PROVE FALSE
  OBVIOUS
<1>1. C \in SUBSET SUBSET S
  OBVIOUS
<1> HIDE DEF C
<1>2. PICK t \in C : \A u \in C : u \subseteq t => u = t
  BY <1>1, LeastSet
<1> USE DEF C
<1>3. PICK y \in t : Total(t) # y.amount + Total(t \ {y})
  OBVIOUS
<1> DEFINE c == Chosen(t)
<1>4. \A u \in SUBSET t : IsFiniteSet(u) /\ Integral(u)
  BY FS_Subset DEF Integral
<1>5. c \in t /\ Total(t) = c.amount + Total(t \ {c})
  BY <1>3, <1>4, TotalStep
<1> HIDE DEF c
<1>6. y # c
  BY <1>3, <1>5
<1>7. Total(t \ {c}) = y.amount + Total((t \ {c}) \ {y})
  BY <1>2, <1>5, <1>6
<1>8. Total(t \ {y}) = c.amount + Total((t \ {y}) \ {c})
  BY <1>2, <1>5, <1>6
<1> DEFINE u == (t \ {c}) \ {y}
<1>9. (t \ {y}) \ {c} = u
  OBVIOUS
<1>10. Total(u) \in Int /\ y.amount \in Int /\ c.amount \in Int
  BY <1>4, <1>5, TotalType DEF Integral
<1>11. Total(t \ {y}) = c.amount + Total(u)
  BY Zenon, <1>8, <1>9
<1>12. Total(t) = c.amount + (y.amount + Total(u))
  BY Zenon, <1>5, <1>7
<1> HIDE DEF u, C
<1>13. Total(t) = y.amount + Total(t \ {y})
  BY <1>10, <1>11, <1>12
<1> QED BY <1>3, <1>13

\* A new entry adds its amount.
LEMMA TotalWith ==
    ASSUME NEW S, IsFiniteSet(S), Integral(S), NEW x, x \notin S, x.amount \in Int
    PROVE  /\ Total(S \cup {x}) = Total(S) + x.amount
           /\ IsFiniteSet(S \cup {x}) /\ Integral(S \cup {x})
<1>1. IsFiniteSet(S \cup {x}) /\ Integral(S \cup {x})
  BY FS_AddElement DEF Integral
<1>2. Total(S \cup {x}) = x.amount + Total((S \cup {x}) \ {x})
  BY <1>1, TotalWithout
<1>3. (S \cup {x}) \ {x} = S /\ Total(S) \in Int
  BY TotalType
<1>4. Total(S \cup {x}) = x.amount + Total(S)
  BY Zenon, <1>2, <1>3
<1> QED BY <1>1, <1>3, <1>4

----------------------------------------------------------------------------
(* The books: what the ledger says of the balance and of the grants.       *)

Grants(entries) == {e \in entries : e.type = "grant"}

Books(entries, balance, granted) ==
    /\ IsFiniteSet(entries)
    /\ balance = Total(entries)
    /\ granted = Total(Grants(entries))

BooksInv == Books(ledger, account.balance, account.granted)

LEMMA EntriesIntegral ==
    ASSUME NEW S \in SUBSET Entry
    PROVE  Integral(S)
BY DEF Entry, Integral

\* A new entry keeps the books, if the balance takes its amount.
LEMMA BooksWith ==
    ASSUME NEW l \in SUBSET Entry, NEW b, NEW g, Books(l, b, g), NEW x \in Entry, x \notin l
    PROVE  Books(l \cup {x}, b + x.amount, IF x.type = "grant" THEN g + x.amount ELSE g)
<1>1. Integral(l) /\ x.amount \in Int
  BY EntriesIntegral DEF Entry
<1>2. IsFiniteSet(l) /\ b = Total(l) /\ g = Total(Grants(l))
  BY DEF Books
<1>3. IsFiniteSet(l \cup {x}) /\ Total(l \cup {x}) = b + x.amount
  BY <1>1, <1>2, TotalWith
<1>4. CASE x.type = "grant"
  <2>1. IsFiniteSet(Grants(l)) /\ Integral(Grants(l)) /\ x \notin Grants(l)
    BY <1>1, <1>2, FS_Subset DEF Grants, Integral
  <2>2. Total(Grants(l) \cup {x}) = g + x.amount
    BY <1>1, <1>2, <2>1, TotalWith
  <2>3. Grants(l \cup {x}) = Grants(l) \cup {x}
    BY <1>4 DEF Grants
  <2>4. Total(Grants(l \cup {x})) = g + x.amount
    BY Zenon, <2>2, <2>3
  <2> QED BY <1>3, <1>4, <2>4 DEF Books
<1>5. CASE x.type # "grant"
  <2>1. Grants(l \cup {x}) = Grants(l)
    BY <1>5 DEF Grants
  <2>2. Total(Grants(l \cup {x})) = g
    BY Zenon, <1>2, <2>1
  <2> QED BY <1>3, <1>5, <2>2 DEF Books
<1> QED BY <1>4, <1>5

\* An entry of a type that the hold or the grant has none of is a new one.
LEMMA NewEntry ==
    ASSUME NEW x, ~Has(x.type, x.ref)
    PROVE  x \notin ledger
BY DEF Has, Entries

LEMMA BooksKept ==
    ASSUME BooksInv, UNCHANGED ledgerVars
    PROVE  BooksInv'
BY DEF BooksInv, ledgerVars

LEMMA ReserveBooks ==
    ASSUME LedgerTypeOK, BooksInv, NEW h \in Holds, NEW r, CreditReserve(h, MaxHold, r)
    PROVE  BooksInv'
<1> DEFINE x == [type |-> "hold", ref |-> h, amount |-> -MaxHold]
<1>1. CASE UNCHANGED ledgerVars
  BY <1>1, BooksKept
<1>2. CASE /\ ~Has("hold", h) /\ ledger' = ledger \cup {x}
           /\ account' = [account EXCEPT !.balance = @ - MaxHold]
  <2>1. /\ x \in Entry /\ x.type = "hold" /\ x.ref = h /\ x.amount = -MaxHold
    BY CreditAssumption DEF Entry
  <2>2. /\ account'.balance = account.balance + (-MaxHold)
        /\ account'.granted = account.granted
    BY <1>2, CreditAssumption DEF LedgerTypeOK, Account
  <2> HIDE DEF x
  <2>3. x \notin ledger
    BY <1>2, <2>1, NewEntry
  <2>4. Books(ledger \cup {x}, account.balance + x.amount, account.granted)
    BY <2>1, <2>3, BooksWith DEF LedgerTypeOK, BooksInv
  <2> QED BY <1>2, <2>1, <2>2, <2>4 DEF BooksInv
<1> QED BY <1>1, <1>2 DEF CreditReserve

LEMMA CommitBooks ==
    ASSUME LedgerTypeOK, BooksInv, NEW h \in Holds, NEW n \in Nat, NEW r,
           Has("hold", h) => Held(h) \in Nat,
           CreditCommit(h, n, r)
    PROVE  BooksInv'
<1> DEFINE diff == Held(h) - n
           marker == [type |-> "commit", ref |-> h, amount |-> 0]
           refund == [type |-> "refund", ref |-> h, amount |-> diff]
<1>1. CASE UNCHANGED ledgerVars
  BY <1>1, BooksKept
<1>2. marker \in Entry /\ marker.type = "commit" /\ marker.ref = h /\ marker.amount = 0
  BY DEF Entry
<1>3. ASSUME ~Has("commit", h)
      PROVE  marker \notin ledger /\ Books(ledger \cup {marker}, account.balance, account.granted)
  <2> HIDE DEF marker
  <2>1. marker \notin ledger
    BY <1>2, <1>3, NewEntry
  <2>2. Books(ledger \cup {marker}, account.balance + 0, account.granted)
    BY <1>2, <2>1, BooksWith DEF LedgerTypeOK, BooksInv
  <2>3. account.balance + 0 = account.balance
    BY DEF LedgerTypeOK, Account
  <2> QED BY <2>1, <2>2, <2>3
<1>4. CASE /\ Has("hold", h) /\ diff > 0 /\ ~Has("commit", h) /\ ~Has("refund", h)
           /\ ledger' = ledger \cup {marker, refund}
           /\ account' = [account EXCEPT !.balance = @ + diff, !.spent = @ + n]
  <2>1. /\ refund \in Entry /\ refund.type = "refund" /\ refund.ref = h
        /\ refund.amount = diff
    BY <1>4 DEF Entry
  <2>2. account'.balance = account.balance + diff /\ account'.granted = account.granted
    BY <1>4 DEF LedgerTypeOK, Account
  <2> HIDE DEF diff, marker, refund
  <2>3. refund \notin ledger /\ refund # marker
    BY <1>2, <1>4, <2>1, NewEntry
  <2> DEFINE l == ledger \cup {marker}
  <2>4. l \in SUBSET Entry /\ refund \notin l /\ ledger' = l \cup {refund}
    BY <1>2, <1>4, <2>3 DEF LedgerTypeOK
  <2>5. Books(l, account.balance, account.granted)
    BY <1>3, <1>4
  <2> HIDE DEF l
  <2>6. Books(l \cup {refund}, account.balance + diff, account.granted)
    BY <2>1, <2>4, <2>5, BooksWith
  <2> QED BY <2>2, <2>4, <2>6 DEF BooksInv
<1>5. CASE /\ ~Has("commit", h)
           /\ ledger' = ledger \cup {marker}
           /\ account' = [account EXCEPT !.spent = @ + n]
  <2>1. account'.balance = account.balance /\ account'.granted = account.granted
    BY <1>5 DEF LedgerTypeOK, Account
  <2> HIDE DEF marker
  <2> QED BY <1>3, <1>5, <2>1 DEF BooksInv
<1> QED BY <1>1, <1>4, <1>5 DEF CreditCommit

LEMMA ReleaseBooks ==
    ASSUME LedgerTypeOK, BooksInv, NEW h \in Holds, NEW r,
           Has("hold", h) => Held(h) \in Nat,
           CreditRelease(h, r)
    PROVE  BooksInv'
<1> DEFINE x == [type |-> "refund", ref |-> h, amount |-> Held(h)]
<1>1. CASE UNCHANGED ledgerVars
  BY <1>1, BooksKept
<1>2. CASE /\ Has("hold", h) /\ ~Has("refund", h) /\ ledger' = ledger \cup {x}
           /\ account' = [account EXCEPT !.balance = @ + Held(h)]
  <2>1. x \in Entry /\ x.type = "refund" /\ x.ref = h /\ x.amount = Held(h)
    BY <1>2 DEF Entry
  <2>2. account'.balance = account.balance + Held(h) /\ account'.granted = account.granted
    BY <1>2 DEF LedgerTypeOK, Account
  <2> HIDE DEF x
  <2>3. x \notin ledger
    BY <1>2, <2>1, NewEntry
  <2>4. Books(ledger \cup {x}, account.balance + x.amount, account.granted)
    BY <2>1, <2>3, BooksWith DEF LedgerTypeOK, BooksInv
  <2> QED BY <1>2, <2>1, <2>2, <2>4 DEF BooksInv
<1> QED BY <1>1, <1>2 DEF CreditRelease

LEMMA GrantBooks ==
    ASSUME LedgerTypeOK, BooksInv, NEW k \in GrantKeys, NEW n \in Nat, NEW r,
           CreditGrant(k, n, r)
    PROVE  BooksInv'
<1> DEFINE x == [type |-> "grant", ref |-> k, amount |-> n]
<1>1. CASE UNCHANGED ledgerVars
  BY <1>1, BooksKept
<1>2. CASE /\ ~Has("grant", k) /\ ledger' = ledger \cup {x}
           /\ account' = [account EXCEPT !.exists = TRUE, !.balance = @ + n,
                                         !.granted = @ + n]
  <2>1. x \in Entry /\ x.type = "grant" /\ x.ref = k /\ x.amount = n
    BY DEF Entry
  <2>2. account'.balance = account.balance + n /\ account'.granted = account.granted + n
    BY <1>2 DEF LedgerTypeOK, Account
  <2> HIDE DEF x
  <2>3. x \notin ledger
    BY <1>2, <2>1, NewEntry
  <2>4. Books(ledger \cup {x}, account.balance + x.amount, account.granted + x.amount)
    BY <2>1, <2>3, BooksWith DEF LedgerTypeOK, BooksInv
  <2> QED BY <1>2, <2>1, <2>2, <2>4 DEF BooksInv
<1> QED BY <1>1, <1>2 DEF CreditGrant

\* The ledger explains the balance after any interleaving of reservations,
\* commits, releases and grants, repeated and late ones included: no two
\* transactions enter the same amount twice or lose one.
THEOREM BooksBalance == Spec => []LedgerExplainsBalance
<1>1. Init => BooksInv
  <2> SUFFICES ASSUME Init PROVE BooksInv
    OBVIOUS
  <2>1. ledger = {} /\ account.balance = 0 /\ account.granted = 0
    BY DEF Init, LedgerInit, NoAccount
  <2>2. Grants({}) = {}
    BY DEF Grants
  <2>3. Total(Grants({})) = 0 /\ Total({}) = 0
    BY Zenon, <2>2, TotalEmpty
  <2> QED BY <2>1, <2>3, FS_EmptySet DEF BooksInv, Books
<1>2. TypeOK /\ MeteredInv /\ BooksInv /\ [Next]_vars => BooksInv'
  <2> SUFFICES ASSUME TypeOK, MeteredInv, BooksInv, [Next]_vars PROVE BooksInv'
    OBVIOUS
  <2>1. ASSUME NEW c \in Calls, Arrive(c) \/ Step(c) PROVE BooksInv'
    <3>1. UNCHANGED ledgerVars
      BY <2>1 DEF Arrive, Step, FindAccount, MissAccount, Granted, BillingUnavailable,
         InsufficientCredits, StartTool, ToolSucceeds, ToolFails, FailedAnswered,
         ToolRaises, RaisedAnswered, Committed, CommitFailed, Undone
    <3> QED BY <3>1, BooksKept
  <2>2. ASSUME NEW q \in net, Serve(q) PROVE BooksInv'
    <3>1. q.call \in Calls /\ q.call \in Holds /\ cost[q.call] \in Nat
      BY MeteredAssumption DEF TypeOK, Request
    <3>2. Has("hold", q.call) => Held(q.call) \in Nat
      BY <3>1, HeldKnown, CreditAssumption DEF MeteredInv, CallInv
    <3> QED BY <2>2, <3>1, <3>2, MeteredAssumption, ReserveBooks, CommitBooks,
               ReleaseBooks, GrantBooks DEF Serve, TypeOK
  <2>3. CASE OrderPaid
    BY <2>3, MeteredAssumption, GrantBooks DEF OrderPaid, TypeOK
  <2>4. CASE Crash \/ UNCHANGED vars
    BY <2>4, BooksKept DEF Crash, vars
  <2> QED BY <2>1, <2>2, <2>3, <2>4 DEF Next
<1>3. BooksInv => LedgerExplainsBalance
  BY DEF BooksInv, Books, Grants, Total, LedgerExplainsBalance
<1> QED BY <1>1, <1>2, <1>3, Inductive, PTL DEF Spec
============================================================================
