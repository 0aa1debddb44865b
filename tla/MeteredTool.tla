----------------------------- MODULE MeteredTool -----------------------------
(***************************************************************************)
(* Paid tool calls on the credits rail: reserve the most a call may cost,  *)
(* run the tool, then commit the actual cost or release the hold           *)
(* (run_metered_tool in billing/credits.py).                               *)
(*                                                                         *)
(* Every call of a SQL function is a request that the database serves at   *)
(* a moment of its own.  With Lossy, the caller may see an exception for   *)
(* a request that was served, is yet to be served, or never will be.       *)
(***************************************************************************)
EXTENDS CreditLedger

CONSTANTS
    Calls,          \* metered calls; a call's hold id is its own
    Grandfather,    \* GRANDFATHER_CREDITS, granted on first encounter
    TopUp,          \* credits of a paid order
    Lossy,          \* may requests or their replies be lost?
    MaxCrashes      \* bound on crashes of the server process

ASSUME MeteredAssumption ==
    /\ Calls = Holds
    /\ {"grandfather", "order"} = GrantKeys
    /\ Grandfather \in Nat \ {0} /\ TopUp \in Nat
    /\ Lossy \in BOOLEAN /\ MaxCrashes \in Nat

VARIABLES
    pc,         \* pc[c]: where call c stands
    net,        \* requests on their way to the database
    reply,      \* reply[c]: the reply call c can read, or "none"
    cost,       \* cost[c]: the cost to commit, clamped to MaxHold
    verdict,    \* verdict[c]: how call c was answered
    confirmed,  \* confirmed[c]: does its receipt show a balance?
    crashes     \* how many crashes happened

callVars == <<pc, cost, verdict, confirmed>>
vars == <<ledgerVars, callVars, net, reply, crashes>>

Phase == {"idle", "lookup", "granting", "reserving", "executing", "committing",
          "releasing", "raising", "undoing", "answered", "lost"}
Function == {"grant", "reserve", "commit", "release"}
Request == [fn : Function, call : Calls]
Verdict == {"none", "unavailable", "insufficient", "failed", "raised", "committed",
            "released", "unknown"}

TypeOK ==
    /\ LedgerTypeOK
    /\ pc \in [Calls -> Phase]
    /\ net \subseteq Request
    /\ reply \in [Calls -> {"none", "ok", "refused", "error"}]
    /\ cost \in [Calls -> Nat]
    /\ verdict \in [Calls -> Verdict]
    /\ confirmed \in [Calls -> BOOLEAN]
    /\ crashes \in Nat

Init ==
    /\ LedgerInit
    /\ pc = [c \in Calls |-> "idle"]
    /\ net = {}
    /\ reply = [c \in Calls |-> "none"]
    /\ cost = [c \in Calls |-> 0]
    /\ verdict = [c \in Calls |-> "none"]
    /\ confirmed = [c \in Calls |-> FALSE]
    /\ crashes = 0

----------------------------------------------------------------------------
(* Remote calls: supabase_client.rpc.                                      *)

Waiting == [grant |-> {"granting"}, reserve |-> {"reserving"},
            commit |-> {"committing"}, release |-> {"releasing", "raising", "undoing"}]

\* Call c sends a request and awaits the reply in the given phase.
Ask(c, fn, phase) ==
    /\ net' = net \cup {[fn |-> fn, call |-> c]}
    /\ reply' = [reply EXCEPT ![c] = "none"]
    /\ pc' = [pc EXCEPT ![c] = phase]

\* rpc() returns a body, or raises: for an error reply, or for no reply.
Returns(c) == reply[c] \in {"ok", "refused"}
Raises(c) == reply[c] = "error" \/ Lossy

\* The database serves request q; nobody reads the reply of an abandoned one.
Serve(q) ==
    \E r \in {"ok", "refused", "error"} :
        /\ \/ q.fn = "grant"   /\ CreditGrant("grandfather", Grandfather, r)
           \/ q.fn = "reserve" /\ CreditReserve(q.call, MaxHold, r)
           \/ q.fn = "commit"  /\ CreditCommit(q.call, cost[q.call], r)
           \/ q.fn = "release" /\ CreditRelease(q.call, r)
        /\ net' = net \ {q}
        /\ reply' = IF pc[q.call] \in Waiting[q.fn]
                      THEN [reply EXCEPT ![q.call] = r] ELSE reply
        /\ UNCHANGED <<callVars, crashes>>

\* Call c is over, with verdict v and a receipt that shows a balance or not.
Answer(c, v, known) ==
    /\ pc' = [pc EXCEPT ![c] = "answered"]
    /\ verdict' = [verdict EXCEPT ![c] = v]
    /\ confirmed' = [confirmed EXCEPT ![c] = known]
    /\ UNCHANGED <<net, reply>>

----------------------------------------------------------------------------
(* The call.                                                               *)

\* A funded, non-free key calls a paid tool.
Arrive(c) ==
    /\ pc[c] = "idle"
    /\ pc' = [pc EXCEPT ![c] = "lookup"]
    /\ UNCHANGED <<ledgerVars, net, reply, cost, verdict, confirmed, crashes>>

\* ensure_grandfather: get_balance finds the account,
FindAccount(c) ==
    /\ pc[c] = "lookup"
    /\ account.exists
    /\ Ask(c, "reserve", "reserving")
    /\ UNCHANGED <<ledgerVars, cost, verdict, confirmed, crashes>>

\* or finds none, or failed, which reads as none: ask for the grant.
MissAccount(c) ==
    /\ pc[c] = "lookup"
    /\ ~account.exists \/ Lossy
    /\ Ask(c, "grant", "granting")
    /\ UNCHANGED <<ledgerVars, cost, verdict, confirmed, crashes>>

\* Whatever came of the grant, the call goes on to its reservation.
Granted(c) ==
    /\ pc[c] = "granting"
    /\ Returns(c) \/ Raises(c)
    /\ Ask(c, "reserve", "reserving")
    /\ UNCHANGED <<ledgerVars, cost, verdict, confirmed, crashes>>

\* The reservation cannot be confirmed: fail closed, billing_unavailable.
BillingUnavailable(c) ==
    /\ pc[c] = "reserving" /\ Raises(c)
    /\ Answer(c, "unavailable", FALSE)
    /\ UNCHANGED <<ledgerVars, cost, crashes>>

InsufficientCredits(c) ==
    /\ pc[c] = "reserving" /\ reply[c] = "refused"
    /\ Answer(c, "insufficient", TRUE)
    /\ UNCHANGED <<ledgerVars, cost, crashes>>

StartToolUnchecked(c) ==
    /\ pc[c] = "reserving" /\ (Returns(c) \/ Raises(c))
    /\ pc' = [pc EXCEPT ![c] = "executing"]
    /\ UNCHANGED <<ledgerVars, net, reply, cost, verdict, confirmed, crashes>>
StartTool(c) ==
    /\ pc[c] = "reserving" /\ reply[c] = "ok"
    /\ pc' = [pc EXCEPT ![c] = "executing"]
    /\ UNCHANGED <<ledgerVars, net, reply, cost, verdict, confirmed, crashes>>

UnclampedCost(n) == n
\* Never commit more than was held.
ClampedCost(n) == IF n > MaxHold THEN MaxHold ELSE n

ToolSucceeds(c) ==
    /\ pc[c] = "executing"
    /\ \E n \in Costs : cost' = [cost EXCEPT ![c] = ClampedCost(n)]
    /\ Ask(c, "commit", "committing")
    /\ UNCHANGED <<ledgerVars, verdict, confirmed, crashes>>

\* The receipt of the tool is an error.
ToolFailsUnreleased(c) ==
    /\ pc[c] = "executing"
    /\ Answer(c, "failed", TRUE)
    /\ UNCHANGED <<ledgerVars, cost, crashes>>
ToolFails(c) ==
    /\ pc[c] = "executing"
    /\ Ask(c, "release", "releasing")
    /\ UNCHANGED <<ledgerVars, cost, verdict, confirmed, crashes>>

\* A failed call is answered whether or not its release went through; its
\* receipt says that nothing was charged, and shows a balance if it did.
FailedUnawaited(c) ==
    /\ pc[c] = "releasing"
    /\ Answer(c, "failed", TRUE)
    /\ UNCHANGED <<ledgerVars, cost, crashes>>
FailedAnswered(c) ==
    /\ pc[c] = "releasing"
    /\ \/ Returns(c) /\ Answer(c, "failed", reply[c] = "ok")
       \/ Raises(c)  /\ Answer(c, "failed", FALSE)
    /\ UNCHANGED <<ledgerVars, cost, crashes>>

\* The tool raised: there is no receipt,
ToolRaisesUnreleased(c) ==
    /\ pc[c] = "executing"
    /\ Answer(c, "raised", FALSE)
    /\ UNCHANGED <<ledgerVars, cost, crashes>>
ToolRaises(c) ==
    /\ pc[c] = "executing"
    /\ Ask(c, "release", "raising")
    /\ UNCHANGED <<ledgerVars, cost, verdict, confirmed, crashes>>

\* the exception goes on to the caller, and only the log tells of a release
\* that failed.
RaisedAnswered(c) ==
    /\ pc[c] = "raising"
    /\ Returns(c) \/ Raises(c)
    /\ Answer(c, "raised", FALSE)
    /\ UNCHANGED <<ledgerVars, cost, crashes>>

Committed(c) ==
    /\ pc[c] = "committing" /\ Returns(c)
    /\ Answer(c, "committed", reply[c] = "ok")
    /\ UNCHANGED <<ledgerVars, cost, crashes>>

CommitFailedUntimed(c) ==
    /\ pc[c] = "committing" /\ reply[c] = "error"
    /\ Ask(c, "release", "undoing")
    /\ UNCHANGED <<ledgerVars, cost, verdict, confirmed, crashes>>
\* The commit cannot be confirmed: release the hold instead.
CommitFailed(c) ==
    /\ pc[c] = "committing" /\ Raises(c)
    /\ Ask(c, "release", "undoing")
    /\ UNCHANGED <<ledgerVars, cost, verdict, confirmed, crashes>>

Undone(c) ==
    /\ pc[c] = "undoing"
    /\ \/ reply[c] = "ok" /\ Answer(c, "released", FALSE)
       \/ reply[c] = "refused" /\ Answer(c, "unknown", FALSE)
       \/ Raises(c) /\ Answer(c, "unknown", FALSE)
    /\ UNCHANGED <<ledgerVars, cost, crashes>>

----------------------------------------------------------------------------
\* The webhook grants a paid order; it is delivered again as often as it likes.
OrderPaid ==
    /\ CreditGrant("order", TopUp, "ok")
    /\ UNCHANGED <<callVars, net, reply, crashes>>

\* The process dies, with all its calls.  No one else settles their holds.
Crash ==
    /\ crashes < MaxCrashes
    /\ crashes' = crashes + 1
    /\ pc' = [c \in Calls |-> IF pc[c] \in {"idle", "answered"} THEN pc[c] ELSE "lost"]
    /\ UNCHANGED <<ledgerVars, net, reply, cost, verdict, confirmed>>

Step(c) ==
    \/ FindAccount(c) \/ MissAccount(c) \/ Granted(c) \/ BillingUnavailable(c)
    \/ InsufficientCredits(c) \/ StartTool(c) \/ ToolSucceeds(c) \/ ToolFails(c)
    \/ FailedAnswered(c) \/ ToolRaises(c) \/ RaisedAnswered(c) \/ Committed(c)
    \/ CommitFailed(c) \/ Undone(c)

Next ==
    \/ \E c \in Calls : Arrive(c) \/ Step(c)
    \/ \E q \in net : Serve(q)
    \/ OrderPaid
    \/ Crash

Spec == Init /\ [][Next]_vars

\* rpc() has a timeout and tools return, so a call under way goes on.  The
\* database owes nothing: a request may be lost for ever.
FairSpec == Spec /\ \A c \in Calls : WF_vars(Step(c))

----------------------------------------------------------------------------
(* Properties.                                                             *)

\* What the receipt of call c calls `charged`.
ReceiptCharge(c) == IF verdict[c] \in {"committed", "unknown"} THEN cost[c] ELSE 0

\* A receipt that shows a balance shows the true charge: requests may be
\* lost, served late or answered to nobody, but once the ledger confirmed a
\* call no request still under way alters what the call costs.
ReceiptMatchesLedger ==
    \A c \in Calls : confirmed[c] => Charge(c) = ReceiptCharge(c)

\* No call ever costs more than the ceiling quoted for it or gives back more
\* than it took; and one whose commit went through costs its price or, after
\* a release, nothing.
ChargeBounded ==
    \A c \in Calls :
        /\ Charge(c) \in 0..MaxHold
        /\ Has("commit", c) => Charge(c) \in {0, cost[c]}

\* No paid work on credit: a running tool's hold is in the ledger, unrefunded.
ToolRunsOnHeldCredits ==
    \A c \in Calls : pc[c] = "executing" => Charge(c) = MaxHold

\* "released" (commit failed, refund confirmed) and charged: 0 on a receipt
\* mean that the ledger kept nothing.
ReleasedMeansRefunded ==
    \A c \in Calls : verdict[c] = "released" => Charge(c) = 0

\* Once a call is answered, whatever of a hold neither a commit nor a refund
\* has settled is on its way back: the release was asked for, on the raise path
\* and on the commit path too.  The one exception is a reservation that could
\* not be confirmed, whose hold nobody ever asks to release.
NoHoldForgotten ==
    \A c \in Calls :
        pc[c] = "answered" /\ Has("hold", c) =>
            \/ Has("commit", c) \/ Has("refund", c)
            \/ [fn |-> "release", call |-> c] \in net
            \/ verdict[c] = "unavailable"

\* Every hold comes to that: it is committed or refunded, or its call is
\* answered with the release asked for, unless the process died or the
\* reservation could not be confirmed.  Those two, and a release that the
\* database never serves, leave the hold open: nothing else does.
HoldsSettle ==
    \A c \in Calls :
        Has("hold", c) ~>
            \/ Has("commit", c) \/ Has("refund", c)
            \/ pc[c] = "lost"
            \/ /\ pc[c] = "answered"
               /\ \/ [fn |-> "release", call |-> c] \in net
                  \/ verdict[c] = "unavailable"
============================================================================
