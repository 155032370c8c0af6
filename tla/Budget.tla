-------------------------------- MODULE Budget --------------------------------
(***************************************************************************)
(* What agents of one tenant may spend: the tracker of each agent          *)
(* (src/src/budget/tracker.rs), the budget they share, which the manager   *)
(* may replace while they run (budget/manager.rs), and the loop that asks  *)
(* before a request and records after it (agent/common.rs,                 *)
(* agent/request_pipeline.rs).  A stream may start while another run of    *)
(* its agent is under way (agent/streaming.rs), on the same tracker.       *)
(*                                                                         *)
(* A cost is a number of units.  What a request is recorded at comes from  *)
(* the usage that the provider reports, and may be more than its estimate  *)
(* (cached writes and reasoning tokens are not foreseen, a token may be    *)
(* less than four characters, a hook may choose another model).            *)
(***************************************************************************)
EXTENDS Integers, FiniteSets

CONSTANTS
    Agent,          \* agents of the tenant
    Run,            \* bound: runs of the loop under way at once, on any agents
    Budget,         \* bound: tenant budgets in use at once
    None,           \* no budget, no agent
    Limit,          \* max_cost_usd of every agent
    TenantLimit,    \* max_cost_usd of every tenant budget
    TenantPolicy,   \* what a tenant budget does when exceeded
    MaxCost,        \* bound: the estimate of one request
    MaxDrift,       \* bound: by how much a bill exceeds its estimate
    MaxInner        \* bound: the cost of what the tools of one round call

ASSUME BudgetAssumption ==
    /\ Limit \in Nat /\ TenantLimit \in Nat
    /\ MaxCost \in Nat /\ MaxDrift \in Nat /\ MaxInner \in Nat
    /\ TenantPolicy \in {"Stop", "Warn", "Fallback"}
    /\ None \notin Budget /\ None \notin Agent
    /\ IsFiniteSet(Run) /\ Run # {}

VARIABLES
    used,       \* what the tracker of each agent has recorded
    saved,      \* what the last checkpoint says of it, of whatever agent
    current,    \* the budget the manager hands out
    spent,      \* what each tenant budget has recorded
    holds,      \* the budget each agent was built with
    loop        \* where each run is, on which agent, the estimate of its request

vars == <<used, saved, current, spent, holds, loop>>

At(r, place) == loop[r].pc = place

Idle == [pc |-> "over", agent |-> None, cost |-> 0]

\* A run ends, with a result or an error.
End(r) == loop' = [loop EXCEPT ![r] = Idle]

Goto(r, place) ==
    loop' = [loop EXCEPT ![r] = [pc |-> place, agent |-> loop[r].agent, cost |-> 0]]

Init ==
    /\ used = [a \in Agent |-> 0]
    /\ saved = 0
    /\ current = None
    /\ spent = [b \in Budget |-> 0]
    /\ holds = [a \in Agent |-> None]
    /\ loop = [r \in Run |-> Idle]

-----------------------------------------------------------------------------
(* The manager *)

\* A new budget replaces the old one, which agents may still hold.
SetBudget(b) ==
    /\ b # current
    /\ \A a \in Agent : holds[a] # b
    /\ current' = b
    /\ spent' = [spent EXCEPT ![b] = 0]
    /\ UNCHANGED <<used, saved, holds, loop>>

RemoveBudget ==
    /\ current' = None
    /\ UNCHANGED <<used, saved, spent, holds, loop>>

-----------------------------------------------------------------------------
(* An agent is built, runs, and is built again *)

\* Built anew, or resumed with what the checkpoint says was spent.  An agent that
\* still runs when its session is resumed is another one.
Build(a) ==
    /\ \A r \in Run : loop[r].agent # a
    /\ \E before \in {0, saved} : used' = [used EXCEPT ![a] = before]
    /\ holds' = [holds EXCEPT ![a] = current]
    /\ UNCHANGED <<saved, current, spent, loop>>

\* The agent is asked, in a turn or for a stream.
Execute(r, a) ==
    /\ At(r, "over")
    /\ loop' = [loop EXCEPT ![r] = [pc |-> "check", agent |-> a, cost |-> 0]]
    /\ UNCHANGED <<used, saved, current, spent, holds>>

Checkpoint(a) ==
    /\ saved' = used[a]
    /\ UNCHANGED <<used, current, spent, holds, loop>>

-----------------------------------------------------------------------------
(* The loop *)

\* The agent has used up its own budget, whose policy is always Stop (from_parts
\* passes none on), or its tenant the shared one.
Exhausted(a) == used[a] >= Limit

TenantExhausted(a) ==
    holds[a] # None /\ TenantPolicy = "Stop" /\ spent[holds[a]] >= TenantLimit

MayNotGoOn(a) == Exhausted(a) \/ TenantExhausted(a)

Check(r) ==
    /\ At(r, "check")
    /\ IF MayNotGoOn(loop[r].agent) THEN End(r) ELSE Goto(r, "hooks")
    /\ UNCHANGED <<used, saved, current, spent, holds>>

\* Mutants: the preflight looks at what is spent, not at what will be; it does
\* not look at the tenant.
RefusesSpent(a, c) == used[a] > Limit

TenantNeverRefuses(a, c) == FALSE

\* Sending a request of this cost would exceed the limit.
Refuses(a, c) == used[a] + c > Limit

TenantRefuses(a, c) ==
    holds[a] # None /\ TenantPolicy = "Stop" /\ spent[holds[a]] + c > TenantLimit

\* The preflight, after the hooks, on the estimate of the request as they left it.
Preflight(r) ==
    LET a == loop[r].agent IN
    /\ At(r, "hooks")
    /\ \E c \in 0..MaxCost :
         IF Refuses(a, c) \/ TenantRefuses(a, c)
         THEN End(r)
         ELSE loop' = [loop EXCEPT ![r] = [pc |-> "sent", agent |-> a, cost |-> c]]
    /\ UNCHANGED <<used, saved, current, spent, holds>>

\* accumulate_response_usage: the tracker and the shared budget.
Record(a, cost) ==
    /\ used' = [used EXCEPT ![a] = @ + cost]
    /\ spent' = [b \in Budget |-> IF b = holds[a] THEN spent[b] + cost ELSE spent[b]]

\* The bill has nothing to do with the estimate but for the bound on the drift.
Answered(r) ==
    /\ At(r, "sent")
    /\ \E bill \in 0..(loop[r].cost + MaxDrift) : Record(loop[r].agent, bill)
    /\ Goto(r, "tools") \/ End(r)
    /\ UNCHANGED <<saved, current, holds>>

\* The request fails or its output is invalid, and the loop tries again: nothing
\* is recorded, whether it was billed or not.
Failed(r) ==
    /\ At(r, "sent")
    /\ Goto(r, "check")
    /\ UNCHANGED <<used, saved, current, spent, holds>>

\* The run fails, times out or is dropped by its caller; or a stream, which looks
\* at the budgets at every step, finds that others used up what they share.  A
\* request that was sent is not recorded.
Stopped(r) ==
    /\ ~At(r, "over")
    /\ End(r)
    /\ UNCHANGED <<used, saved, current, spent, holds>>

\* What tools called is recorded on the agent's own tracker.
Tools(r) ==
    /\ At(r, "tools")
    /\ \E inner \in 0..MaxInner : used' = [used EXCEPT ![loop[r].agent] = @ + inner]
    /\ Goto(r, "check")
    /\ UNCHANGED <<saved, current, spent, holds>>

-----------------------------------------------------------------------------
Next ==
    \/ RemoveBudget
    \/ \E b \in Budget : SetBudget(b)
    \/ \E a \in Agent : Build(a) \/ Checkpoint(a)
    \/ \E r \in Run :
         \/ \E a \in Agent : Execute(r, a)
         \/ Check(r) \/ Preflight(r) \/ Answered(r) \/ Failed(r) \/ Stopped(r) \/ Tools(r)

Spec == Init /\ [][Next]_vars

-----------------------------------------------------------------------------
(* Properties *)

\* Every variable keeps to its type; a run that is not over has an agent, and an
\* estimate belongs to a request.
TypeOK ==
    /\ used \in [Agent -> Nat]
    /\ saved \in Nat
    /\ current \in Budget \cup {None}
    /\ spent \in [Budget -> Nat]
    /\ holds \in [Agent -> Budget \cup {None}]
    /\ loop \in [Run -> [pc : {"over", "check", "hooks", "sent", "tools"},
                         agent : Agent \cup {None}, cost : 0..MaxCost]]
    /\ \A r \in Run :
         /\ At(r, "over") <=> loop[r].agent = None
         /\ At(r, "sent") \/ loop[r].cost = 0

\* The preflight keeps one large request from passing a limit in one step
\* (common.rs:160), but it reserves nothing and knows the estimate only.  So an
\* agent passes its limit by what the last bill and the tools of its round are
\* more than was foreseen, and by one whole round for each other run that may
\* have looked at the same reading; never by more, across checkpoints and
\* resumptions, and whatever runs come and go.
SessionBound ==
    \A a \in Agent :
        used[a] <= Limit + MaxDrift + MaxInner
                   + (Cardinality(Run) - 1) * (MaxCost + MaxDrift + MaxInner)

\* Likewise the budget of a tenant, by what the last bill exceeds its estimate
\* and by one whole request of each other run, on whatever agents they are.
TenantBound ==
    TenantPolicy = "Stop" =>
        \A b \in Budget :
            spent[b] <= TenantLimit + MaxDrift + (Cardinality(Run) - 1) * (MaxCost + MaxDrift)
=============================================================================
