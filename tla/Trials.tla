------------------------------- MODULE Trials -------------------------------
(***************************************************************************)
(* Trial access: trial_service.init_trial, which runs in the threads of    *)
(* the API (asyncio.to_thread) and keeps a trial for every visitor and a   *)
(* count of trials for every client address as Redis keys that expire.     *)
(*                                                                         *)
(* One action is one Redis command.  get_trial and is_trial_active only    *)
(* read.                                                                   *)
(***************************************************************************)
EXTENDS Naturals, FiniteSets

CONSTANTS
    Threads,        \* threads that serve POST /trial/init
    Visitors,       \* values of the header X-Visitor-ID
    Addresses,      \* client addresses
    None,           \* no visitor, no address
    Limit,          \* IP_MAX
    Window,         \* IP_WINDOW
    TrialTime,      \* TRIAL_TTL
    MaxTime,        \* bound: the clock
    MaxFaults       \* bound: Redis errors and lost replies

ASSUME ConstantsAssumption ==
    /\ IsFiniteSet(Threads) /\ IsFiniteSet(Visitors)
    /\ None \notin Visitors \cup Addresses
    /\ Limit \in Nat \ {0}
    /\ Window \in Nat \ {0}
    /\ TrialTime \in Nat /\ TrialTime >= Window     \* three days, one day
    /\ MaxTime \in Nat
    /\ MaxFaults \in Nat

VARIABLES
    clock,          \* the time
    trial,          \* trial[v]: the last trial of v, and when its key expires
    hits,           \* hits[a]: the count of a, and when its key expires
    thread,         \* thread[t]: where t is in init_trial
    uncounted,      \* visitors whose trial was made, but not known to be counted (history)
    faults          \* faults so far

vars == <<clock, trial, hits, thread, uncounted, faults>>

----------------------------------------------------------------------------
(* Types *)

Trial == [at : Nat,                             \* created_at
          until : Nat,                          \* the key's expiry, 0: never set
          ip : Addresses \cup {None}]

Count == [n : Nat, until : Nat]

ThreadState == [pc : {"idle", "count", "create", "reread", "charge"},
                visitor : Visitors \cup {None},
                ip : Addresses \cup {None},
                now : Nat]

Idle == [pc |-> "idle", visitor |-> None, ip |-> None, now |-> 0]

TypeOK ==
    /\ clock \in 0..MaxTime
    /\ trial \in [Visitors -> Trial]
    /\ hits \in [Addresses -> Count]
    /\ thread \in [Threads -> ThreadState]
    /\ \A t \in Threads : thread[t].pc # "idle" =>
            thread[t].visitor \in Visitors /\ thread[t].ip \in Addresses
    /\ uncounted \subseteq Visitors
    /\ faults \in 0..MaxFaults

Init ==
    /\ clock = 0
    /\ trial = [v \in Visitors |-> [at |-> 0, until |-> 0, ip |-> None]]
    /\ hits = [a \in Addresses |-> [n |-> 0, until |-> 0]]
    /\ thread = [t \in Threads |-> Idle]
    /\ uncounted = {}
    /\ faults = 0

----------------------------------------------------------------------------
(* Helpers.  An operator marked "slip" is no part of the model: it is a      *)
(* plausible mistake in the definition that follows it, and putting it in   *)
(* that definition's place must break a property.                           *)

\* A key is there until it expires.
HasTrial(v) == trial[v].until > clock
Hits(a) == IF hits[a].until > clock THEN hits[a].n ELSE 0

Goto(t, pc) == thread' = [thread EXCEPT ![t].pc = pc]
Return(t) == thread' = [thread EXCEPT ![t] = Idle]

Fault == faults < MaxFaults /\ faults' = faults + 1

\* SET trial:{visitor} NX EX, when the key is not there.
StoreTrial(t) ==
    /\ ~HasTrial(thread[t].visitor)
    /\ trial' = [trial EXCEPT ![thread[t].visitor] =
                    [at |-> thread[t].now, until |-> clock + TrialTime, ip |-> thread[t].ip]]

\* INCR trial_ip:{ip} and EXPIRE, one Redis transaction: the window begins again.
KeepsWindow(t) ==       \* slip
    hits' = [hits EXCEPT ![thread[t].ip] =
                [n |-> Hits(thread[t].ip) + 1,
                 until |-> IF Hits(thread[t].ip) > 0 THEN @.until ELSE clock + Window]]
CountHit(t) ==
    hits' = [hits EXCEPT ![thread[t].ip] =
                [n |-> Hits(thread[t].ip) + 1, until |-> clock + Window]]

----------------------------------------------------------------------------
(* init_trial *)

\* GET trial:{visitor}, for a request that names a visitor.  One who has a trial is
\* told of it, and nothing changes; the others go on.
LookupAnonymous(t) ==       \* slip
    /\ thread[t].pc = "idle"
    /\ \E a \in Addresses :
        thread' = [thread EXCEPT ![t] =
                    [pc |-> "count", visitor |-> None, ip |-> a, now |-> 0]]
    /\ UNCHANGED <<clock, trial, hits, uncounted, faults>>
Lookup(t) ==
    /\ thread[t].pc = "idle"
    /\ \E v \in Visitors, a \in Addresses :
        /\ ~HasTrial(v)
        /\ thread' = [thread EXCEPT ![t] =
                        [pc |-> "count", visitor |-> v, ip |-> a, now |-> 0]]
    /\ UNCHANGED <<clock, trial, hits, uncounted, faults>>

\* GET trial_ip:{ip}
Refuse(t) ==
    /\ thread[t].pc = "count"
    /\ Hits(thread[t].ip) >= Limit
    /\ Return(t)
    /\ UNCHANGED <<clock, trial, hits, uncounted, faults>>

Admit(t) ==
    /\ thread[t].pc = "count"
    /\ Hits(thread[t].ip) < Limit
    /\ thread' = [thread EXCEPT ![t].pc = "create", ![t].now = clock]
    /\ UNCHANGED <<clock, trial, hits, uncounted, faults>>

CreateAnyway(t) ==      \* slip
    /\ thread[t].pc = "create"
    /\ trial' = [trial EXCEPT ![thread[t].visitor] =
                    [at |-> thread[t].now, until |-> clock + TrialTime, ip |-> thread[t].ip]]
    /\ uncounted' = uncounted \ {thread[t].visitor}
    /\ Goto(t, "charge")
    /\ UNCHANGED <<clock, hits, faults>>
Create(t) ==
    /\ thread[t].pc = "create"
    /\ StoreTrial(t)
    /\ uncounted' = uncounted \ {thread[t].visitor}
    /\ Goto(t, "charge")
    /\ UNCHANGED <<clock, hits, faults>>

\* Another thread has created it since this one looked.
CreatedByOther(t) ==
    /\ thread[t].pc = "create"
    /\ HasTrial(thread[t].visitor)
    /\ Goto(t, "reread")
    /\ UNCHANGED <<clock, trial, hits, uncounted, faults>>

Reread(t) ==
    /\ thread[t].pc = "reread"
    /\ HasTrial(thread[t].visitor)
    /\ Return(t)
    /\ UNCHANGED <<clock, trial, hits, uncounted, faults>>

\* The trial has expired in between: it is counted all the same.
RereadNothing(t) ==
    /\ thread[t].pc = "reread"
    /\ ~HasTrial(thread[t].visitor)
    /\ Goto(t, "charge")
    /\ UNCHANGED <<clock, trial, hits, uncounted, faults>>

Charge(t) ==
    /\ thread[t].pc = "charge"
    /\ CountHit(t)
    /\ Return(t)
    /\ UNCHANGED <<clock, trial, uncounted, faults>>

\* A Redis error, or the process dies: the command was not executed.
Fail(t) ==
    /\ thread[t].pc # "idle"
    /\ Fault
    /\ uncounted' = IF thread[t].pc = "charge" THEN uncounted \cup {thread[t].visitor}
                    ELSE uncounted
    /\ Return(t)
    /\ UNCHANGED <<clock, trial, hits>>

\* The command was executed, and only its reply is lost: the request fails, or the
\* Redis client sends the command once more.
ReplyLost(t) ==
    /\ Fault
    /\ \/ /\ thread[t].pc = "create"
          /\ StoreTrial(t)
          /\ uncounted' = uncounted \cup {thread[t].visitor}
          /\ UNCHANGED hits
       \/ /\ thread[t].pc = "charge"
          /\ CountHit(t)
          /\ UNCHANGED <<trial, uncounted>>
    /\ \/ Return(t)
       \/ UNCHANGED thread
    /\ UNCHANGED clock

Tick ==
    /\ clock < MaxTime
    /\ clock' = clock + 1
    /\ UNCHANGED <<trial, hits, thread, uncounted, faults>>

----------------------------------------------------------------------------
Next ==
    \/ \E t \in Threads :
        \/ Lookup(t) \/ Refuse(t) \/ Admit(t) \/ Create(t) \/ CreatedByOther(t)
        \/ Reread(t) \/ RereadNothing(t) \/ Charge(t) \/ Fail(t) \/ ReplyLost(t)
    \/ Tick

Spec == Init /\ [][Next]_vars

----------------------------------------------------------------------------
(* Properties *)

\* The trials created from an address within the last window.  They all still
\* have their keys, since a trial lives longer than the window.
Recent(a) == {v \in Visitors : trial[v].ip = a /\ trial[v].at + Window > clock}

\* The limit is read first and counted last, yet it is passed by no more than
\* the threads at work at the same time, one of them being within the limit,
\* and one for every fault ("at most 5 trials of one IP within 24 h").
TrialsBounded ==
    \A a \in Addresses : Cardinality(Recent(a)) + 1 <= Limit + Cardinality(Threads) + faults

\* A visitor who has a trial keeps it as it is, however many requests are under
\* way for the same visitor ("returns the existing state, does not restart the
\* time", init_trial).
TrialNeverReset == [][\A v \in Visitors : HasTrial(v) => trial'[v] = trial[v]]_vars

\* An address is refused only when that many trials were created from it within
\* the window ("more than that within 24 h are refused").
RefusedOnlyWhenFull ==
    \A a \in Addresses : Hits(a) >= Limit => Cardinality(Recent(a)) >= Limit
=============================================================================
