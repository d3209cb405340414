--------------------------- MODULE HookGateProofs ---------------------------
(***************************************************************************)
(* The promises of the hook gate, for any number of calls, keys, actions,  *)
(* failed processes and repeated reports.                                  *)
(***************************************************************************)
EXTENDS HookGateProperties, TLAPS, WellFoundedInduction

Asking == {"find", "preflight", "resume", "remember", "answer"}

Reporting == {"correlate", "complete", "mark"}

\* Where a call stands and what its process does go together.
InStep(c, call, hook, reps) ==
    /\ call.stage = "asked" <=> hook.pc \in Asking
    /\ hook.pc \in Reporting => call.stage \in {"ran", "reported"}
    /\ hook.pc \in Reporting /\ call.stage = "reported" => c \in reps
    /\ c \in reps => call.stage = "reported"
    /\ call.stage # "new" => call.key \in Keys /\ call.id \in UseIds

AllInStep == \A c \in Calls : InStep(c, calls[c], hooks[c], repeats)

Opened(r) == r.status \in {"open", "succeeded", "asserted"}

\* The call has asked and has no authorization yet.
NotYet(call, hook) ==
    call.stage = "new" \/ hook.pc \in {"find", "preflight", "resume"}

\* An action is opened once, for one call, and a call opens at most one.
OpenedFor(r, cs, hs) ==
    IF Opened(r)
    THEN r.call \in Calls /\ ~NotYet(cs[r.call], hs[r.call]) /\ cs[r.call].key = r.key
    ELSE r.call = NULL

OpenedOnce ==
    /\ \A a \in 1..Len(actions) : OpenedFor(actions[a], calls, hooks)
    /\ \A a, b \in 1..Len(actions) :
         Opened(actions[a]) /\ Opened(actions[b]) /\ actions[a].call = actions[b].call
           => a = b

\* a was opened for c.
Owns(c, a, call, acts) ==
    /\ a \in 1..Len(acts) /\ Opened(acts[a])
    /\ acts[a].call = c /\ acts[a].key = call.key

Authorized(c, call, hook, acts) ==
    /\ hook.pc \in {"remember", "answer"} => Owns(c, hook.auth, call, acts)
    /\ call.stage \in {"allowed", "ran", "reported"} => Owns(c, call.auth, call, acts)
    /\ hook.pc = "resume" =>
         hook.auth \in 1..Len(acts) /\ acts[hook.auth].key = call.key
    /\ hook.pc = "remember" => acts[hook.auth].status # "succeeded"

AllAuthorized == \A c \in Calls : Authorized(c, calls[c], hooks[c], actions)

\* A name is bound to an authorization of a call of that name that is past
\* _remember_authorization.
Named(id, execution, acts, cs, hs) ==
    LET x == execution.auth IN
      /\ x \in 1..Len(acts) /\ Opened(acts[x])
      /\ acts[x].key = execution.key
      /\ cs[acts[x].call].id = id
      /\ hs[acts[x].call].pc # "remember"
      /\ execution.status = "completed" => acts[x].status = "succeeded"

AllNamed ==
    \A id \in UseIds : executions[id] # NULL =>
      Named(id, executions[id], actions, calls, hooks)

\* The call was told, or will be told, that a allows it.
IsFor(call, hook, a) ==
    \/ hook.pc = "answer" /\ a = hook.auth
    \/ call.stage \in {"allowed", "ran"} /\ a = call.auth

\* Until it is reported its name is bound to a, or a is sealed already.
BoundTo(a, call, acts, execution, repeated) ==
    /\ execution # NULL /\ execution.key = call.key
    /\ execution.auth = a \/ acts[a].status = "succeeded"
    /\ ~repeated => execution.auth = a /\ execution.status = "authorized"

RepeatedIn(id, cs, reps) == \E c \in reps : cs[c].id = id

Binds(call, hook, acts, execs, cs, reps) ==
    call.key \notin Delegated =>
      \A a \in 1..Len(acts) : IsFor(call, hook, a) =>
        BoundTo(a, call, acts, execs[call.id], RepeatedIn(call.id, cs, reps))

AllBound ==
    \A c \in Calls : Binds(calls[c], hooks[c], actions, executions, calls, repeats)

\* What a process that reports a tool has read.
Reports(call, hook, acts, execution) ==
    hook.pc \in {"complete", "mark"} =>
      /\ call.key \notin Delegated
      /\ hook.auth \in 1..Len(acts) /\ Opened(acts[hook.auth])
      /\ call.stage = "ran" =>
           hook.auth = call.auth \/ acts[call.auth].status = "succeeded"
      /\ hook.pc = "mark" => acts[hook.auth].status = "succeeded"
      /\ hook.pc = "mark" \/ acts[hook.auth].status = "open" =>
           /\ execution # NULL /\ execution.auth = hook.auth
           /\ execution.status = "authorized"

AllReports ==
    \A c \in Calls : Reports(calls[c], hooks[c], actions, executions[calls[c].id])

\* One process seals an authorization.
OneMarks ==
    \A c, d \in Calls :
      hooks[c].pc = "mark" /\ hooks[d].pc = "mark" /\ hooks[c].auth = hooks[d].auth
        => c = d

\* SealedForItsCall, part by part.
ReportSealed(call, acts) ==
    call.stage = "reported" /\ call.key \notin Delegated =>
      acts[call.auth].status = "succeeded"

AllSealed == \A c \in Calls : ReportSealed(calls[c], actions)

HasRun(r, cs, reps) ==
    r.status = "succeeded" =>
      \/ cs[r.call].stage \in {"ran", "reported"}
      \/ RepeatedIn(cs[r.call].id, cs, reps)

AllHaveRun == \A a \in 1..Len(actions) : HasRun(actions[a], calls, repeats)

IInv ==
    /\ TypeOK /\ AllInStep /\ OpenedOnce /\ AllAuthorized /\ AllNamed /\ AllBound
    /\ AllReports /\ OneMarks /\ AllSealed /\ AllHaveRun /\ StuckNameOnlyKnown

LEMMA InvImplies ==
    IInv => AllowedCanComplete /\ SealedForItsCall /\ StuckNameOnlyKnown
  <1> SUFFICES ASSUME IInv PROVE AllowedCanComplete /\ SealedForItsCall
    BY DEF IInv
  <1>1. AllowedCanComplete
    <2> SUFFICES ASSUME NEW c \in Calls, MayReport(c), calls[c].key \notin Delegated
                 PROVE  LET execution == executions[calls[c].id] IN
                          /\ actions[calls[c].auth].call = c
                          /\ ~Repeated(calls[c].id) =>
                               /\ execution # NULL
                               /\ execution.auth = calls[c].auth
                               /\ execution.key = calls[c].key
      BY DEF AllowedCanComplete
    <2>1. Owns(c, calls[c].auth, calls[c], actions)
      BY DEF IInv, AllAuthorized, Authorized, MayReport
    <2>2. BoundTo(calls[c].auth, calls[c], actions, executions[calls[c].id],
                  RepeatedIn(calls[c].id, calls, repeats))
      BY <2>1 DEF IInv, AllBound, Binds, IsFor, MayReport, Owns
    <2> QED
      BY <2>1, <2>2 DEF Owns, BoundTo, Repeated, RepeatedIn
  <1>2. SealedForItsCall
    BY DEF IInv, AllSealed, AllHaveRun, ReportSealed, HasRun, RepeatedIn, Repeated,
           SealedForItsCall
  <1> QED
    BY <1>1, <1>2

LEMMA InitInv == Init => IInv
  <1> SUFFICES ASSUME Init PROVE IInv
    OBVIOUS
  <1> USE HookAssumption DEF Init
  <1>1. TypeOK
    BY DEF TypeOK, Call, Stages, NoProcess, Process, Locations
  <1>2. AllInStep /\ AllAuthorized /\ AllBound /\ AllReports /\ OneMarks /\ AllSealed
    BY DEF AllInStep, InStep, Asking, Reporting, AllAuthorized, Authorized, AllBound,
           Binds, IsFor, AllReports, Reports, OneMarks, AllSealed, ReportSealed, NoProcess
  <1>3. OpenedOnce /\ AllHaveRun
    BY DEF OpenedOnce, AllHaveRun
  <1>4. AllNamed /\ StuckNameOnlyKnown
    BY DEF AllNamed, StuckNameOnlyKnown
  <1> QED
    BY <1>1, <1>2, <1>3, <1>4 DEF IInv
-----------------------------------------------------------------------------
(* Steps that open and seal nothing *)

Quiet ==
    /\ Len(actions') \in Nat /\ Len(actions) <= Len(actions')
    /\ \A a \in 1..Len(actions) :
         /\ actions'[a].key = actions[a].key /\ actions'[a].call = actions[a].call
         /\ Opened(actions'[a]) <=> Opened(actions[a])
         /\ Opened(actions[a]) => actions'[a].status = actions[a].status
    /\ \A a \in 1..Len(actions') :
         a \notin 1..Len(actions) => ~Opened(actions'[a]) /\ actions'[a].call = NULL

\* A call that has no authorization yet may do anything that opens none; one
\* that has keeps its name and its key.
Advances(c) ==
    /\ \/ NotYet(calls[c], hooks[c])
       \/ /\ calls'[c].key = calls[c].key /\ calls'[c].id = calls[c].id
          /\ ~NotYet(calls'[c], hooks'[c])
          /\ hooks'[c].pc # "remember"
    /\ calls[c].stage \in {"ran", "reported"} => calls'[c].stage \in {"ran", "reported"}
    /\ hooks'[c].pc # "mark"
    /\ hooks[c].pc = "mark" => hooks[c].auth \in unmarked'
    /\ InStep(c, calls'[c], hooks'[c], repeats')
    /\ Authorized(c, calls'[c], hooks'[c], actions')
    /\ Binds(calls'[c], hooks'[c], actions', executions', calls', repeats')
    /\ Reports(calls'[c], hooks'[c], actions', executions'[calls'[c].id])
    /\ ReportSealed(calls'[c], actions')

\* Only what the calls C do is visible to the other calls.
OthersKeep(C) ==
    /\ \A d \in Calls \ C : /\ calls'[d] = calls[d] /\ hooks'[d] = hooks[d]
                            /\ d \in repeats' <=> d \in repeats
    /\ repeats \subseteq repeats'

\* What is used of the type invariant.
LEMMA Types ==
    ASSUME IInv
    PROVE  /\ Len(actions) \in Nat /\ actions \in Seq(Action)
           /\ \A a \in 1..Len(actions) : actions[a] \in Action
           /\ \A c \in Calls : calls[c] \in Call /\ hooks[c] \in Process
           /\ \A id \in UseIds : executions[id] \in HookExecution \cup {NULL}
           /\ unmarked \subseteq 1..MaxActions /\ repeats \subseteq Calls
  BY HookAssumption DEF IInv, TypeOK

\* A call of which a report was repeated keeps its name.
LEMMA RepeatedKept ==
    ASSUME IInv, NEW C \in SUBSET Calls, OthersKeep(C),
           \A c \in C : Advances(c), NEW id,
           RepeatedIn(id, calls, repeats)
    PROVE  RepeatedIn(id, calls', repeats')
  <1>1. PICK d \in repeats : calls[d].id = id
    BY DEF RepeatedIn
  <1>2. d \in Calls /\ calls[d].stage = "reported"
    BY Types DEF IInv, AllInStep, InStep
  <1>3. calls'[d].id = id
    <2>1. CASE d \notin C
      BY <1>1, <1>2, <2>1 DEF OthersKeep
    <2>2. CASE d \in C
      <3>1. hooks[d].pc \notin {"find", "preflight", "resume"}
        BY <1>2, <2>2 DEF IInv, AllInStep, InStep, Asking
      <3> QED
        BY <1>1, <1>2, <2>2, <3>1 DEF Advances, NotYet
    <2> QED
      BY <2>1, <2>2
  <1> QED
    BY <1>1, <1>3 DEF RepeatedIn, OthersKeep

LEMMA QuietStep ==
    ASSUME IInv, TypeOK', NEW C \in SUBSET Calls, Quiet, UNCHANGED executions,
           OthersKeep(C), \A c \in C : Advances(c), unmarked \subseteq unmarked'
    PROVE  IInv'
  <1>1. \A a \in 1..Len(actions) :
          /\ a \in 1..Len(actions') /\ actions'[a].key = actions[a].key
          /\ actions'[a].call = actions[a].call
          /\ Opened(actions'[a]) <=> Opened(actions[a])
          /\ \A s \in {"open", "succeeded", "asserted"} :
               actions'[a].status = s <=> actions[a].status = s
    BY Types DEF Quiet, Opened
  <1>2. \A a \in 1..Len(actions') :
          a \in 1..Len(actions) \/ (~Opened(actions'[a]) /\ actions'[a].call = NULL)
    BY DEF Quiet
  <1>3. AllInStep'
    <2>1. \A d \in Calls \ C : InStep(d, calls'[d], hooks'[d], repeats')
      BY DEF IInv, AllInStep, InStep, OthersKeep
    <2> QED
      BY <2>1 DEF AllInStep, Advances
  <1>4. \A d \in Calls \ C : Authorized(d, calls[d], hooks[d], actions')
    BY <1>1, SMTT(40) DEF IInv, AllAuthorized, Authorized, Owns
  <1>5. AllAuthorized'
    BY <1>4 DEF AllAuthorized, Advances, OthersKeep
  <1>6. \A a \in 1..Len(actions) : Opened(actions[a]) =>
          LET d == actions[a].call IN
            /\ d \in Calls /\ ~NotYet(calls[d], hooks[d]) /\ calls[d].key = actions[a].key
            /\ ~NotYet(calls'[d], hooks'[d])
            /\ calls'[d].key = calls[d].key /\ calls'[d].id = calls[d].id
            /\ hooks'[d].pc # "remember" \/ hooks'[d] = hooks[d]
    <2> SUFFICES ASSUME NEW a \in 1..Len(actions), Opened(actions[a])
                 PROVE  LET d == actions[a].call IN
            /\ d \in Calls /\ ~NotYet(calls[d], hooks[d]) /\ calls[d].key = actions[a].key
            /\ ~NotYet(calls'[d], hooks'[d])
            /\ calls'[d].key = calls[d].key /\ calls'[d].id = calls[d].id
            /\ hooks'[d].pc # "remember" \/ hooks'[d] = hooks[d]
      OBVIOUS
    <2> DEFINE d == actions[a].call
    <2>1. d \in Calls /\ ~NotYet(calls[d], hooks[d]) /\ calls[d].key = actions[a].key
      BY DEF IInv, OpenedOnce, OpenedFor
    <2>2. CASE d \notin C
      BY <2>1, <2>2 DEF OthersKeep
    <2>3. CASE d \in C
      BY <2>1, <2>3 DEF Advances
    <2> QED
      BY <2>1, <2>2, <2>3
  <1>7. OpenedOnce'
    <2>1. \A a \in 1..Len(actions') : OpenedFor(actions'[a], calls', hooks')
      <3> SUFFICES ASSUME NEW a \in 1..Len(actions')
                   PROVE  OpenedFor(actions'[a], calls', hooks')
        OBVIOUS
      <3>1. CASE a \in 1..Len(actions) /\ Opened(actions[a])
        BY <1>1, <1>6, <3>1 DEF OpenedFor
      <3>2. CASE a \in 1..Len(actions) /\ ~Opened(actions[a])
        BY <1>1, <3>2 DEF IInv, OpenedOnce, OpenedFor
      <3>3. CASE a \notin 1..Len(actions)
        BY <1>2, <3>3 DEF OpenedFor
      <3> QED
        BY <3>1, <3>2, <3>3
    <2>2. \A a, b \in 1..Len(actions') :
            Opened(actions'[a]) /\ Opened(actions'[b]) /\ actions'[a].call = actions'[b].call
              => a = b
      BY <1>1, <1>2 DEF IInv, OpenedOnce
    <2> QED
      BY <2>1, <2>2 DEF OpenedOnce
  <1>8. AllNamed'
    <2> SUFFICES ASSUME NEW id \in UseIds, executions[id] # NULL
                 PROVE  Named(id, executions[id], actions', calls', hooks')
      BY DEF AllNamed
    <2>1. Named(id, executions[id], actions, calls, hooks)
      BY DEF IInv, AllNamed
    <2> QED
      BY <1>1, <1>6, <2>1, SMTT(40) DEF Named
  <1>9. \A d \in Calls \ C :
          Binds(calls[d], hooks[d], actions', executions, calls', repeats')
    <2> SUFFICES ASSUME NEW d \in Calls \ C, calls[d].key \notin Delegated,
                        NEW a \in 1..Len(actions'), IsFor(calls[d], hooks[d], a)
                 PROVE  BoundTo(a, calls[d], actions', executions[calls[d].id],
                                RepeatedIn(calls[d].id, calls', repeats'))
      BY DEF Binds
    <2>1. a \in 1..Len(actions)
      BY DEF IInv, AllAuthorized, Authorized, Owns, IsFor
    <2>2. BoundTo(a, calls[d], actions, executions[calls[d].id],
                  RepeatedIn(calls[d].id, calls, repeats))
      BY <2>1 DEF IInv, AllBound, Binds
    <2>3. RepeatedIn(calls[d].id, calls, repeats) => RepeatedIn(calls[d].id, calls', repeats')
      BY RepeatedKept
    <2> QED
      BY <1>1, <2>1, <2>2, <2>3 DEF BoundTo
  <1>10. AllBound'
    BY <1>9 DEF AllBound, Advances, OthersKeep
  <1>11. \A d \in Calls \ C :
           Reports(calls[d], hooks[d], actions', executions[calls[d].id])
    <2> SUFFICES ASSUME NEW d \in Calls \ C, hooks[d].pc \in {"complete", "mark"}
                 PROVE  Reports(calls[d], hooks[d], actions', executions[calls[d].id])
      BY DEF Reports
    <2>1. Reports(calls[d], hooks[d], actions, executions[calls[d].id])
      BY DEF IInv, AllReports
    <2>2. calls[d].stage = "ran" => calls[d].auth \in 1..Len(actions)
      BY DEF IInv, AllAuthorized, Authorized, Owns
    <2> QED
      BY <1>1, <2>1, <2>2 DEF Reports
  <1>12. AllReports'
    BY <1>11 DEF AllReports, Advances, OthersKeep
  <1>13. OneMarks'
    BY DEF IInv, OneMarks, Advances, OthersKeep
  <1>14. AllSealed'
    <2>1. ASSUME NEW d \in Calls \ C
          PROVE  ReportSealed(calls[d], actions')
      <3>1. calls[d].stage = "reported" => calls[d].auth \in 1..Len(actions)
        BY DEF IInv, AllAuthorized, Authorized, Owns
      <3> QED
        BY <1>1, <3>1 DEF IInv, AllSealed, ReportSealed
    <2> QED
      BY <2>1 DEF AllSealed, Advances, OthersKeep
  <1>15. AllHaveRun'
    <2> SUFFICES ASSUME NEW a \in 1..Len(actions'), actions'[a].status = "succeeded"
                 PROVE  LET d == actions'[a].call IN
                          \/ calls'[d].stage \in {"ran", "reported"}
                          \/ RepeatedIn(calls'[d].id, calls', repeats')
      BY DEF AllHaveRun, HasRun
    <2>1. /\ a \in 1..Len(actions) /\ actions[a].status = "succeeded"
          /\ actions'[a].call = actions[a].call
      BY <1>1, <1>2 DEF Opened
    <2> DEFINE d == actions[a].call
    <2>2. d \in Calls /\ calls'[d].id = calls[d].id
      BY <1>6, <2>1 DEF Opened
    <2>3. \/ calls[d].stage \in {"ran", "reported"}
          \/ RepeatedIn(calls[d].id, calls, repeats)
      BY <2>1 DEF IInv, AllHaveRun, HasRun
    <2>4. calls[d].stage \in {"ran", "reported"} => calls'[d].stage \in {"ran", "reported"}
      BY <2>2 DEF Advances, OthersKeep
    <2> QED
      BY <2>1, <2>2, <2>3, <2>4, RepeatedKept
  <1>16. StuckNameOnlyKnown'
    <2> SUFFICES ASSUME NEW id \in UseIds, executions[id] # NULL,
                        executions[id].status = "authorized",
                        executions[id].auth \notin unmarked'
                 PROVE  \/ actions'[executions[id].auth].status \in {"open", "asserted"}
                        \/ Marking(executions[id].auth)'
      BY DEF StuckNameOnlyKnown
    <2>1. executions[id].auth \in 1..Len(actions)
      BY DEF IInv, AllNamed, Named
    <2>2. \/ actions[executions[id].auth].status \in {"open", "asserted"}
          \/ Marking(executions[id].auth)
      BY Types DEF IInv, StuckNameOnlyKnown
    <2>3. ASSUME NEW d \in Calls, hooks[d].pc = "mark",
                 hooks[d].auth = executions[id].auth
          PROVE  hooks'[d] = hooks[d]
      BY <2>3 DEF Advances, OthersKeep
    <2> QED
      BY <1>1, <2>1, <2>2, <2>3 DEF Marking
  <1> QED
    BY <1>3, <1>5, <1>7, <1>8, <1>10, <1>12, <1>13, <1>14, <1>15, <1>16 DEF IInv

\* A step of one call that leaves the actions alone.
LEMMA CallMoves ==
    ASSUME IInv, NEW c \in Calls, NEW x \in Call, NEW h \in Process,
           calls' = [calls EXCEPT ![c] = x], hooks' = [hooks EXCEPT ![c] = h],
           UNCHANGED <<actions, executions, failures, unmarked>>,
           repeats \subseteq repeats', repeats' \subseteq repeats \cup {c},
           \/ NotYet(calls[c], hooks[c])
           \/ /\ x.key = calls[c].key /\ x.id = calls[c].id
              /\ ~NotYet(x, h) /\ h.pc # "remember",
           calls[c].stage \in {"ran", "reported"} => x.stage \in {"ran", "reported"},
           h.pc # "mark", hooks[c].pc # "mark",
           InStep(c, x, h, repeats'), Authorized(c, x, h, actions),
           Binds(x, h, actions, executions, calls', repeats'),
           Reports(x, h, actions, executions[x.id]), ReportSealed(x, actions)
    PROVE  IInv'
  <1>1. calls'[c] = x /\ hooks'[c] = h
    BY DEF IInv, TypeOK
  <1>2. TypeOK'
    BY DEF IInv, TypeOK
  <1>3. Quiet
    BY Types DEF Quiet
  <1>4. OthersKeep({c})
    BY DEF OthersKeep, IInv, TypeOK
  <1>5. Advances(c)
    BY <1>1 DEF Advances
  <1> QED
    BY <1>2, <1>3, <1>4, <1>5, QuietStep, Types

\* A step of the operator or of time that opens and seals nothing.
LEMMA StoreMoves ==
    ASSUME IInv, actions' \in Seq(Action), Len(actions') = Len(actions), Quiet,
           UNCHANGED <<calls, hooks, executions, failures, unmarked, repeats>>
    PROVE  IInv'
  <1>1. TypeOK'
    BY DEF IInv, TypeOK
  <1>2. OthersKeep({})
    BY DEF OthersKeep
  <1> QED
    BY <1>1, <1>2, QuietStep, Types

\* The process of an event ends: what was asked is denied, what ran stays as it is.
LEMMA Ends ==
    ASSUME IInv, NEW c \in Calls, actions' \in Seq(Action), Len(actions') <= MaxActions,
           Quiet, UNCHANGED <<executions, repeats>>,
           failures' \in 0..MaxFailures, unmarked \subseteq unmarked',
           unmarked' \subseteq 1..MaxActions,
           hooks[c].pc = "mark" => hooks[c].auth \in unmarked', End(c),
           \/ calls[c].stage = "asked" /\ SetStage(c, "denied")
           \/ calls[c].stage # "asked" /\ UNCHANGED calls
    PROVE  IInv'
  <1> DEFINE x == IF calls[c].stage = "asked" THEN [calls[c] EXCEPT !.stage = "denied"]
                  ELSE calls[c]
             h == [pc |-> "none", auth |-> 0]
  <1>1. calls[c] \in Call /\ hooks[c] \in Process
    BY Types
  <1>2. h \in Process /\ h.pc = "none"
    BY HookAssumption DEF Process, Locations
  <1>3. /\ x \in Call /\ x.key = calls[c].key /\ x.id = calls[c].id /\ x.auth = calls[c].auth
        /\ x.stage = IF calls[c].stage = "asked" THEN "denied" ELSE calls[c].stage
    BY <1>1 DEF Call, Stages
  <1>4. calls' = [calls EXCEPT ![c] = x] /\ hooks' = [hooks EXCEPT ![c] = h]
    BY DEF SetStage, End, GoTo, IInv, TypeOK
  <1>5. calls[c].stage # "asked" => calls' = calls
    BY DEF SetStage
  <1> HIDE DEF x, h
  <1>6. calls'[c] = x /\ hooks'[c] = h
    BY <1>4 DEF IInv, TypeOK
  <1>7. TypeOK'
    BY <1>2, <1>3, <1>4 DEF IInv, TypeOK
  <1>8. OthersKeep({c})
    BY <1>4 DEF OthersKeep, IInv, TypeOK
  <1>9. InStep(c, x, h, repeats)
    BY <1>2, <1>3 DEF InStep, Asking, Reporting, IInv, AllInStep
  <1>10. \A a \in 1..Len(actions) :
           /\ a \in 1..Len(actions') /\ actions'[a].key = actions[a].key
           /\ actions'[a].call = actions[a].call
           /\ Opened(actions'[a]) <=> Opened(actions[a])
           /\ actions'[a].status = "succeeded" <=> actions[a].status = "succeeded"
    BY Types DEF Quiet, Opened
  <1>11. x.stage \in {"allowed", "ran", "reported"} =>
           Owns(c, x.auth, x, actions) /\ x.stage = calls[c].stage /\ x = calls[c]
    <2>1. x.stage \in {"allowed", "ran", "reported"} => x.stage = calls[c].stage /\ x = calls[c]
      BY <1>3 DEF x
    <2> QED
      BY <2>1 DEF IInv, AllAuthorized, Authorized
  <1>12. Authorized(c, x, h, actions')
    BY <1>2, <1>10, <1>11 DEF Authorized, Owns
  <1>13. Binds(x, h, actions', executions, calls', repeats)
    <2> SUFFICES ASSUME x.key \notin Delegated, NEW a \in 1..Len(actions'), IsFor(x, h, a)
                 PROVE  BoundTo(a, x, actions', executions[x.id],
                                RepeatedIn(x.id, calls', repeats))
      BY DEF Binds
    <2>1. /\ x.stage \in {"allowed", "ran"} /\ a = x.auth /\ x = calls[c]
          /\ a \in 1..Len(actions) /\ calls' = calls
      BY <1>2, <1>5, <1>11 DEF IsFor, Owns
    <2>2. BoundTo(a, x, actions, executions[x.id], RepeatedIn(x.id, calls, repeats))
      BY <2>1 DEF IInv, AllBound, Binds, IsFor
    <2> QED
      BY <1>10, <2>1, <2>2 DEF BoundTo
  <1>14. Reports(x, h, actions', executions[x.id])
    BY <1>2 DEF Reports
  <1>15. ReportSealed(x, actions')
    BY <1>10, <1>11 DEF ReportSealed, Owns, IInv, AllSealed
  <1>16. Advances(c)
    <2>1. NotYet(calls[c], hooks[c]) \/ ~NotYet(x, h)
      BY <1>2, <1>3 DEF NotYet
    <2> QED
      BY <1>2, <1>3, <1>6, <1>9, <1>12, <1>13, <1>14, <1>15, <2>1 DEF Advances
  <1> QED
    BY <1>7, <1>8, <1>16, QuietStep, HookAssumption
-----------------------------------------------------------------------------
(* Actions *)

QuietMove(r, s) ==
    /\ s.key = r.key /\ s.call = r.call
    /\ Opened(s) <=> Opened(r)
    /\ Opened(r) => s.status = r.status

LEMMA QuietIf ==
    ASSUME IInv, Len(actions') = Len(actions),
           \A a \in 1..Len(actions) : QuietMove(actions[a], actions'[a])
    PROVE  Quiet
  BY Types DEF Quiet, QuietMove

LEMMA Unmoved == IInv /\ UNCHANGED actions => Quiet
  BY QuietIf DEF QuietMove

\* One action is replaced.
LEMMA Replaced ==
    ASSUME NEW acts \in Seq(Action), NEW a \in 1..Len(acts), NEW r \in Action
    PROVE  /\ [acts EXCEPT ![a] = r] \in Seq(Action)
           /\ Len([acts EXCEPT ![a] = r]) = Len(acts)
           /\ \A b \in 1..Len(acts) :
                [acts EXCEPT ![a] = r][b] = IF b = a THEN r ELSE acts[b]
  OBVIOUS

\* The expiry of what is due opens and seals nothing, and approves nothing.
LEMMA Expiry ==
    ASSUME IInv
    PROVE  /\ ExpireDue(actions) \in Seq(Action)
           /\ Len(ExpireDue(actions)) = Len(actions)
           /\ \A a \in 1..Len(actions) :
                /\ ExpireDue(actions)[a] \in Action
                /\ QuietMove(actions[a], ExpireDue(actions)[a])
  <1> DEFINE e(a) == IF actions[a].status \in {"pending", "approved"} /\ actions[a].due
                     THEN [actions[a] EXCEPT !.status = "expired"] ELSE actions[a]
  <1>1. ASSUME NEW a \in 1..Len(actions)
        PROVE  e(a) \in Action /\ QuietMove(actions[a], e(a))
    <2>1. actions[a] \in Action
      BY Types
    <2> QED
      BY <2>1 DEF Action, Statuses, QuietMove, Opened
  <1>2. ExpireDue(actions) = [a \in 1..Len(actions) |-> e(a)]
    BY DEF ExpireDue
  <1> HIDE DEF e
  <1> QED
    BY <1>1, <1>2, Types

\* What policy records at the end of the actions.
LEMMA Appended ==
    ASSUME IInv, NEW r \in Action, Len(actions) < MaxActions,
           actions' = Append(ExpireDue(actions), r)
    PROVE  /\ actions' \in Seq(Action) /\ Len(actions') = Len(actions) + 1
           /\ Len(actions') <= MaxActions
           /\ \A a \in 1..Len(actions) : QuietMove(actions[a], actions'[a])
           /\ actions'[Len(actions) + 1] = r
  <1> DEFINE E == ExpireDue(actions)
  <1>1. /\ E \in Seq(Action) /\ Len(E) = Len(actions) /\ Len(actions) \in Nat
        /\ \A a \in 1..Len(actions) : QuietMove(actions[a], E[a])
    BY Expiry, Types
  <1>2. actions' = Append(E, r)
    OBVIOUS
  <1> HIDE DEF E
  <1>3. /\ actions' \in Seq(Action) /\ Len(actions') = Len(actions) + 1
        /\ \A a \in 1..Len(actions) : actions'[a] = E[a]
        /\ actions'[Len(actions) + 1] = r
    BY <1>1, <1>2
  <1> QED
    BY <1>1, <1>3, HookAssumption
-----------------------------------------------------------------------------
(* Steps that deny, end, expire or decide *)

LEMMA Asked ==
    ASSUME IInv, NEW c \in Calls, hooks[c].pc \in Asking
    PROVE  calls[c].stage = "asked" /\ hooks[c].pc # "mark"
  BY DEF IInv, AllInStep, InStep, Asking

LEMMA PreflightHoldStep ==
    ASSUME IInv, NEW c \in Calls, PreflightHold(c)
    PROVE  IInv'
  <1> DEFINE r == NewAction(c, TRUE, "pending")
  <1>1. r \in Action /\ r.status = "pending" /\ r.call = NULL
    BY Types, HookAssumption DEF NewAction, PreflightHold, Action, Statuses
  <1>2. Len(actions) < MaxActions /\ actions' = Append(ExpireDue(actions), r)
    BY DEF PreflightHold
  <1> HIDE DEF r
  <1>3. /\ actions' \in Seq(Action) /\ Len(actions') = Len(actions) + 1
        /\ Len(actions') <= MaxActions
        /\ \A a \in 1..Len(actions) : QuietMove(actions[a], actions'[a])
        /\ actions'[Len(actions) + 1] = r
    BY <1>1, <1>2, Appended
  <1>4. Quiet
    BY <1>1, <1>3, Types DEF Quiet, QuietMove, Opened
  <1>5. calls[c].stage = "asked" /\ hooks[c].pc # "mark"
    BY Asked DEF PreflightHold, At, Asking
  <1>6. /\ SetStage(c, "denied") /\ End(c) /\ UNCHANGED <<executions, repeats>>
        /\ UNCHANGED <<failures, unmarked>> /\ failures \in 0..MaxFailures
        /\ unmarked \subseteq 1..MaxActions
    BY HookAssumption DEF PreflightHold, Deny, IInv, TypeOK
  <1> QED
    BY <1>3, <1>4, <1>5, <1>6, Ends

LEMMA ExpireAndDeny ==
    ASSUME IInv, NEW c \in Calls, PreflightBlock(c) \/ ResumeRefused(c)
    PROVE  IInv'
  <1>1. /\ actions' = ExpireDue(actions) /\ Deny(c) /\ hooks[c].pc \in Asking
        /\ UNCHANGED <<executions, failures, unmarked, repeats>>
    BY DEF PreflightBlock, ResumeRefused, At, Asking
  <1>2. /\ actions' \in Seq(Action) /\ Len(actions') = Len(actions)
        /\ Quiet
    BY <1>1, Expiry, QuietIf
  <1>3. calls[c].stage = "asked" /\ hooks[c].pc # "mark"
    BY <1>1, Asked
  <1> QED
    BY <1>1, <1>2, <1>3, Ends, Types DEF Deny, IInv, TypeOK

LEMMA ResumeBlockedStep ==
    ASSUME IInv, NEW c \in Calls, ResumeBlocked(c)
    PROVE  IInv'
  <1> DEFINE a == hooks[c].auth
             E == ExpireDue(actions)
             r == [E[a] EXCEPT !.status = "blocked"]
  <1>1. a \in 1..Len(actions)
    BY DEF ResumeBlocked, At, IInv, AllAuthorized, Authorized
  <1>2. /\ E \in Seq(Action) /\ Len(E) = Len(actions) /\ E[a].status = "approved"
        /\ E[a] \in Action /\ \A b \in 1..Len(actions) : QuietMove(actions[b], E[b])
    BY <1>1, Expiry DEF ResumeBlocked
  <1>3. actions' = [E EXCEPT ![a] = r]
    BY <1>1, <1>2 DEF ResumeBlocked
  <1> HIDE DEF E
  <1>4. r \in Action /\ QuietMove(actions[a], r)
    BY <1>1, <1>2 DEF Action, Statuses, QuietMove, Opened
  <1> HIDE DEF r, a
  <1>5. /\ actions' \in Seq(Action) /\ Len(actions') = Len(actions)
        /\ \A b \in 1..Len(actions) : QuietMove(actions[b], actions'[b])
    BY <1>1, <1>2, <1>3, <1>4, Replaced
  <1>6. calls[c].stage = "asked" /\ hooks[c].pc # "mark"
    BY Asked DEF ResumeBlocked, At, Asking
  <1>7. /\ SetStage(c, "denied") /\ End(c) /\ UNCHANGED <<executions, repeats>>
        /\ UNCHANGED <<failures, unmarked>> /\ failures \in 0..MaxFailures
        /\ unmarked \subseteq 1..MaxActions
        /\ Len(actions) <= MaxActions
    BY HookAssumption DEF ResumeBlocked, Deny, IInv, TypeOK
  <1>8. Quiet
    BY <1>5, QuietIf
  <1> QED
    BY <1>5, <1>6, <1>7, <1>8, Ends

\* Steps that end the process of a call and change nothing else.
LEMMA RefusedSteps ==
    ASSUME IInv, NEW c \in Calls, CompleteRefused(c) \/ RememberRefused(c) \/ Fail(c)
    PROVE  IInv'
  <1>1. /\ actions' \in Seq(Action) /\ Len(actions') <= MaxActions /\ Quiet
        /\ UNCHANGED <<executions, repeats>>
    BY Unmoved DEF CompleteRefused, RememberRefused, Fail, IInv, TypeOK
  <1>2. /\ failures' \in 0..MaxFailures /\ unmarked \subseteq unmarked'
        /\ unmarked' \subseteq 1..MaxActions
        /\ hooks[c].pc = "mark" => hooks[c].auth \in unmarked'
    <2>1. hooks[c].pc = "mark" => hooks[c].auth \in 1..MaxActions
      BY Types, HookAssumption DEF IInv, TypeOK, AllReports, Reports
    <2>2. failures \in 0..MaxFailures /\ unmarked \subseteq 1..MaxActions
      BY DEF IInv, TypeOK
    <2>3. CASE Fail(c)
      <3>1. failures' \in 0..MaxFailures
        BY <2>2, <2>3, HookAssumption DEF Fail
      <3>2. unmarked' = IF hooks[c].pc = "mark" THEN unmarked \cup {hooks[c].auth}
                        ELSE unmarked
        BY <2>3 DEF Fail, At
      <3> QED
        BY <2>1, <2>2, <3>1, <3>2
    <2>4. CASE CompleteRefused(c) \/ RememberRefused(c)
      <3>1. hooks[c].pc # "mark" /\ UNCHANGED <<failures, unmarked>>
        BY <2>4 DEF CompleteRefused, RememberRefused, At
      <3> QED
        BY <2>2, <3>1
    <2> QED
      BY <2>3, <2>4
  <1>3. /\ End(c)
        /\ \/ calls[c].stage = "asked" /\ SetStage(c, "denied")
           \/ calls[c].stage # "asked" /\ UNCHANGED calls
    BY DEF CompleteRefused, RememberRefused, Fail, Deny, At, IInv, AllInStep, InStep,
           Asking
  <1> QED
    BY <1>1, <1>2, <1>3, Ends

LEMMA DecideSteps ==
    ASSUME IInv, NEW a \in 1..Len(actions),
           TimePasses(a) \/ \E status \in {"approved", "rejected"} : Decide(a, status)
    PROVE  IInv'
  <1>1. PICK r \in Action : actions' = [actions EXCEPT ![a] = r] /\ QuietMove(actions[a], r)
    <2>1. actions[a] \in Action /\ actions \in Seq(Action)
      BY Types
    <2>2. CASE TimePasses(a)
      <3> DEFINE r == [actions[a] EXCEPT !.due = TRUE]
      <3>1. r \in Action /\ QuietMove(actions[a], r)
        BY <2>1 DEF Action, QuietMove, Opened
      <3>2. actions' = [actions EXCEPT ![a] = r]
        BY <2>1, <2>2 DEF TimePasses
      <3> QED
        BY <3>1, <3>2
    <2>3. ASSUME NEW status \in {"approved", "rejected"}, Decide(a, status)
          PROVE  \E r \in Action :
                   actions' = [actions EXCEPT ![a] = r] /\ QuietMove(actions[a], r)
      <3> DEFINE r == [actions[a] EXCEPT !.status = status]
      <3>1. r \in Action /\ QuietMove(actions[a], r)
        BY <2>1, <2>3 DEF Action, Statuses, QuietMove, Opened, Decide
      <3>2. actions' = [actions EXCEPT ![a] = r]
        BY <2>1, <2>3 DEF Decide
      <3> QED
        BY <3>1, <3>2
    <2> QED
      BY <2>2, <2>3
  <1>2. /\ actions' \in Seq(Action) /\ Len(actions') = Len(actions)
        /\ \A b \in 1..Len(actions) : QuietMove(actions[b], actions'[b])
    BY <1>1, Replaced, Types DEF QuietMove
  <1> QED
    BY <1>2, QuietIf, StoreMoves DEF TimePasses, Decide
-----------------------------------------------------------------------------
(* Steps of a call that leave the actions alone *)

LEMMA PreToolUseStep ==
    ASSUME IInv, NEW c \in Calls, NEW key \in Keys, NEW id \in UseIds,
           PreToolUse(c, key, id)
    PROVE  IInv'
  <1> DEFINE x == [stage |-> "asked", key |-> key, id |-> id, auth |-> 0]
             h == [pc |-> "find", auth |-> 0]
  <1>1. x \in Call /\ h \in Process
    BY HookAssumption DEF Call, Stages, Process, Locations
  <1>2. /\ calls' = [calls EXCEPT ![c] = x] /\ hooks' = [hooks EXCEPT ![c] = h]
        /\ UNCHANGED <<actions, executions, failures, unmarked, repeats>>
        /\ calls[c].stage = "new" /\ hooks[c].pc = "none"
    BY DEF PreToolUse, GoTo, At
  <1>3. x.stage = "asked" /\ x.key = key /\ x.id = id /\ h.pc = "find"
    OBVIOUS
  <1> HIDE DEF x, h
  <1>4. NotYet(calls[c], hooks[c])
    BY <1>2 DEF NotYet
  <1>5. InStep(c, x, h, repeats') /\ Authorized(c, x, h, actions)
    BY <1>2, <1>3 DEF InStep, Asking, Reporting, Authorized, IInv, AllInStep
  <1>6. /\ Binds(x, h, actions, executions, calls', repeats')
        /\ Reports(x, h, actions, executions[x.id]) /\ ReportSealed(x, actions)
    BY <1>3 DEF Binds, IsFor, Reports, ReportSealed
  <1> QED
    BY <1>1, <1>2, <1>3, <1>4, <1>5, <1>6, CallMoves

\* The newest of some positions is one of them.
LEMMA NewestIn ==
    ASSUME NEW n \in Nat, NEW S, S \subseteq 1..n, S # {}
    PROVE  (CHOOSE a \in S : \A b \in S : b <= a) \in S
  <1> DEFINE Ages == {age \in Nat : n - age \in S}
  <1>1. PICK i \in S : TRUE
    OBVIOUS
  <1>2. n - i \in Ages /\ Ages \subseteq Nat
    BY <1>1
  <1>3. PICK youngest \in Ages : \A age \in Ages : ~ (age < youngest)
    <2> HIDE DEF Ages
    <2>1. \E y \in Ages : \A age \in Ages : <<age, y>> \notin OpToRel(<, Nat)
      BY <1>2, NatLessThanWellFounded, WFMin
    <2> QED
      BY <1>2, <2>1 DEF OpToRel
  <1>4. ASSUME NEW j \in S PROVE j <= n - youngest
    <2>1. n - j \in Ages
      OBVIOUS
    <2> QED
      BY <1>3, <2>1
  <1> QED
    BY <1>3, <1>4

LEMMA FindLemma ==
    ASSUME IInv, NEW key, FindExecution(key) # 0
    PROVE  /\ FindExecution(key) \in 1..Len(actions)
           /\ actions[FindExecution(key)].key = key
  <1> DEFINE active == {a \in 1..Len(actions) : IsActive(a, key)}
             newest == CHOOSE a \in active : \A b \in active : b <= a
  <1>1. active # {} /\ FindExecution(key) = newest
    BY DEF FindExecution
  <1>2. active \subseteq 1..Len(actions) /\ \A a \in active : actions[a].key = key
    BY DEF IsActive
  <1>3. newest \in active
    <2> HIDE DEF active
    <2> QED
      BY <1>1, <1>2, NewestIn, Types
  <1> HIDE DEF active, newest
  <1> QED
    BY <1>1, <1>2, <1>3

\* A call that has asked looks at the approvals, and goes on.
LEMMA FindStep ==
    ASSUME IInv, NEW c \in Calls, Find(c)
    PROVE  IInv'
  <1> DEFINE found == FindExecution(calls[c].key)
  <1>1. /\ hooks[c].pc = "find" /\ UNCHANGED <<actions, executions, failures, unmarked, repeats>>
        /\ hooks[c] \in Process /\ calls[c] \in Call
    BY Types DEF Find, At
  <1>2. calls[c].stage = "asked" /\ hooks[c].pc # "mark"
    BY <1>1, Asked DEF Asking
  <1>3. CASE found # 0 /\ actions[found].status # "approved"
    <2>1. SetStage(c, "denied") /\ End(c)
      BY <1>3 DEF Find, Deny
    <2>2. /\ actions' \in Seq(Action) /\ Len(actions') <= MaxActions
          /\ UNCHANGED <<failures, unmarked>> /\ failures \in 0..MaxFailures
          /\ unmarked \subseteq 1..MaxActions
      BY <1>1, HookAssumption DEF IInv, TypeOK
    <2> QED
      BY <1>1, <1>2, <2>1, <2>2, Unmoved, Ends
  <1>4. ASSUME NEW h \in Process, hooks' = [hooks EXCEPT ![c] = h], UNCHANGED calls,
               \/ h.pc = "preflight"
               \/ /\ h.pc = "resume" /\ h.auth \in 1..Len(actions)
                  /\ actions[h.auth].key = calls[c].key
        PROVE  IInv'
    <2>1. calls' = [calls EXCEPT ![c] = calls[c]]
      BY <1>4 DEF IInv, TypeOK
    <2>2. NotYet(calls[c], hooks[c])
      BY <1>1 DEF NotYet
    <2>3. InStep(c, calls[c], h, repeats')
      BY <1>1, <1>2, <1>4 DEF InStep, Asking, Reporting, IInv, AllInStep
    <2>4. Authorized(c, calls[c], h, actions)
      BY <1>2, <1>4 DEF Authorized
    <2>5. /\ Binds(calls[c], h, actions, executions, calls', repeats')
          /\ Reports(calls[c], h, actions, executions[calls[c].id])
          /\ ReportSealed(calls[c], actions)
      BY <1>2, <1>4 DEF Binds, IsFor, Reports, ReportSealed
    <2> QED
      BY <1>1, <1>2, <1>4, <2>1, <2>2, <2>3, <2>4, <2>5, CallMoves
  <1>5. CASE found = 0
    <2> DEFINE h == [pc |-> "preflight", auth |-> 0]
    <2>1. h \in Process /\ h.pc = "preflight"
      BY HookAssumption DEF Process, Locations
    <2>2. hooks' = [hooks EXCEPT ![c] = h] /\ UNCHANGED calls
      BY <1>5 DEF Find, GoTo
    <2> QED
      BY <1>4, <2>1, <2>2
  <1>6. CASE found # 0 /\ actions[found].status = "approved"
    <2> DEFINE h == [pc |-> "resume", auth |-> found]
    <2>1. found \in 1..Len(actions) /\ actions[found].key = calls[c].key
      BY <1>6, FindLemma
    <2>2. hooks' = [hooks EXCEPT ![c] = h] /\ UNCHANGED calls
      BY <1>6 DEF Find, GoTo
    <2> HIDE DEF found
    <2>3. found \in 0..MaxActions
      BY <2>1, Types, HookAssumption DEF IInv, TypeOK
    <2>4. h \in Process /\ h.pc = "resume" /\ h.auth = found
      BY <2>3 DEF Process, Locations
    <2> QED
      BY <1>4, <2>1, <2>2, <2>4
  <1> QED
    BY <1>3, <1>5, <1>6

\* The runtime is told, and runs the tool.
LEMMA AnswerStep ==
    ASSUME IInv, NEW c \in Calls, Answer(c)
    PROVE  IInv'
  <1> DEFINE x == [calls[c] EXCEPT !.stage = "allowed", !.auth = hooks[c].auth]
             h == [pc |-> "none", auth |-> 0]
  <1>1. calls[c] \in Call /\ hooks[c] \in Process /\ hooks[c].pc = "answer"
    BY Types DEF Answer, At
  <1>2. h \in Process /\ h.pc = "none"
    BY HookAssumption DEF Process, Locations
  <1>3. /\ x \in Call /\ x.stage = "allowed" /\ x.auth = hooks[c].auth
        /\ x.key = calls[c].key /\ x.id = calls[c].id
    BY <1>1 DEF Call, Stages, Process
  <1>4. /\ calls' = [calls EXCEPT ![c] = x] /\ hooks' = [hooks EXCEPT ![c] = h]
        /\ UNCHANGED <<actions, executions, failures, unmarked, repeats>>
    BY DEF Answer, End, GoTo, IInv, TypeOK
  <1> HIDE DEF x, h
  <1>5. calls[c].stage = "asked"
    BY <1>1, Asked DEF Asking
  <1>6. ~NotYet(x, h)
    BY <1>2, <1>3 DEF NotYet
  <1>7. InStep(c, x, h, repeats')
    BY <1>2, <1>3, <1>4, <1>5 DEF InStep, Asking, Reporting, IInv, AllInStep
  <1>8. Owns(c, hooks[c].auth, calls[c], actions)
    BY <1>1 DEF IInv, AllAuthorized, Authorized
  <1>9. Authorized(c, x, h, actions)
    BY <1>2, <1>3, <1>8 DEF Authorized, Owns
  <1>10. \A id : RepeatedIn(id, calls, repeats) => RepeatedIn(id, calls', repeats')
    BY <1>3, <1>4, Types DEF RepeatedIn, IInv, TypeOK
  <1>11. Binds(x, h, actions, executions, calls', repeats')
    <2> SUFFICES ASSUME x.key \notin Delegated, NEW a \in 1..Len(actions), IsFor(x, h, a)
                 PROVE  BoundTo(a, x, actions, executions[x.id],
                                RepeatedIn(x.id, calls', repeats'))
      BY DEF Binds
    <2>1. BoundTo(a, calls[c], actions, executions[calls[c].id],
                  RepeatedIn(calls[c].id, calls, repeats))
      BY <1>1, <1>2, <1>3 DEF IInv, AllBound, Binds, IsFor
    <2> QED
      BY <1>3, <1>10, <2>1 DEF BoundTo
  <1>12. Reports(x, h, actions, executions[x.id]) /\ ReportSealed(x, actions)
    BY <1>2, <1>3 DEF Reports, ReportSealed
  <1> QED
    BY <1>1, <1>2, <1>3, <1>4, <1>5, <1>6, <1>7, <1>9, <1>11, <1>12, CallMoves

LEMMA RunStep ==
    ASSUME IInv, NEW c \in Calls, Run(c)
    PROVE  IInv'
  <1> DEFINE x == [calls[c] EXCEPT !.stage = "ran"]
             h == hooks[c]
  <1>1. calls[c] \in Call /\ h \in Process /\ calls[c].stage = "allowed"
    BY Types DEF Run
  <1>2. h.pc \notin Asking \cup Reporting
    BY <1>1 DEF IInv, AllInStep, InStep
  <1>3. /\ x \in Call /\ x.stage = "ran" /\ x.auth = calls[c].auth
        /\ x.key = calls[c].key /\ x.id = calls[c].id
    BY <1>1 DEF Call, Stages
  <1>4. /\ calls' = [calls EXCEPT ![c] = x] /\ hooks' = [hooks EXCEPT ![c] = h]
        /\ UNCHANGED <<actions, executions, failures, unmarked, repeats>>
    BY DEF Run, SetStage, IInv, TypeOK
  <1> HIDE DEF x
  <1>6. ~NotYet(x, h) /\ h.pc \notin {"remember", "answer", "resume", "complete", "mark"}
    BY <1>2, <1>3 DEF NotYet, Asking, Reporting
  <1>7. InStep(c, x, h, repeats')
    BY <1>1, <1>2, <1>3, <1>4 DEF InStep, IInv, AllInStep
  <1>9. Authorized(c, x, h, actions)
    BY <1>1, <1>3, <1>6 DEF Authorized, Owns, IInv, AllAuthorized
  <1>10. \A id : RepeatedIn(id, calls, repeats) => RepeatedIn(id, calls', repeats')
    BY <1>3, <1>4, Types DEF RepeatedIn, IInv, TypeOK
  <1>11. Binds(x, h, actions, executions, calls', repeats')
    <2> SUFFICES ASSUME x.key \notin Delegated, NEW a \in 1..Len(actions), IsFor(x, h, a)
                 PROVE  BoundTo(a, x, actions, executions[x.id],
                                RepeatedIn(x.id, calls', repeats'))
      BY DEF Binds
    <2>1. BoundTo(a, calls[c], actions, executions[calls[c].id],
                  RepeatedIn(calls[c].id, calls, repeats))
      BY <1>1, <1>3, <1>6 DEF IInv, AllBound, Binds, IsFor
    <2> QED
      BY <1>3, <1>10, <2>1 DEF BoundTo
  <1>12. Reports(x, h, actions, executions[x.id]) /\ ReportSealed(x, actions)
    BY <1>3, <1>6 DEF Reports, ReportSealed
  <1> QED
    BY <1>1, <1>3, <1>4, <1>6, <1>7, <1>9, <1>11, <1>12, CallMoves

\* The runtime reports, perhaps again.
LEMMA PostToolUseStep ==
    ASSUME IInv, NEW c \in Calls, PostToolUse(c)
    PROVE  IInv'
  <1> DEFINE x == calls[c]
             h == [pc |-> "correlate", auth |-> 0]
  <1>1. x \in Call /\ x.stage \in {"ran", "reported"} /\ hooks[c].pc = "none"
    BY Types DEF PostToolUse, At
  <1>2. h \in Process /\ h.pc = "correlate"
    BY HookAssumption DEF Process, Locations
  <1>3. /\ calls' = [calls EXCEPT ![c] = x] /\ hooks' = [hooks EXCEPT ![c] = h]
        /\ UNCHANGED <<calls, actions, executions, failures, unmarked>>
    BY DEF PostToolUse, GoTo, IInv, TypeOK
  <1>4. /\ repeats \subseteq repeats' /\ repeats' \subseteq repeats \cup {c}
        /\ c \in repeats' <=> c \in repeats \/ x.stage = "reported"
    BY <1>1 DEF PostToolUse, IInv, AllInStep, InStep
  <1> HIDE DEF h
  <1>6. ~NotYet(x, h)
    BY <1>1, <1>2 DEF NotYet
  <1>7. InStep(c, x, h, repeats')
    BY <1>1, <1>2, <1>4 DEF InStep, Asking, Reporting, IInv, AllInStep
  <1>9. Authorized(c, x, h, actions)
    BY <1>1, <1>2 DEF Authorized, IInv, AllAuthorized
  <1>10. \A id : RepeatedIn(id, calls, repeats) => RepeatedIn(id, calls', repeats')
    BY <1>3, <1>4 DEF RepeatedIn
  <1>11. Binds(x, h, actions, executions, calls', repeats')
    <2> SUFFICES ASSUME x.key \notin Delegated, NEW a \in 1..Len(actions), IsFor(x, h, a)
                 PROVE  BoundTo(a, x, actions, executions[x.id],
                                RepeatedIn(x.id, calls', repeats'))
      BY DEF Binds
    <2>1. BoundTo(a, x, actions, executions[x.id], RepeatedIn(x.id, calls, repeats))
      BY <1>1, <1>2 DEF IInv, AllBound, Binds, IsFor
    <2> QED
      BY <1>10, <2>1 DEF BoundTo
  <1>12. Reports(x, h, actions, executions[x.id]) /\ ReportSealed(x, actions)
    BY <1>2 DEF Reports, IInv, AllSealed
  <1> QED
    BY <1>1, <1>2, <1>3, <1>4, <1>6, <1>7, <1>9, <1>11, <1>12, CallMoves

\* Call c reported; nothing is left for its process to do.
LEMMA Reported ==
    ASSUME IInv, NEW c \in Calls, hooks[c].pc = "correlate",
           UNCHANGED <<actions, executions, failures, unmarked, repeats>>,
           SetStage(c, "reported"), End(c),
           \/ calls[c].key \in Delegated
           \/ actions[calls[c].auth].status = "succeeded"
    PROVE  IInv'
  <1> DEFINE x == [calls[c] EXCEPT !.stage = "reported"]
             h == [pc |-> "none", auth |-> 0]
  <1>1. calls[c] \in Call /\ calls[c].stage \in {"ran", "reported"}
    BY Types DEF IInv, AllInStep, InStep, Reporting
  <1>2. h \in Process /\ h.pc = "none"
    BY HookAssumption DEF Process, Locations
  <1>3. /\ x \in Call /\ x.stage = "reported" /\ x.auth = calls[c].auth
        /\ x.key = calls[c].key /\ x.id = calls[c].id
    BY <1>1 DEF Call, Stages
  <1>4. calls' = [calls EXCEPT ![c] = x] /\ hooks' = [hooks EXCEPT ![c] = h]
    BY DEF SetStage, End, GoTo, IInv, TypeOK
  <1> HIDE DEF x, h
  <1>5. ~NotYet(x, h)
    BY <1>2, <1>3 DEF NotYet
  <1>6. InStep(c, x, h, repeats')
    BY <1>1, <1>2, <1>3 DEF InStep, Asking, Reporting, IInv, AllInStep
  <1>7. Authorized(c, x, h, actions)
    BY <1>1, <1>2, <1>3 DEF Authorized, Owns, IInv, AllAuthorized
  <1>8. /\ Binds(x, h, actions, executions, calls', repeats')
        /\ Reports(x, h, actions, executions[x.id]) /\ ReportSealed(x, actions)
    BY <1>2, <1>3 DEF Binds, IsFor, Reports, ReportSealed
  <1> QED
    BY <1>2, <1>3, <1>4, <1>5, <1>6, <1>7, <1>8, CallMoves

\* What a call that ran finds under its name is its own, or it is sealed already.
LEMMA FoundByName ==
    ASSUME IInv, NEW c \in Calls, calls[c].key \notin Delegated, calls[c].stage = "ran"
    PROVE  /\ calls[c].auth \in 1..Len(actions) /\ actions[calls[c].auth].call = c
           /\ BoundTo(calls[c].auth, calls[c], actions, executions[calls[c].id],
                      RepeatedIn(calls[c].id, calls, repeats))
  <1>1. Owns(c, calls[c].auth, calls[c], actions)
    BY DEF IInv, AllAuthorized, Authorized
  <1> QED
    BY <1>1 DEF IInv, AllBound, Binds, IsFor, Owns

LEMMA CorrelateStep ==
    ASSUME IInv, NEW c \in Calls, Correlate(c)
    PROVE  IInv'
  <1> DEFINE execution == executions[calls[c].id]
  <1>1. /\ hooks[c].pc = "correlate" /\ UNCHANGED <<actions, executions, failures, unmarked, repeats>>
        /\ calls[c] \in Call /\ hooks[c] \in Process
    BY Types DEF Correlate, At
  <1>2. calls[c].stage \in {"ran", "reported"} /\ calls[c].id \in UseIds
    BY <1>1 DEF IInv, AllInStep, InStep, Reporting
  <1>3. CASE calls[c].key \in Delegated
    BY <1>1, <1>3, Reported DEF Correlate
  <1>4. CASE calls[c].key \notin Delegated /\ ~Correlated(c)
    <2>1. End(c) /\ UNCHANGED calls
      BY <1>4 DEF Correlate
    <2>2. /\ actions' \in Seq(Action) /\ Len(actions') <= MaxActions
          /\ failures' \in 0..MaxFailures /\ unmarked \subseteq unmarked'
          /\ unmarked' \subseteq 1..MaxActions
      BY <1>1, HookAssumption DEF IInv, TypeOK
    <2> QED
      BY <1>1, <1>2, <2>1, <2>2, Unmoved, Ends
  <1>5. CASE calls[c].key \notin Delegated /\ Correlated(c)
             /\ execution.status = "completed"
    <2>1. SetStage(c, "reported") /\ End(c)
      BY <1>5 DEF Correlate
    <2>2. execution # NULL
      BY <1>5 DEF Correlated
    <2>3. actions[execution.auth].status = "succeeded"
      BY <1>2, <1>5, <2>2 DEF IInv, AllNamed, Named
    <2>4. actions[calls[c].auth].status = "succeeded"
      <3>1. CASE calls[c].stage = "ran"
        BY <1>5, <2>3, <3>1, FoundByName DEF BoundTo
      <3>2. CASE calls[c].stage = "reported"
        BY <1>5, <3>2 DEF IInv, AllSealed, ReportSealed
      <3> QED
        BY <1>2, <3>1, <3>2
    <2> QED
      BY <1>1, <2>1, <2>4, Reported
  <1>6. CASE calls[c].key \notin Delegated /\ Correlated(c)
             /\ execution.status # "completed"
    <2> DEFINE x == calls[c]
               h == [pc |-> "complete", auth |-> execution.auth]
    <2>1. execution # NULL /\ execution \in HookExecution
      BY <1>2, <1>6, Types DEF Correlated
    <2>2. hooks' = [hooks EXCEPT ![c] = h] /\ UNCHANGED calls
      BY <1>6 DEF Correlate, GoTo
    <2>3. /\ execution.auth \in 1..Len(actions) /\ Opened(actions[execution.auth])
          /\ execution.status = "authorized"
      BY <1>2, <1>6, <2>1 DEF IInv, AllNamed, Named, HookExecution
    <2>4. h \in Process /\ h.pc = "complete" /\ h.auth = execution.auth
      BY <2>1, HookAssumption DEF HookExecution, Process, Locations
    <2> HIDE DEF h
    <2>5. calls' = [calls EXCEPT ![c] = x]
      BY <2>2 DEF IInv, TypeOK
    <2>6. ~NotYet(x, h)
      BY <1>2, <2>4 DEF NotYet
    <2>7. InStep(c, x, h, repeats')
      BY <1>1, <1>2, <2>4 DEF InStep, Asking, Reporting, IInv, AllInStep
    <2>8. Authorized(c, x, h, actions)
      BY <1>1, <2>4 DEF Authorized, IInv, AllAuthorized
    <2>9. Binds(x, h, actions, executions, calls', repeats')
      <3> SUFFICES ASSUME x.key \notin Delegated, NEW a \in 1..Len(actions), IsFor(x, h, a)
                   PROVE  BoundTo(a, x, actions, executions[x.id],
                                  RepeatedIn(x.id, calls', repeats'))
        BY DEF Binds
      <3>1. a = x.auth /\ x.stage = "ran"
        BY <1>2, <2>4 DEF IsFor
      <3> QED
        BY <1>1, <2>2, <3>1, FoundByName
    <2>10. Reports(x, h, actions, executions[x.id])
      <3>1. x.stage = "ran" =>
              execution.auth = x.auth \/ actions[x.auth].status = "succeeded"
        BY <1>6, FoundByName DEF BoundTo
      <3> QED
        BY <1>6, <2>1, <2>3, <2>4, <3>1 DEF Reports
    <2>11. ReportSealed(x, actions)
      BY DEF IInv, AllSealed
    <2> QED
      BY <1>1, <1>2, <2>2, <2>4, <2>5, <2>6, <2>7, <2>8, <2>9, <2>10, <2>11, CallMoves
  <1> QED
    BY <1>3, <1>4, <1>5, <1>6
-----------------------------------------------------------------------------
(* A name is bound to an authorization *)

LEMMA RememberStep ==
    ASSUME IInv, NEW c \in Calls, Remember(c)
    PROVE  IInv'
  <1> DEFINE a == hooks[c].auth
             id == calls[c].id
             prior == executions[id]
             new == [key |-> calls[c].key, auth |-> a, status |-> "authorized"]
             h == [pc |-> "answer", auth |-> a]
  <1>1. /\ hooks[c].pc = "remember" /\ UNCHANGED <<calls, actions, failures, unmarked, repeats>>
        /\ calls[c] \in Call /\ hooks[c] \in Process /\ CanCreate(prior, new)
        /\ hooks' = [hooks EXCEPT ![c] = h]
        /\ executions' = [executions EXCEPT ![id] = IF Same(@, new) THEN @ ELSE new]
    BY Types DEF Remember, At, GoTo
  <1>2. calls[c].stage = "asked" /\ calls[c].key \in Keys /\ id \in UseIds
    BY <1>1, Asked DEF Asking, IInv, AllInStep, InStep
  <1>3. /\ Owns(c, a, calls[c], actions) /\ actions[a].status # "succeeded"
    BY <1>1 DEF IInv, AllAuthorized, Authorized
  <1>4. a \in 1..MaxActions
    BY <1>3, Types, HookAssumption DEF Owns, IInv, TypeOK
  <1>5. /\ new \in HookExecution /\ new.key = calls[c].key /\ new.auth = a
        /\ new.status = "authorized"
    BY <1>2, <1>4 DEF HookExecution
  <1>6. h \in Process /\ h.pc = "answer" /\ h.auth = a
    BY <1>4 DEF Process, Locations
  <1> HIDE DEF new, h
  <1>7. ~Same(prior, new)
    BY <1>1, <1>2, <1>3, <1>5 DEF Same, Owns, IInv, AllNamed, Named
  <1>8. prior # NULL =>
          /\ prior.status = "completed" /\ prior.key = calls[c].key
          /\ prior.auth \in 1..Len(actions)
          /\ actions[prior.auth].status = "succeeded"
    BY <1>1, <1>2, <1>5, <1>7 DEF CanCreate, IInv, AllNamed, Named
  <1>9. \A i \in UseIds : executions'[i] = IF i = id THEN new ELSE executions[i]
    BY <1>1, <1>7 DEF IInv, TypeOK
  <1>10. \A d \in Calls : hooks'[d] = IF d = c THEN h ELSE hooks[d]
    BY <1>1 DEF IInv, TypeOK
  <1>11. new # NULL
    BY <1>5, NullAssumption
  <1>12. TypeOK'
    <2>1. hooks' \in [Calls -> Process]
      BY <1>1, <1>6 DEF IInv, TypeOK
    <2>2. executions' \in [UseIds -> HookExecution \cup {NULL}]
      BY <1>1, <1>5 DEF IInv, TypeOK
    <2> QED
      BY <1>1, <2>1, <2>2 DEF IInv, TypeOK
  <1> HIDE DEF prior
  <1>13. AllInStep'
    BY <1>1, <1>2, <1>6, <1>10 DEF AllInStep, InStep, Asking, Reporting, IInv
  <1>14. OpenedOnce'
    BY <1>1, <1>2, <1>6, <1>10 DEF OpenedOnce, OpenedFor, NotYet, IInv
  <1>15. AllAuthorized'
    <2>1. Authorized(c, calls[c], h, actions)
      BY <1>2, <1>3, <1>6 DEF Authorized
    <2> QED
      BY <1>1, <1>10, <2>1 DEF AllAuthorized, IInv
  <1>16. AllNamed'
    <2> SUFFICES ASSUME NEW i \in UseIds, executions'[i] # NULL
                 PROVE  Named(i, executions'[i], actions, calls, hooks')
      BY <1>1 DEF AllNamed
    <2>1. CASE i = id
      BY <1>3, <1>5, <1>6, <1>9, <1>10, <2>1 DEF Named, Owns
    <2>2. CASE i # id
      <3>1. Named(i, executions[i], actions, calls, hooks) /\ executions'[i] = executions[i]
        BY <1>9, <2>2 DEF IInv, AllNamed
      <3>2. \A d : hooks[d].pc # "remember" /\ d \in Calls => hooks'[d].pc # "remember"
        BY <1>6, <1>10
      <3>3. actions[executions[i].auth].call \in Calls
        BY <3>1 DEF Named, IInv, OpenedOnce, OpenedFor
      <3> QED
        BY <3>1, <3>2, <3>3 DEF Named
    <2> QED
      BY <2>1, <2>2
  <1>17. AllBound'
    <2> SUFFICES ASSUME NEW d \in Calls, calls[d].key \notin Delegated,
                        NEW b \in 1..Len(actions), IsFor(calls[d], hooks'[d], b)
                 PROVE  BoundTo(b, calls[d], actions, executions'[calls[d].id],
                                RepeatedIn(calls[d].id, calls, repeats))
      BY <1>1 DEF AllBound, Binds
    <2>1. CASE d = c
      BY <1>2, <1>5, <1>6, <1>9, <1>10, <1>11, <2>1 DEF IsFor, BoundTo
    <2>2. CASE d # c
      <3>1. BoundTo(b, calls[d], actions, executions[calls[d].id],
                    RepeatedIn(calls[d].id, calls, repeats))
        BY <1>10, <2>2 DEF IInv, AllBound, Binds
      <3>2. calls[d].id \in UseIds
        BY <1>10, <2>2 DEF IsFor, IInv, AllInStep, InStep, Asking
      <3>3. CASE calls[d].id # id
        BY <1>9, <3>1, <3>2, <3>3
      <3>4. CASE calls[d].id = id
        BY <1>5, <1>8, <1>9, <1>11, <3>1, <3>2, <3>4 DEF BoundTo, prior
      <3> QED
        BY <3>3, <3>4
    <2> QED
      BY <2>1, <2>2
  <1>18. AllReports'
    <2> SUFFICES ASSUME NEW d \in Calls, hooks'[d].pc \in {"complete", "mark"}
                 PROVE  Reports(calls[d], hooks'[d], actions, executions'[calls[d].id])
      BY <1>1 DEF AllReports, Reports
    <2>1. d # c /\ hooks'[d] = hooks[d]
      BY <1>6, <1>10
    <2>2. Reports(calls[d], hooks[d], actions, executions[calls[d].id])
      BY DEF IInv, AllReports
    <2>3. calls[d].id \in UseIds
      BY <2>1 DEF IInv, AllInStep, InStep, Reporting
    <2>4. CASE calls[d].id # id
      BY <1>9, <2>1, <2>2, <2>3, <2>4
    <2>5. CASE calls[d].id = id
      BY <1>8, <2>1, <2>2, <2>5 DEF Reports, prior
    <2> QED
      BY <2>4, <2>5
  <1>19. OneMarks'
    BY <1>6, <1>10 DEF IInv, OneMarks
  <1>20. AllSealed' /\ AllHaveRun'
    BY <1>1 DEF IInv, AllSealed, AllHaveRun
  <1>21. StuckNameOnlyKnown'
    <2> SUFFICES ASSUME NEW i \in UseIds, executions'[i] # NULL,
                        executions'[i].status = "authorized",
                        executions'[i].auth \notin unmarked
                 PROVE  \/ actions[executions'[i].auth].status \in {"open", "asserted"}
                        \/ \E d \in Calls : /\ hooks'[d].pc = "mark"
                                            /\ hooks'[d].auth = executions'[i].auth
      BY <1>1, Types DEF StuckNameOnlyKnown, Marking
    <2>1. CASE i = id
      BY <1>3, <1>5, <1>9, <2>1 DEF Owns, Opened
    <2>2. CASE i # id
      <3>1. executions'[i] = executions[i]
        BY <1>9, <2>2
      <3>2. \/ actions[executions[i].auth].status \in {"open", "asserted"}
            \/ \E d \in Calls : hooks[d].pc = "mark" /\ hooks[d].auth = executions[i].auth
        BY <3>1 DEF IInv, StuckNameOnlyKnown, Marking
      <3> QED
        BY <1>1, <1>10, <3>1, <3>2
    <2> QED
      BY <2>1, <2>2
  <1> QED
    BY <1>12, <1>13, <1>14, <1>15, <1>16, <1>17, <1>18, <1>19, <1>20, <1>21 DEF IInv

LEMMA MarkStep ==
    ASSUME IInv, NEW c \in Calls, Mark(c)
    PROVE  IInv'
  <1> DEFINE x == hooks[c].auth
             id == calls[c].id
             old == executions[id]
             new == [old EXCEPT !.status = "completed"]
             call == [calls[c] EXCEPT !.stage = "reported"]
             h == [pc |-> "none", auth |-> 0]
  <1>1. /\ hooks[c].pc = "mark" /\ UNCHANGED <<actions, failures, unmarked, repeats>>
        /\ calls[c] \in Call /\ calls[c].stage \in {"ran", "reported"} /\ id \in UseIds
    BY Types DEF Mark, At, IInv, AllInStep, InStep, Reporting
  <1>2. /\ calls[c].key \notin Delegated /\ x \in 1..Len(actions)
        /\ actions[x].status = "succeeded" /\ old # NULL /\ old.auth = x
        /\ old.status = "authorized"
        /\ calls[c].stage = "ran" => actions[calls[c].auth].status = "succeeded"
    BY <1>1 DEF IInv, AllReports, Reports
  <1>3. old \in HookExecution
    BY <1>1, <1>2, Types
  <1>4. actions[calls[c].auth].status = "succeeded"
    BY <1>1, <1>2 DEF IInv, AllSealed, ReportSealed
  <1>5. /\ executions' = [executions EXCEPT ![id] = new]
        /\ calls' = [calls EXCEPT ![c] = call] /\ hooks' = [hooks EXCEPT ![c] = h]
    BY <1>1 DEF Mark, SetStage, End, GoTo, IInv, TypeOK
  <1>6. /\ new \in HookExecution /\ new.key = old.key /\ new.auth = x
        /\ new.status = "completed"
    BY <1>2, <1>3 DEF HookExecution
  <1>7. /\ call \in Call /\ call.stage = "reported" /\ call.auth = calls[c].auth
        /\ call.key = calls[c].key /\ call.id = id
    BY <1>1 DEF Call, Stages
  <1>8. h \in Process /\ h.pc = "none"
    BY HookAssumption DEF Process, Locations
  <1> HIDE DEF new, call, h
  <1>9. \A i \in UseIds : executions'[i] = IF i = id THEN new ELSE executions[i]
    BY <1>5 DEF IInv, TypeOK
  <1>10. \A d \in Calls : /\ hooks'[d] = IF d = c THEN h ELSE hooks[d]
                          /\ calls'[d] = IF d = c THEN call ELSE calls[d]
    BY <1>5 DEF IInv, TypeOK
  <1>11. new # NULL
    BY <1>6, NullAssumption
  <1>12. TypeOK'
    <2>1. hooks' \in [Calls -> Process] /\ calls' \in [Calls -> Call]
      BY <1>5, <1>7, <1>8 DEF IInv, TypeOK
    <2>2. executions' \in [UseIds -> HookExecution \cup {NULL}]
      BY <1>5, <1>6 DEF IInv, TypeOK
    <2> QED
      BY <1>1, <2>1, <2>2 DEF IInv, TypeOK
  <1> HIDE DEF old
  <1>a. \A i : RepeatedIn(i, calls, repeats) => RepeatedIn(i, calls', repeats')
    BY <1>1, <1>7, <1>10, Types DEF RepeatedIn
  <1>13. AllInStep'
    <2>1. InStep(c, call, h, repeats)
      BY <1>1, <1>7, <1>8 DEF InStep, Asking, Reporting, IInv, AllInStep
    <2> QED
      BY <1>1, <1>10, <2>1 DEF AllInStep, IInv
  <1>14. OpenedOnce'
    <2>1. ~NotYet(call, h)
      BY <1>7, <1>8 DEF NotYet
    <2>2. \A a \in 1..Len(actions) : OpenedFor(actions[a], calls', hooks')
      BY <1>7, <1>10, <2>1 DEF IInv, OpenedOnce, OpenedFor
    <2> QED
      BY <1>1, <2>2 DEF OpenedOnce, IInv
  <1>15. AllAuthorized'
    <2>1. Authorized(c, call, h, actions)
      BY <1>1, <1>7, <1>8 DEF Authorized, Owns, IInv, AllAuthorized
    <2> QED
      BY <1>1, <1>10, <2>1 DEF AllAuthorized, IInv
  <1>16. AllNamed'
    <2> SUFFICES ASSUME NEW i \in UseIds, executions'[i] # NULL
                 PROVE  Named(i, executions'[i], actions, calls', hooks')
      BY <1>1 DEF AllNamed
    <2>1. /\ Named(i, executions[i], actions, calls, hooks)
          /\ executions'[i].auth = executions[i].auth /\ executions'[i].key = executions[i].key
          /\ i # id => executions'[i] = executions[i]
      BY <1>1, <1>2, <1>6, <1>9 DEF IInv, AllNamed, old
    <2>2. actions[executions[i].auth].call \in Calls
      BY <2>1 DEF Named, IInv, OpenedOnce, OpenedFor
    <2>3. \A d \in Calls : /\ calls'[d].id = calls[d].id
                           /\ hooks[d].pc # "remember" => hooks'[d].pc # "remember"
      BY <1>7, <1>8, <1>10
    <2>4. i = id => actions[executions[i].auth].status = "succeeded"
      BY <1>2 DEF old
    <2> QED
      BY <2>1, <2>2, <2>3, <2>4 DEF Named
  <1>17. AllBound'
    <2> SUFFICES ASSUME NEW d \in Calls, calls'[d].key \notin Delegated,
                        NEW b \in 1..Len(actions), IsFor(calls'[d], hooks'[d], b)
                 PROVE  BoundTo(b, calls'[d], actions, executions'[calls'[d].id],
                                RepeatedIn(calls'[d].id, calls', repeats'))
      BY <1>1 DEF AllBound, Binds
    <2>1. d # c /\ calls'[d] = calls[d] /\ hooks'[d] = hooks[d]
      BY <1>7, <1>8, <1>10 DEF IsFor
    <2>2. BoundTo(b, calls[d], actions, executions[calls[d].id],
                  RepeatedIn(calls[d].id, calls, repeats))
      BY <2>1 DEF IInv, AllBound, Binds
    <2>3. calls[d].id \in UseIds
      BY <2>1 DEF IsFor, IInv, AllInStep, InStep, Asking
    <2>4. CASE calls[d].id # id
      BY <1>9, <1>a, <2>1, <2>2, <2>3, <2>4 DEF BoundTo
    <2>5. CASE calls[d].id = id
      <3>1. RepeatedIn(id, calls, repeats)
        <4>1. CASE calls[c].stage = "reported"
          BY <1>1, <4>1 DEF IInv, AllInStep, InStep, Reporting, RepeatedIn
        <4>2. CASE calls[c].stage = "ran" /\ ~RepeatedIn(id, calls, repeats)
          <5>1. old.auth = calls[c].auth /\ actions[calls[c].auth].call = c
            BY <1>2, <4>2, FoundByName DEF BoundTo, old
          <5>2. old.auth = b
            BY <2>2, <2>5, <4>2 DEF BoundTo, old
          <5>3. actions[b].call = d
            BY <2>1 DEF IsFor, IInv, AllAuthorized, Authorized, Owns
          <5> QED
            BY <2>1, <5>1, <5>2, <5>3
        <4> QED
          BY <1>1, <4>1, <4>2
      <3> QED
        BY <1>6, <1>9, <1>11, <1>a, <2>1, <2>2, <2>3, <2>5, <3>1, <1>2 DEF BoundTo, old
    <2> QED
      BY <2>4, <2>5
  <1>18. AllReports'
    <2> SUFFICES ASSUME NEW d \in Calls, hooks'[d].pc \in {"complete", "mark"}
                 PROVE  Reports(calls'[d], hooks'[d], actions, executions'[calls'[d].id])
      BY <1>1 DEF AllReports, Reports
    <2>1. d # c /\ hooks'[d] = hooks[d] /\ calls'[d] = calls[d]
      BY <1>8, <1>10
    <2>2. Reports(calls[d], hooks[d], actions, executions[calls[d].id])
      BY DEF IInv, AllReports
    <2>3. calls[d].id \in UseIds
      BY <2>1 DEF IInv, AllInStep, InStep, Reporting
    <2>4. CASE calls[d].id # id
      BY <1>9, <2>1, <2>2, <2>3, <2>4
    <2>5. CASE calls[d].id = id
      <3>1. ~(hooks[d].pc = "mark" \/ actions[hooks[d].auth].status = "open")
        BY <1>1, <1>2, <2>1, <2>2, <2>5 DEF Reports, IInv, OneMarks, old
      <3> QED
        BY <2>1, <2>2, <3>1 DEF Reports
    <2> QED
      BY <2>4, <2>5
  <1>19. OneMarks'
    BY <1>8, <1>10 DEF IInv, OneMarks
  <1>20. AllSealed'
    BY <1>1, <1>4, <1>7, <1>10 DEF IInv, AllSealed, ReportSealed
  <1>21. AllHaveRun'
    <2> SUFFICES ASSUME NEW a \in 1..Len(actions), actions[a].status = "succeeded"
                 PROVE  LET d == actions[a].call IN
                          \/ calls'[d].stage \in {"ran", "reported"}
                          \/ RepeatedIn(calls'[d].id, calls', repeats')
      BY <1>1 DEF AllHaveRun, HasRun
    <2>1. actions[a].call \in Calls
      BY DEF IInv, OpenedOnce, OpenedFor, Opened
    <2> QED
      BY <1>7, <1>10, <1>a, <2>1 DEF IInv, AllHaveRun, HasRun
  <1>22. StuckNameOnlyKnown'
    <2> SUFFICES ASSUME NEW i \in UseIds, executions'[i] # NULL,
                        executions'[i].status = "authorized",
                        executions'[i].auth \notin unmarked
                 PROVE  \/ actions[executions'[i].auth].status \in {"open", "asserted"}
                        \/ \E d \in Calls : /\ hooks'[d].pc = "mark"
                                            /\ hooks'[d].auth = executions'[i].auth
      BY <1>1, Types DEF StuckNameOnlyKnown, Marking
    <2>1. i # id /\ executions'[i] = executions[i]
      BY <1>6, <1>9
    <2>2. executions[i].auth # x
      BY <1>1, <1>2, <2>1, SMTT(40) DEF IInv, AllNamed, Named, old
    <2>3. \/ actions[executions[i].auth].status \in {"open", "asserted"}
          \/ \E d \in Calls : hooks[d].pc = "mark" /\ hooks[d].auth = executions[i].auth
      BY <2>1 DEF IInv, StuckNameOnlyKnown, Marking
    <2> QED
      BY <1>10, <2>1, <2>2, <2>3
  <1> QED
    BY <1>12, <1>13, <1>14, <1>15, <1>16, <1>17, <1>18, <1>19, <1>20, <1>21, <1>22
       DEF IInv
-----------------------------------------------------------------------------
(* An authorization is sealed or settled *)

LEMMA CompleteExternalStep ==
    ASSUME IInv, NEW c \in Calls, CompleteExternal(c)
    PROVE  IInv'
  <1> DEFINE x == hooks[c].auth
             id == calls[c].id
             r == [actions[x] EXCEPT !.status = "succeeded"]
             h == [pc |-> "mark", auth |-> x]
  <1>1. /\ hooks[c].pc = "complete" /\ UNCHANGED <<calls, executions, failures, unmarked, repeats>>
        /\ hooks[c] \in Process /\ actions[x].status = "open"
    BY Types DEF CompleteExternal, At
  <1>2. calls[c].stage \in {"ran", "reported"} /\ id \in UseIds
    BY <1>1 DEF IInv, AllInStep, InStep, Reporting
  <1>3. /\ calls[c].key \notin Delegated /\ x \in 1..Len(actions)
        /\ executions[id] # NULL /\ executions[id].auth = x
        /\ executions[id].status = "authorized"
    BY <1>1 DEF IInv, AllReports, Reports
  <1>4. actions[x] \in Action
    BY <1>3, Types
  <1>5. actions' = [actions EXCEPT ![x] = r] /\ hooks' = [hooks EXCEPT ![c] = h]
    BY <1>3, Types DEF CompleteExternal, GoTo
  <1>6. /\ r \in Action /\ r.status = "succeeded" /\ r.call = actions[x].call
        /\ r.key = actions[x].key
    BY <1>4 DEF Action, Statuses
  <1>7. h \in Process /\ h.pc = "mark" /\ h.auth = x
    BY <1>1 DEF Process, Locations
  <1> HIDE DEF r, h
  <1>8. /\ actions' \in Seq(Action) /\ Len(actions') = Len(actions)
        /\ \A b \in 1..Len(actions) : actions'[b] = IF b = x THEN r ELSE actions[b]
    BY <1>3, <1>5, <1>6, Replaced, Types
  <1>9. \A d \in Calls : hooks'[d] = IF d = c THEN h ELSE hooks[d]
    BY <1>5 DEF IInv, TypeOK
  <1>10. \A b \in 1..Len(actions) :
           /\ actions'[b].key = actions[b].key /\ actions'[b].call = actions[b].call
           /\ Opened(actions'[b]) <=> Opened(actions[b])
           /\ actions[b].status = "succeeded" => actions'[b].status = "succeeded"
           /\ actions'[b].status = "succeeded" => actions[b].status = "succeeded" \/ b = x
           /\ actions'[b].status = "open" => actions[b].status = "open"
           /\ actions[b].status = "asserted" => actions'[b].status = "asserted"
           /\ b # x => actions'[b] = actions[b]
    BY <1>1, <1>6, <1>8 DEF Opened
  <1>11. TypeOK'
    BY <1>1, <1>5, <1>7, <1>8 DEF IInv, TypeOK
  <1>12. AllInStep'
    BY <1>1, <1>7, <1>9 DEF AllInStep, InStep, Asking, Reporting, IInv
  <1>13. Named(id, executions[id], actions, calls, hooks) /\ actions[x].call \in Calls
    BY <1>2, <1>3 DEF IInv, AllNamed, Named, OpenedOnce, OpenedFor
  <1>14. OpenedOnce'
    <2>1. ~NotYet(calls[c], h)
      BY <1>2, <1>7 DEF NotYet
    <2>2. \A b \in 1..Len(actions) : OpenedFor(actions'[b], calls, hooks')
      BY <1>9, <1>10, <2>1 DEF IInv, OpenedOnce, OpenedFor
    <2>3. \A b, e \in 1..Len(actions) :
            Opened(actions'[b]) /\ Opened(actions'[e]) /\ actions'[b].call = actions'[e].call
              => b = e
      BY <1>10 DEF IInv, OpenedOnce
    <2> QED
      BY <1>1, <1>8, <2>2, <2>3 DEF OpenedOnce
  <1>15. AllAuthorized'
    <2> SUFFICES ASSUME NEW d \in Calls
                 PROVE  Authorized(d, calls[d], hooks'[d], actions')
      BY <1>1 DEF AllAuthorized
    <2>1. Authorized(d, calls[d], hooks[d], actions)
      BY DEF IInv, AllAuthorized
    <2>2. CASE d = c
      BY <1>1, <1>7, <1>8, <1>9, <1>10, <2>1, <2>2 DEF Authorized, Owns
    <2>3. CASE d # c
      <3>1. hooks[d].pc = "remember" => hooks[d].auth # x
        BY <1>3, <1>13, <2>1 DEF Authorized, Owns, Named
      <3> QED
        BY <1>8, <1>9, <1>10, <2>1, <2>3, <3>1 DEF Authorized, Owns
    <2> QED
      BY <2>2, <2>3
  <1>16. AllNamed'
    <2> SUFFICES ASSUME NEW i \in UseIds, executions[i] # NULL
                 PROVE  Named(i, executions[i], actions', calls, hooks')
      BY <1>1 DEF AllNamed
    <2>1. Named(i, executions[i], actions, calls, hooks)
      BY DEF IInv, AllNamed
    <2>2. actions[executions[i].auth].call \in Calls
      BY <2>1 DEF Named, IInv, OpenedOnce, OpenedFor
    <2> QED
      BY <1>7, <1>8, <1>9, <1>10, <2>1, <2>2, ZenonT(60) DEF Named
  <1>17. AllBound'
    <2> SUFFICES ASSUME NEW d \in Calls, calls[d].key \notin Delegated,
                        NEW b \in 1..Len(actions), IsFor(calls[d], hooks'[d], b)
                 PROVE  BoundTo(b, calls[d], actions', executions[calls[d].id],
                                RepeatedIn(calls[d].id, calls, repeats))
      BY <1>1, <1>8 DEF AllBound, Binds
    <2>1. IsFor(calls[d], hooks[d], b)
      BY <1>7, <1>9 DEF IsFor
    <2> QED
      BY <1>10, <2>1 DEF BoundTo, IInv, AllBound, Binds
  <1>18. AllReports'
    <2> SUFFICES ASSUME NEW d \in Calls, hooks'[d].pc \in {"complete", "mark"}
                 PROVE  Reports(calls[d], hooks'[d], actions', executions[calls[d].id])
      BY <1>1 DEF AllReports, Reports
    <2>1. Reports(calls[d], hooks[d], actions, executions[calls[d].id])
      BY DEF IInv, AllReports
    <2>2. calls[d].stage = "ran" => calls[d].auth \in 1..Len(actions)
      BY DEF IInv, AllAuthorized, Authorized, Owns
    <2>3. CASE d = c
      BY <1>1, <1>3, <1>6, <1>7, <1>8, <1>9, <1>10, <2>1, <2>2, <2>3 DEF Reports
    <2>4. CASE d # c
      BY <1>8, <1>9, <1>10, <2>1, <2>2, <2>4 DEF Reports
    <2> QED
      BY <2>3, <2>4
  <1>19. OneMarks'
    <2>1. \A d \in Calls : hooks[d].pc = "mark" => hooks[d].auth # x
      BY <1>1 DEF IInv, AllReports, Reports
    <2> QED
      BY <1>7, <1>9, <2>1 DEF IInv, OneMarks
  <1>20. AllSealed'
    <2> SUFFICES ASSUME NEW d \in Calls PROVE ReportSealed(calls[d], actions')
      BY <1>1 DEF AllSealed
    <2>1. calls[d].stage = "reported" => calls[d].auth \in 1..Len(actions)
      BY DEF IInv, AllAuthorized, Authorized, Owns
    <2> QED
      BY <1>10, <2>1 DEF IInv, AllSealed, ReportSealed
  <1>21. AllHaveRun'
    <2> SUFFICES ASSUME NEW a \in 1..Len(actions) PROVE HasRun(actions'[a], calls, repeats)
      BY <1>1, <1>8 DEF AllHaveRun
    <2>1. CASE a # x
      BY <1>10, <2>1 DEF IInv, AllHaveRun
    <2>2. CASE a = x
      <3> DEFINE d == actions[x].call
      <3>1. actions'[a].call = d /\ calls[d].id = id
        BY <1>3, <1>10, <1>13, <2>2 DEF Named
      <3>2. CASE d = c
        BY <1>2, <3>1, <3>2 DEF HasRun
      <3>3. CASE d # c
        <4>1. CASE calls[c].stage = "reported"
          BY <1>1, <3>1, <4>1 DEF HasRun, RepeatedIn, IInv, AllInStep, InStep, Reporting
        <4>2. CASE calls[c].stage = "ran"
          <5>1. RepeatedIn(id, calls, repeats)
            BY <1>3, <3>3, <4>2, FoundByName DEF BoundTo
          <5> QED
            BY <3>1, <5>1 DEF HasRun
        <4> QED
          BY <1>2, <4>1, <4>2
      <3> QED
        BY <3>2, <3>3
    <2> QED
      BY <2>1, <2>2
  <1>22. StuckNameOnlyKnown'
    <2> SUFFICES ASSUME NEW i \in UseIds, executions[i] # NULL,
                        executions[i].status = "authorized",
                        executions[i].auth \notin unmarked
                 PROVE  \/ actions'[executions[i].auth].status \in {"open", "asserted"}
                        \/ \E d \in Calls : /\ hooks'[d].pc = "mark"
                                            /\ hooks'[d].auth = executions[i].auth
      BY <1>1, Types DEF StuckNameOnlyKnown, Marking
    <2>1. CASE executions[i].auth = x
      BY <1>7, <1>9, <2>1
    <2>2. CASE executions[i].auth # x
      <3>1. executions[i].auth \in 1..Len(actions)
        BY DEF IInv, AllNamed, Named
      <3>2. \/ actions[executions[i].auth].status \in {"open", "asserted"}
            \/ \E d \in Calls : hooks[d].pc = "mark" /\ hooks[d].auth = executions[i].auth
        BY DEF IInv, StuckNameOnlyKnown, Marking
      <3> QED
        BY <1>1, <1>9, <1>10, <2>2, <3>1, <3>2
    <2> QED
      BY <2>1, <2>2
  <1> QED
    BY <1>11, <1>12, <1>14, <1>15, <1>16, <1>17, <1>18, <1>19, <1>20, <1>21, <1>22
       DEF IInv

LEMMA ReconcileStep ==
    ASSUME IInv, NEW x \in 1..Len(actions), Reconcile(x)
    PROVE  IInv'
  <1> DEFINE r == [actions[x] EXCEPT !.status = "asserted"]
  <1>1. /\ UNCHANGED <<calls, hooks, executions, failures, unmarked, repeats>>
        /\ actions[x].status = "open" /\ actions[x] \in Action
        /\ actions' = [actions EXCEPT ![x] = r]
    BY Types DEF Reconcile
  <1>2. /\ r \in Action /\ r.status = "asserted" /\ r.call = actions[x].call
        /\ r.key = actions[x].key
    BY <1>1 DEF Action, Statuses
  <1> HIDE DEF r
  <1>3. /\ actions' \in Seq(Action) /\ Len(actions') = Len(actions)
        /\ \A b \in 1..Len(actions) : actions'[b] = IF b = x THEN r ELSE actions[b]
    BY <1>1, <1>2, Replaced, Types
  <1>4. \A b \in 1..Len(actions) :
          /\ actions'[b].key = actions[b].key /\ actions'[b].call = actions[b].call
          /\ Opened(actions'[b]) <=> Opened(actions[b])
          /\ actions'[b].status = "succeeded" <=> actions[b].status = "succeeded"
          /\ actions'[b].status = "open" => actions[b].status = "open"
          /\ actions[b].status \in {"open", "asserted"} =>
               actions'[b].status \in {"open", "asserted"}
    BY <1>1, <1>2, <1>3 DEF Opened
  <1>5. TypeOK' /\ AllInStep' /\ OneMarks'
    BY <1>1, <1>3 DEF IInv, TypeOK, AllInStep, OneMarks
  <1>6. OpenedOnce'
    BY <1>1, <1>3, <1>4 DEF IInv, OpenedOnce, OpenedFor
  <1>7. AllAuthorized'
    <2>1. \A d \in Calls : Authorized(d, calls[d], hooks[d], actions')
      BY <1>3, <1>4, SMTT(40) DEF IInv, AllAuthorized, Authorized, Owns
    <2> QED
      BY <1>1, <2>1 DEF AllAuthorized
  <1>8. AllNamed'
    <2>1. \A i \in UseIds : executions[i] # NULL =>
            Named(i, executions[i], actions', calls, hooks)
      BY <1>3, <1>4 DEF IInv, AllNamed, Named
    <2> QED
      BY <1>1, <2>1 DEF AllNamed
  <1>9. AllBound'
    <2>1. \A d \in Calls : Binds(calls[d], hooks[d], actions', executions, calls, repeats)
      BY <1>3, <1>4 DEF IInv, AllBound, Binds, BoundTo
    <2> QED
      BY <1>1, <2>1 DEF AllBound
  <1>10. AllReports'
    <2>1. ASSUME NEW d \in Calls
          PROVE  Reports(calls[d], hooks[d], actions', executions[calls[d].id])
      <3>1. calls[d].stage = "ran" => calls[d].auth \in 1..Len(actions)
        BY DEF IInv, AllAuthorized, Authorized, Owns
      <3> QED
        BY <1>3, <1>4, <3>1 DEF IInv, AllReports, Reports
    <2> QED
      BY <1>1, <2>1 DEF AllReports
  <1>11. AllSealed'
    <2>1. ASSUME NEW d \in Calls PROVE ReportSealed(calls[d], actions')
      <3>1. calls[d].stage = "reported" => calls[d].auth \in 1..Len(actions)
        BY DEF IInv, AllAuthorized, Authorized, Owns
      <3> QED
        BY <1>4, <3>1 DEF IInv, AllSealed, ReportSealed
    <2> QED
      BY <1>1, <2>1 DEF AllSealed
  <1>12. AllHaveRun'
    BY <1>1, <1>3, <1>4 DEF IInv, AllHaveRun, HasRun
  <1>13. StuckNameOnlyKnown'
    <2> SUFFICES ASSUME NEW i \in UseIds, executions[i] # NULL,
                        executions[i].status = "authorized",
                        executions[i].auth \notin unmarked
                 PROVE  \/ actions'[executions[i].auth].status \in {"open", "asserted"}
                        \/ \E d \in Calls : /\ hooks[d].pc = "mark"
                                            /\ hooks[d].auth = executions[i].auth
      BY <1>1, Types DEF StuckNameOnlyKnown, Marking
    <2>1. executions[i].auth \in 1..Len(actions)
      BY DEF IInv, AllNamed, Named
    <2> QED
      BY <1>1, <1>4, <2>1 DEF IInv, StuckNameOnlyKnown, Marking
  <1> QED
    BY <1>5, <1>6, <1>7, <1>8, <1>9, <1>10, <1>11, <1>12, <1>13 DEF IInv
-----------------------------------------------------------------------------
(* An authorization is opened *)

\* Action a, new or approved until now, is opened for call c.
LEMMA Opens ==
    ASSUME IInv, NEW c \in Calls, hooks[c].pc \in {"preflight", "resume"},
           actions' \in Seq(Action), Len(actions') <= MaxActions,
           Len(actions) <= Len(actions'), NEW a \in 1..Len(actions'),
           \A b \in 1..Len(actions') : b \in 1..Len(actions) \/ b = a,
           \A b \in 1..Len(actions) : b # a => QuietMove(actions[b], actions'[b]),
           a \in 1..Len(actions) =>
             ~Opened(actions[a]) /\ actions'[a].key = actions[a].key,
           actions'[a].status = "open", actions'[a].call = c,
           actions'[a].key = calls[c].key,
           NEW pc \in {"remember", "answer"},
           pc = "answer" => calls[c].key \in Delegated, GoTo(c, pc, a),
           UNCHANGED <<calls, executions, failures, unmarked, repeats>>
    PROVE  IInv'
  <1> DEFINE h == [pc |-> pc, auth |-> a]
  <1>1. h \in Process /\ h.pc = pc /\ h.auth = a
    BY Types, HookAssumption DEF Process, Locations
  <1>2. hooks' = [hooks EXCEPT ![c] = h]
    BY DEF GoTo
  <1> HIDE DEF h
  <1>3. \A d \in Calls : hooks'[d] = IF d = c THEN h ELSE hooks[d]
    BY <1>2 DEF IInv, TypeOK
  <1>4. calls[c].stage = "asked" /\ ~NotYet(calls[c], h)
    BY <1>1, Asked DEF Asking, NotYet
  <1>5. \A b \in 1..Len(actions) : Opened(actions[b]) =>
          /\ b \in 1..Len(actions') /\ b # a
          /\ actions[b].call \in Calls /\ actions[b].call # c
          /\ actions'[b].call = actions[b].call /\ actions'[b].key = actions[b].key
          /\ actions'[b].status = actions[b].status /\ Opened(actions'[b])
    BY Types, SMTT(40) DEF IInv, OpenedOnce, OpenedFor, NotYet, QuietMove
  <1>6. \A b \in 1..Len(actions') : Opened(actions'[b]) =>
          \/ b = a
          \/ b \in 1..Len(actions) /\ Opened(actions[b])
    BY DEF QuietMove
  <1>7. \A b \in 1..Len(actions) :
          /\ b \in 1..Len(actions') /\ actions'[b].key = actions[b].key
          /\ actions'[b].status = "succeeded" <=> actions[b].status = "succeeded"
          /\ actions'[b].status = "open" => actions[b].status = "open" \/ b = a
    BY Types DEF QuietMove, Opened
  <1>8. TypeOK'
    <2>1. hooks' \in [Calls -> Process]
      BY <1>1, <1>2 DEF IInv, TypeOK
    <2> QED
      BY <2>1 DEF IInv, TypeOK
  <1>9. AllInStep'
    BY <1>1, <1>3, <1>4 DEF AllInStep, InStep, Asking, Reporting, IInv
  <1>10. OpenedOnce'
    <2>1. ASSUME NEW b \in 1..Len(actions')
          PROVE  OpenedFor(actions'[b], calls, hooks')
      <3>1. CASE b = a
        BY <1>3, <1>4, <3>1 DEF OpenedFor, Opened
      <3>2. CASE b # a /\ Opened(actions'[b])
        <4>1. b \in 1..Len(actions) /\ Opened(actions[b])
          BY <1>6, <3>2
        <4> QED
          BY <1>3, <1>5, <4>1 DEF OpenedFor, IInv, OpenedOnce
      <3>3. CASE b # a /\ ~Opened(actions'[b])
        <4>1. b \in 1..Len(actions)
          BY <3>3
        <4>2. QuietMove(actions[b], actions'[b])
          BY <3>3, <4>1
        <4>3. OpenedFor(actions[b], calls, hooks)
          BY <4>1 DEF IInv, OpenedOnce
        <4> QED
          BY <3>3, <4>2, <4>3 DEF OpenedFor, QuietMove
      <3> QED
        BY <3>1, <3>2, <3>3
    <2>2. ASSUME NEW b \in 1..Len(actions'), NEW d \in 1..Len(actions'),
                 Opened(actions'[b]), Opened(actions'[d]),
                 actions'[b].call = actions'[d].call
          PROVE  b = d
      BY <1>5, <1>6, <2>2 DEF IInv, OpenedOnce
    <2> QED
      BY <2>1, <2>2 DEF OpenedOnce
  <1>11. AllAuthorized'
    <2> SUFFICES ASSUME NEW d \in Calls
                 PROVE  Authorized(d, calls[d], hooks'[d], actions')
      BY DEF AllAuthorized
    <2>1. CASE d = c
      BY <1>1, <1>3, <1>4, <2>1 DEF Authorized, Owns, Opened
    <2>2. CASE d # c
      <3>1. Authorized(d, calls[d], hooks[d], actions) /\ hooks'[d] = hooks[d]
        BY <1>3, <2>2 DEF IInv, AllAuthorized
      <3> QED
        BY <1>5, <1>7, <3>1, SMTT(40) DEF Authorized, Owns
    <2> QED
      BY <2>1, <2>2
  <1>12. AllNamed'
    <2> SUFFICES ASSUME NEW i \in UseIds, executions[i] # NULL
                 PROVE  Named(i, executions[i], actions', calls, hooks')
      BY DEF AllNamed
    <2>1. Named(i, executions[i], actions, calls, hooks)
      BY DEF IInv, AllNamed
    <2> QED
      BY <1>3, <1>5, <2>1, SMTT(40) DEF Named
  <1>13. AllBound'
    <2> SUFFICES ASSUME NEW d \in Calls, calls[d].key \notin Delegated,
                        NEW b \in 1..Len(actions'), IsFor(calls[d], hooks'[d], b)
                 PROVE  BoundTo(b, calls[d], actions', executions[calls[d].id],
                                RepeatedIn(calls[d].id, calls, repeats))
      BY DEF AllBound, Binds
    <2>1. d # c /\ hooks'[d] = hooks[d]
      BY <1>1, <1>3, <1>4 DEF IsFor
    <2>2. b \in 1..Len(actions)
      BY <2>1 DEF IsFor, IInv, AllAuthorized, Authorized, Owns
    <2> QED
      BY <1>7, <2>1, <2>2 DEF BoundTo, IInv, AllBound, Binds
  <1>14. AllReports'
    <2> SUFFICES ASSUME NEW d \in Calls, hooks'[d].pc \in {"complete", "mark"}
                 PROVE  Reports(calls[d], hooks'[d], actions', executions[calls[d].id])
      BY DEF AllReports, Reports
    <2>1. d # c /\ hooks'[d] = hooks[d]
      BY <1>1, <1>3
    <2>2. Reports(calls[d], hooks[d], actions, executions[calls[d].id])
      BY DEF IInv, AllReports
    <2>3. calls[d].stage = "ran" => calls[d].auth \in 1..Len(actions)
      BY DEF IInv, AllAuthorized, Authorized, Owns
    <2>4. /\ Opened(actions'[hooks[d].auth])
          /\ actions'[hooks[d].auth].status = "open" => actions[hooks[d].auth].status = "open"
      <3>1. hooks[d].auth \in 1..Len(actions) /\ Opened(actions[hooks[d].auth])
        BY <2>1, <2>2 DEF Reports
      <3> QED
        BY <1>5, <1>7, <3>1
    <2> QED
      BY <1>7, <2>1, <2>2, <2>3, <2>4 DEF Reports
  <1>15. OneMarks'
    BY <1>1, <1>3 DEF IInv, OneMarks
  <1>16. AllSealed'
    <2>1. ASSUME NEW d \in Calls PROVE ReportSealed(calls[d], actions')
      <3>1. calls[d].stage = "reported" => calls[d].auth \in 1..Len(actions)
        BY DEF IInv, AllAuthorized, Authorized, Owns
      <3> QED
        BY <1>7, <3>1 DEF IInv, AllSealed, ReportSealed
    <2> QED
      BY <2>1 DEF AllSealed
  <1>17. AllHaveRun'
    <2> SUFFICES ASSUME NEW b \in 1..Len(actions'), actions'[b].status = "succeeded"
                 PROVE  HasRun(actions'[b], calls, repeats)
      BY DEF AllHaveRun, HasRun
    <2>1. b \in 1..Len(actions) /\ Opened(actions[b])
      BY <1>6 DEF Opened
    <2> QED
      BY <1>5, <2>1 DEF IInv, AllHaveRun, HasRun
  <1>18. StuckNameOnlyKnown'
    <2> SUFFICES ASSUME NEW i \in UseIds, executions[i] # NULL,
                        executions[i].status = "authorized",
                        executions[i].auth \notin unmarked
                 PROVE  \/ actions'[executions[i].auth].status \in {"open", "asserted"}
                        \/ \E d \in Calls : /\ hooks'[d].pc = "mark"
                                            /\ hooks'[d].auth = executions[i].auth
      BY Types DEF StuckNameOnlyKnown, Marking
    <2>1. executions[i].auth \in 1..Len(actions) /\ Opened(actions[executions[i].auth])
      BY DEF IInv, AllNamed, Named
    <2>2. \/ actions[executions[i].auth].status \in {"open", "asserted"}
          \/ \E d \in Calls : hooks[d].pc = "mark" /\ hooks[d].auth = executions[i].auth
      BY DEF IInv, StuckNameOnlyKnown, Marking
    <2> QED
      BY <1>3, <1>5, <2>1, <2>2, SMTT(40)
  <1> QED
    BY <1>8, <1>9, <1>10, <1>11, <1>12, <1>13, <1>14, <1>15, <1>16, <1>17, <1>18 DEF IInv

LEMMA PreflightAllowStep ==
    ASSUME IInv, NEW c \in Calls, PreflightAllow(c)
    PROVE  IInv'
  <1> DEFINE r == NewAction(c, FALSE, "open")
             n == Len(actions)
             pc == IF calls[c].key \in Delegated THEN "answer" ELSE "remember"
  <1>1. /\ hooks[c].pc = "preflight" /\ n < MaxActions /\ n \in Nat
        /\ actions' = Append(ExpireDue(actions), r) /\ GoTo(c, pc, n + 1)
        /\ UNCHANGED <<calls, executions, failures, unmarked, repeats>>
    BY Types DEF PreflightAllow, At
  <1>2. /\ r \in Action /\ r.status = "open" /\ r.call = c /\ r.key = calls[c].key
    <2>1. calls[c].key \in Keys
      BY HookAssumption DEF PreflightAllow
    <2> QED
      BY <2>1 DEF NewAction, Action, Statuses
  <1>3. pc \in {"remember", "answer"} /\ (pc = "answer" => calls[c].key \in Delegated)
    OBVIOUS
  <1> HIDE DEF r, pc
  <1>4. /\ actions' \in Seq(Action) /\ Len(actions') = n + 1 /\ Len(actions') <= MaxActions
        /\ \A b \in 1..n : QuietMove(actions[b], actions'[b])
        /\ actions'[n + 1] = r
    BY <1>1, <1>2, Appended
  <1>5. /\ n + 1 \in 1..Len(actions') /\ n + 1 \notin 1..n
        /\ \A b \in 1..Len(actions') : b \in 1..n \/ b = n + 1
        /\ n <= Len(actions')
    BY <1>1, <1>4
  <1> QED
    BY <1>1, <1>2, <1>3, <1>4, <1>5, Opens

LEMMA ResumeExternalStep ==
    ASSUME IInv, NEW c \in Calls, ResumeExternal(c)
    PROVE  IInv'
  <1> DEFINE a == hooks[c].auth
             E == ExpireDue(actions)
             r == [E[a] EXCEPT !.status = "open", !.call = c]
  <1>1. /\ hooks[c].pc = "resume" /\ GoTo(c, "remember", a)
        /\ UNCHANGED <<calls, executions, failures, unmarked, repeats>>
    BY DEF ResumeExternal, At
  <1>2. a \in 1..Len(actions) /\ actions[a].key = calls[c].key
    BY <1>1 DEF IInv, AllAuthorized, Authorized
  <1>3. /\ E \in Seq(Action) /\ Len(E) = Len(actions) /\ E[a].status = "approved"
        /\ E[a] \in Action /\ \A b \in 1..Len(actions) : QuietMove(actions[b], E[b])
    BY <1>2, Expiry DEF ResumeExternal
  <1>4. actions' = [E EXCEPT ![a] = r]
    BY <1>2, <1>3 DEF ResumeExternal, Open
  <1>5. ~Opened(actions[a]) /\ E[a].key = actions[a].key
    BY <1>2, <1>3 DEF QuietMove, Opened
  <1> HIDE DEF E
  <1>6. /\ r \in Action /\ r.status = "open" /\ r.call = c /\ r.key = E[a].key
    BY <1>3 DEF Action, Statuses
  <1> HIDE DEF r, a
  <1>7. /\ actions' \in Seq(Action) /\ Len(actions') = Len(actions) /\ actions'[a] = r
        /\ \A b \in 1..Len(actions) : b # a => QuietMove(actions[b], actions'[b])
    BY <1>2, <1>3, <1>4, <1>6, Replaced
  <1>8. Len(actions) <= MaxActions /\ Len(actions) <= Len(actions')
    BY <1>7, Types DEF IInv, TypeOK
  <1> QED
    BY <1>1, <1>2, <1>5, <1>6, <1>7, <1>8, Opens
-----------------------------------------------------------------------------
(* The theorems *)

LEMMA NextStep == IInv /\ [Next]_vars => IInv'
  <1> SUFFICES ASSUME IInv, [Next]_vars PROVE IInv'
    OBVIOUS
  <1>1. CASE UNCHANGED vars
    BY <1>1 DEF vars, IInv, TypeOK, AllInStep, OpenedOnce, AllAuthorized, AllNamed,
                AllBound, AllReports, OneMarks, AllSealed, AllHaveRun,
                StuckNameOnlyKnown, Marking
  <1>2. ASSUME NEW c \in Calls, NEW key \in Keys, NEW id \in UseIds,
               PreToolUse(c, key, id)
        PROVE  IInv'
    BY <1>2, PreToolUseStep
  <1>3. ASSUME NEW c \in Calls,
               \/ PreflightAllow(c) \/ PreflightHold(c) \/ PreflightBlock(c)
               \/ ResumeExternal(c) \/ ResumeBlocked(c) \/ ResumeRefused(c)
        PROVE  IInv'
    BY <1>3, PreflightAllowStep, PreflightHoldStep, ExpireAndDeny, ResumeExternalStep,
       ResumeBlockedStep
  <1>4. ASSUME NEW c \in Calls,
               \/ Find(c) \/ Remember(c) \/ RememberRefused(c) \/ Answer(c) \/ Run(c)
        PROVE  IInv'
    BY <1>4, FindStep, RememberStep, RefusedSteps, AnswerStep, RunStep
  <1>5. ASSUME NEW c \in Calls,
               \/ PostToolUse(c) \/ Correlate(c) \/ CompleteExternal(c)
               \/ CompleteRefused(c) \/ Mark(c) \/ Fail(c)
        PROVE  IInv'
    BY <1>5, PostToolUseStep, CorrelateStep, CompleteExternalStep, RefusedSteps, MarkStep
  <1>6. ASSUME NEW a \in 1..Len(actions),
               \/ \E status \in {"approved", "rejected"} : Decide(a, status)
               \/ Reconcile(a) \/ TimePasses(a)
        PROVE  IInv'
    BY <1>6, DecideSteps, ReconcileStep
  <1> QED
    BY <1>1, <1>2, <1>3, <1>4, <1>5, <1>6 DEF Next

LEMMA Invariance == Spec => []IInv
  BY InitInv, NextStep, PTL DEF Spec

\* However hook processes interleave, fail and are called again, a call that was
\* allowed keeps its own authorization, and its name until it is reported unless a
\* report of that name was repeated: HookExecutionStore.create and resume_external
\* look again at what they were given.
THEOREM AllowedCompletes == Spec => []AllowedCanComplete
  BY Invariance, InvImplies, PTL

\* What was reported is sealed, and nothing is sealed as succeeded for a call that
\* has not run, unless a report of its name was repeated: complete_external_call
\* is made for the authorization that the name is bound to.
THEOREM SealsAreForTheirCalls == Spec => []SealedForItsCall
  BY Invariance, InvImplies, PTL

\* Only a process that failed before mark_completed, or an operator who settled the
\* authorization, leaves a name behind that refuses every later call.
THEOREM NamesAreFreed == Spec => []StuckNameOnlyKnown
  BY Invariance, InvImplies, PTL
=============================================================================
