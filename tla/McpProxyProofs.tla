--------------------------- MODULE McpProxyProofs ---------------------------
(***************************************************************************)
(* The promises of the proxies, for any number of proxies, calls and       *)
(* crashes, and of the session behind each of them: the client never sees  *)
(* the reply to a private call, for any number of calls, replies and other *)
(* lines of the server.                                                    *)
(***************************************************************************)
EXTENDS McpProxyProperties, UpstreamSessionProperties, TLAPS,
        WellFoundedInduction

IsLive(r) == r.status \in {"pending", "approved", "executing"}

\* What holds of one approval on its own: only what was begun has run, what was
\* begun was approved by an operator, and what ended with its reservation was
\* rejected as a duplicate or fell due at the last moment.
Sound(r) ==
    /\ r.status \in {"pending", "approved", "rejected", "expired"} => r.runs = 0
    /\ r.runs <= 1
    /\ r.status \in {"approved", "executing"} \/ r.runs = 1
         => r.decider = "operator"
    /\ r.status \in {"rejected", "expired", "consumed"} /\ r.reserved
         => \/ r.status = "rejected" /\ r.decider = "defiant-dedup"
            \/ r.status = "expired" /\ r.late

AllSound == \A a \in 1..Len(approvals) : Sound(approvals[a])

\* The proxy that waits for the upstream owns the lock, and the approval it
\* began is executing and has not run.
Waits(p, x, apps, holder) ==
    /\ x.pc = "upstream" <=> holder = p
    /\ x.pc = "upstream" =>
         /\ x.found \in 1..Len(apps)
         /\ apps[x.found].status = "executing"
         /\ apps[x.found].runs = 0

Upstream == \A p \in Proxies : Waits(p, proxies[p], approvals, lock)

\* What a proxy carries from its lookup to the harness.
Carries(x, apps) ==
    /\ x.pc = "resume" => x.found \in 1..Len(apps)
    /\ x.pc \in {"expire", "find", "handle"} => x.params \in Params

\* A proxy that found nothing: whatever it created for the call before is too
\* old, and will be expired before it creates another approval.
NothingLive(p, x, apps) ==
    x.pc = "handle" =>
      \A a \in 1..Len(apps) :
        apps[a].by = p /\ apps[a].params = x.params /\ IsLive(apps[a])
          => apps[a].due /\ apps[a].status # "executing"

LookedUp(p, x, apps) == Carries(x, apps) /\ NothingLive(p, x, apps)

Lookups == \A p \in Proxies : LookedUp(p, proxies[p], approvals)

\* Only the approval the directory began with was created by none of them.
Inherited == \A a \in 1..Len(approvals) : approvals[a].by = NULL => a = 1

IInv ==
    /\ TypeOK /\ AllSound /\ Upstream /\ Lookups /\ Inherited
    /\ DuplicatesOnlyRaced

\* What no step undoes in an approval.
Evolves(r, s) ==
    /\ s.params = r.params /\ s.by = r.by
    /\ r.due => s.due
    /\ IsLive(s) => IsLive(r)
    /\ r.due /\ s.status = "executing" => r.status = "executing"

LEMMA InitInv == Init => IInv
  <1> SUFFICES ASSUME Init PROVE IInv
    OBVIOUS
  <1> USE ProxyAssumption
  <1>1. \/ approvals = << >>
        \/ \E p \in Params, reserved \in BOOLEAN :
             approvals = <<Held(p, NULL, reserved, TRUE)>>
    BY DEF Init
  <1>2. \/ approvals = << >>
        \/ \E r \in Approval : /\ approvals = <<r>> /\ r.status = "pending"
                               /\ r.runs = 0
    <2>1. ASSUME NEW p \in Params, NEW reserved \in BOOLEAN
          PROVE  /\ Held(p, NULL, reserved, TRUE) \in Approval
                 /\ Held(p, NULL, reserved, TRUE).status = "pending"
                 /\ Held(p, NULL, reserved, TRUE).runs = 0
      BY DEF Held, Approval, Statuses
    <2> QED
      BY <1>1, <2>1
  <1>3. /\ approvals \in Seq(Approval) /\ Len(approvals) \in {0, 1}
        /\ \A a \in 1..Len(approvals) :
             a = 1 /\ approvals[a].status = "pending" /\ approvals[a].runs = 0
    <2>1. CASE approvals = << >>
      BY <2>1
    <2>2. ASSUME NEW r \in Approval, approvals = <<r>>, r.status = "pending",
                 r.runs = 0
          PROVE  approvals[1] = r /\ approvals \in Seq(Approval) /\ Len(approvals) = 1
      BY <2>2
    <2>3. CASE approvals # << >>
      <3>1. PICK r \in Approval : /\ approvals = <<r>> /\ r.status = "pending"
                                  /\ r.runs = 0
        BY <1>2, <2>3
      <3>2. approvals[1] = r /\ approvals \in Seq(Approval) /\ Len(approvals) = 1
        BY <3>1, <2>2
      <3> QED
        BY <3>1, <3>2
    <2> QED
      BY <2>1, <2>3
  <1>4. TypeOK
    BY <1>3 DEF Init, TypeOK, Ready, Proxy, Locations
  <1>5. AllSound /\ Inherited /\ DuplicatesOnlyRaced
    BY <1>3 DEF AllSound, Sound, Inherited, DuplicatesOnlyRaced
  <1>6. Upstream /\ Lookups
    BY ProxyAssumption DEF Init, Upstream, Waits, Lookups, LookedUp, Carries, NothingLive, Ready
  <1> QED
    BY <1>4, <1>5, <1>6 DEF IInv

LEMMA InvImplies ==
    IInv => ApprovalRunsOnce /\ DuplicatesOnlyRaced /\ UnsafeOnlyNamed
  <1> SUFFICES ASSUME IInv
               PROVE  ApprovalRunsOnce /\ UnsafeOnlyNamed
    BY DEF IInv
  <1>1. ApprovalRunsOnce
    BY DEF IInv, AllSound, Sound, ApprovalRunsOnce
  <1>2. UnsafeOnlyNamed
    BY DEF IInv, AllSound, Sound, UnsafeOnlyNamed
  <1> QED
    BY <1>1, <1>2
-----------------------------------------------------------------------------
(* Approvals *)

\* One approval is replaced.
LEMMA Replaced ==
    ASSUME NEW apps \in Seq(Approval), NEW a \in 1..Len(apps), NEW r \in Approval
    PROVE  /\ [apps EXCEPT ![a] = r] \in Seq(Approval)
           /\ Len([apps EXCEPT ![a] = r]) = Len(apps)
           /\ \A b \in 1..Len(apps) :
                [apps EXCEPT ![a] = r][b] = IF b = a THEN r ELSE apps[b]
  OBVIOUS

\* What the expiry of due approvals leaves alone.
Expired(r, s) ==
    /\ s \in Approval /\ Evolves(r, s) /\ (Sound(r) => Sound(s))
    /\ s.status = "executing" <=> r.status = "executing"
    /\ s.runs = r.runs
    /\ s.due /\ IsLive(s) => s.status = "executing"

LEMMA ExpireDueLemma ==
    ASSUME approvals \in Seq(Approval)
    PROVE  /\ ExpireDue(approvals) \in Seq(Approval)
           /\ Len(ExpireDue(approvals)) = Len(approvals)
           /\ \A a \in 1..Len(approvals) :
                Expired(approvals[a], ExpireDue(approvals)[a])
  <1> DEFINE e(a) == IF approvals[a].status \in {"pending", "approved"} /\ approvals[a].due
                     THEN [approvals[a] EXCEPT !.status = "expired", !.reserved = FALSE]
                     ELSE approvals[a]
  <1>1. ASSUME NEW a \in 1..Len(approvals)
        PROVE  Expired(approvals[a], e(a))
    <2>1. approvals[a] \in Approval
      OBVIOUS
    <2>2. e(a) \in Approval
      BY <2>1 DEF Approval, Statuses
    <2> QED
      BY <2>1, <2>2 DEF Expired, Evolves, Sound, IsLive, Approval, Statuses
  <1>2. \A a \in 1..Len(approvals) : e(a) \in Approval
    BY <1>1 DEF Expired
  <1>3. ExpireDue(approvals) = [a \in 1..Len(approvals) |-> e(a)]
    BY DEF ExpireDue
  <1> HIDE DEF e
  <1> QED
    BY <1>1, <1>2, <1>3

\* The part of the invariant that is about approvals, for every step that
\* creates none.
LEMMA ApprovalsKept ==
    ASSUME IInv, approvals' \in Seq(Approval), Len(approvals') = Len(approvals),
           \A b \in 1..Len(approvals) :
             Sound(approvals'[b]) /\ Evolves(approvals[b], approvals'[b])
    PROVE  /\ AllSound' /\ Inherited' /\ DuplicatesOnlyRaced'
           /\ \A q \in Proxies : LookedUp(q, proxies[q], approvals')
  <1>1. AllSound' /\ Inherited'
    BY DEF IInv, AllSound, Inherited, Evolves
  <1>2. DuplicatesOnlyRaced'
    BY DEF IInv, DuplicatesOnlyRaced, Live, Evolves, IsLive
  <1>3. ASSUME NEW q \in Proxies
        PROVE  LookedUp(q, proxies[q], approvals')
    <2>1. Carries(proxies[q], approvals')
      BY DEF IInv, Lookups, LookedUp, Carries
    <2>2. NothingLive(q, proxies[q], approvals')
      BY DEF IInv, Lookups, LookedUp, NothingLive, Evolves, IsLive
    <2> QED
      BY <2>1, <2>2 DEF LookedUp
  <1> QED
    BY <1>1, <1>2, <1>3

LEMMA EvolvesRefl == \A r : Evolves(r, r)
  BY DEF Evolves

LEMMA EvolvesTrans ==
    \A r, s, t : Evolves(r, s) /\ Evolves(s, t) => Evolves(r, t)
  BY DEF Evolves, IsLive

\* A step that creates no approval keeps the invariant if it keeps each approval
\* sound and whoever waits or has looked something up is not disturbed.
LEMMA Moves ==
    ASSUME IInv, TypeOK', Len(approvals') = Len(approvals),
           \A b \in 1..Len(approvals) :
             Sound(approvals'[b]) /\ Evolves(approvals[b], approvals'[b]),
           \A q \in Proxies : /\ Waits(q, proxies'[q], approvals', lock')
                              /\ \/ proxies'[q] = proxies[q]
                                \/ LookedUp(q, proxies'[q], approvals')
    PROVE  IInv'
  <1>1. approvals' \in Seq(Approval)
    BY DEF TypeOK
  <1>2. AllSound' /\ Inherited' /\ DuplicatesOnlyRaced' /\ Lookups'
    BY <1>1, ApprovalsKept DEF Lookups
  <1>3. Upstream'
    BY DEF Upstream
  <1> QED
    BY <1>2, <1>3 DEF IInv

\* A step of a proxy that neither waits nor begins to wait, while nobody's
\* execution is touched.
LEMMA ProxyMoves ==
    ASSUME IInv, NEW p \in Proxies, NEW x \in Proxy,
           proxies' = [proxies EXCEPT ![p] = x],
           approvals' \in Seq(Approval), Len(approvals') = Len(approvals),
           \A b \in 1..Len(approvals) :
             /\ Sound(approvals'[b]) /\ Evolves(approvals[b], approvals'[b])
             /\ approvals[b].status = "executing" /\ lock # NULL =>
                  approvals'[b] = approvals[b],
           UNCHANGED lock, UNCHANGED signed, crashes' \in 0..MaxCrashes,
           proxies[p].pc # "upstream", x.pc # "upstream",
           LookedUp(p, x, approvals')
    PROVE  IInv'
  <1>1. TypeOK'
    BY DEF IInv, TypeOK
  <1>2. \A q \in Proxies : proxies'[q] = IF q = p THEN x ELSE proxies[q]
    BY DEF IInv, TypeOK
  <1>3. \A q \in Proxies : Waits(q, proxies'[q], approvals', lock')
    BY <1>2, ProxyAssumption DEF IInv, Upstream, Waits
  <1>4. \A q \in Proxies : \/ proxies'[q] = proxies[q]
                           \/ LookedUp(q, proxies'[q], approvals')
    BY <1>2
  <1> QED
    BY <1>1, <1>3, <1>4, Moves

\* The same when it leaves the approvals alone.
LEMMA ProxyTurns ==
    ASSUME IInv, NEW p \in Proxies, NEW x \in Proxy,
           proxies' = [proxies EXCEPT ![p] = x],
           UNCHANGED <<approvals, lock, signed, crashes>>,
           proxies[p].pc # "upstream", x.pc # "upstream",
           LookedUp(p, x, approvals)
    PROVE  IInv'
  <1>1. \A b \in 1..Len(approvals) :
          Sound(approvals'[b]) /\ Evolves(approvals[b], approvals'[b])
    BY EvolvesRefl DEF IInv, AllSound
  <1>2. approvals \in Seq(Approval) /\ crashes' \in 0..MaxCrashes
    BY DEF IInv, TypeOK
  <1> QED
    BY <1>1, <1>2, ProxyMoves

\* A step of an operator or of time, or of a proxy that stays where it is.
LEMMA StoreMoves ==
    ASSUME IInv, approvals' \in Seq(Approval), Len(approvals') = Len(approvals),
           \A b \in 1..Len(approvals) :
             /\ Sound(approvals'[b]) /\ Evolves(approvals[b], approvals'[b])
             /\ approvals[b].status = "executing" /\ lock # NULL =>
                  approvals'[b] = approvals[b],
           UNCHANGED <<proxies, lock, signed, crashes>>
    PROVE  IInv'
  <1>1. TypeOK'
    BY DEF IInv, TypeOK
  <1>2. \A q \in Proxies : Waits(q, proxies'[q], approvals', lock')
    BY ProxyAssumption DEF IInv, Upstream, Waits
  <1> QED
    BY <1>1, <1>2, Moves
-----------------------------------------------------------------------------
(* Steps of a proxy that change no approval *)

LEMMA ReadyIsProxy ==
    /\ Ready \in Proxy /\ Ready.pc = "ready"
    /\ [Ready EXCEPT !.pc = "ended"] \in Proxy
    /\ [Ready EXCEPT !.pc = "ended"].pc = "ended"
  BY ProxyAssumption DEF Ready, Proxy, Locations

\* A proxy that is ready or has ended has looked nothing up.
LEMMA IdleLookedUp ==
    ASSUME NEW p, NEW x, NEW apps,
           x.pc \in {"ready", "ended", "refusal", "dedup", "reject", "upstream"}
    PROVE  LookedUp(p, x, apps)
  BY DEF LookedUp, Carries, NothingLive

LEMMA ReplyKeeps ==
    ASSUME IInv, NEW p \in Proxies, proxies[p].pc # "upstream", Reply(p) \/ Die(p),
           UNCHANGED <<approvals, lock, signed, crashes>>
    PROVE  IInv'
  <1>1. PICK x \in Proxy : /\ proxies' = [proxies EXCEPT ![p] = x]
                           /\ x.pc \in {"ready", "ended"}
    BY ReadyIsProxy DEF Reply, Die
  <1>2. LookedUp(p, x, approvals)
    BY <1>1, IdleLookedUp
  <1> QED
    BY <1>1, <1>2, ProxyTurns

LEMMA ReceiveStep ==
    ASSUME IInv, NEW p \in Proxies, NEW params \in Params, Receive(p, params)
    PROVE  IInv'
  <1> DEFINE x == [pc |-> "expire", params |-> params, found |-> 0, dups |-> {}]
  <1>1. x \in Proxy
    BY ProxyAssumption DEF Proxy, Locations
  <1>2. LookedUp(p, x, approvals)
    BY DEF LookedUp, Carries, NothingLive
  <1> QED
    BY <1>1, <1>2, ProxyTurns DEF Receive, At

LEMMA RefuseMethodStep ==
    ASSUME IInv, NEW p \in Proxies, RefuseMethod(p)
    PROVE  IInv'
  <1> DEFINE x == [proxies[p] EXCEPT !.pc = "refusal"]
  <1>1. x \in Proxy /\ x.pc = "refusal"
    BY DEF IInv, TypeOK, Proxy, Locations
  <1>2. proxies' = [proxies EXCEPT ![p] = x]
    BY DEF RefuseMethod, GoTo, IInv, TypeOK
  <1> HIDE DEF x
  <1>3. LookedUp(p, x, approvals)
    BY <1>1, IdleLookedUp
  <1> QED
    BY <1>1, <1>2, <1>3, ProxyTurns DEF RefuseMethod, At

LEMMA AnswerSteps ==
    ASSUME IInv, NEW p \in Proxies,
           AnswerRefusal(p) \/ Ends(p) \/ Answer(p) \/ Restart(p)
    PROVE  IInv'
  BY ReplyKeeps DEF AnswerRefusal, Ends, Answer, Restart, At

LEMMA DecideRefusedStep ==
    ASSUME IInv, NEW p \in Proxies, NEW a \in 1..Len(approvals), DecideRefused(p, a)
    PROVE  IInv'
  BY ReplyKeeps DEF DecideRefused, NextDuplicate, At

LEMMA ListDuplicatesStep ==
    ASSUME IInv, NEW p \in Proxies, ListDuplicates(p)
    PROVE  IInv'
  <1> DEFINE x == [proxies[p] EXCEPT !.pc = "reject", !.dups = Duplicates(p)]
  <1>1. Duplicates(p) \subseteq 1..MaxApprovals
    BY ProxyAssumption DEF Duplicates, IInv, TypeOK
  <1>2. proxies \in [Proxies -> Proxy] /\ proxies[p] \in Proxy
    BY DEF IInv, TypeOK
  <1>3. x \in Proxy /\ x.pc = "reject"
    BY <1>1, <1>2 DEF Proxy, Locations
  <1>4. proxies' = [proxies EXCEPT ![p] = x]
    BY <1>2 DEF ListDuplicates
  <1> HIDE DEF x
  <1>5. LookedUp(p, x, approvals)
    BY <1>3, IdleLookedUp
  <1> QED
    BY <1>3, <1>4, <1>5, ProxyTurns DEF ListDuplicates, At
-----------------------------------------------------------------------------
(* The lookup *)

\* Some positions have a newest one, found by counting down from the end.
LEMMA NewestIn ==
    ASSUME NEW n \in Nat, NEW S, S \subseteq 1..n, S # {}
    PROVE  Newest(S) \in S
  <1> DEFINE Ages == {age \in Nat : n - age \in S}
  <1>1. PICK i \in S : TRUE
    OBVIOUS
  <1>2. n - i \in Ages /\ Ages \subseteq Nat
    BY <1>1
  <1>3. PICK youngest \in Ages : \A age \in Ages : ~ (age < youngest)
    <2> HIDE DEF Ages
    <2>1. \E y \in Ages : \A age \in Ages : <<age, y>> \notin OpToRel(<, Nat)
      BY <1>2, NatLessThanWellFounded, WFMin
    <2> QED
      BY <1>2, <2>1 DEF OpToRel
  <1>4. ASSUME NEW j \in S PROVE j <= n - youngest
    <2>1. n - j \in Ages
      OBVIOUS
    <2> QED
      BY <1>3, <2>1
  <1> QED
    BY <1>3, <1>4 DEF Newest

\* What the lookup finds is an approval of the call that is of interest, and
\* when it finds none the call has no live approval that is still in time.
LEMMA FindLemma ==
    ASSUME IInv, NEW params
    PROVE  /\ FindExisting(params) # 0 =>
                FindExisting(params) \in Matches(params) \cup Compatible(params)
           /\ FindExisting(params) = 0 => Compatible(params) = {}
  <1>1. Matches(params) \subseteq 1..Len(approvals)
    BY DEF Matches
  <1>2. Compatible(params) \subseteq 1..Len(approvals)
    BY DEF Compatible
  <1>3. Len(approvals) \in Nat /\ 0 \notin 1..Len(approvals)
    BY DEF IInv, TypeOK
  <1>4. CASE Matches(params) # {}
    <2>1. Newest(Matches(params)) \in Matches(params)
      BY <1>1, <1>3, <1>4, NewestIn
    <2> QED
      BY <1>1, <1>3, <1>4, <2>1 DEF FindExisting
  <1>5. CASE Matches(params) = {} /\ Compatible(params) # {}
    <2> DEFINE set == Compatible(params)
               best == {a \in set : \A b \in set : Priority(b) <= Priority(a)}
    <2>1. \A a \in set : Priority(a) \in {1, 2, 3}
      BY DEF Compatible, Priority
    <2>2. best # {}
      <3> HIDE DEF set
      <3>1. CASE \E a \in set : Priority(a) = 3
        BY <2>1, <3>1
      <3>2. CASE ~(\E a \in set : Priority(a) = 3) /\ \E a \in set : Priority(a) = 2
        BY <2>1, <3>2
      <3>3. CASE \A a \in set : Priority(a) = 1
        BY <1>5, <3>3 DEF set
      <3> QED
        BY <2>1, <3>1, <3>2, <3>3
    <2>3. Newest(best) \in best
      <3>1. best \subseteq 1..Len(approvals)
        BY <1>2
      <3> HIDE DEF best
      <3> QED
        BY <1>3, <2>2, <3>1, NewestIn
    <2>4. FindExisting(params) = Newest(best)
      BY <1>5 DEF FindExisting, Preferred
    <2> QED
      BY <1>2, <1>3, <2>3, <2>4
  <1>6. CASE Matches(params) = {} /\ Compatible(params) = {}
    BY <1>6 DEF FindExisting
  <1> QED
    BY <1>4, <1>5, <1>6

LEMMA FindStep ==
    ASSUME IInv, NEW p \in Proxies, Find(p)
    PROVE  IInv'
  <1> DEFINE found == FindExisting(proxies[p].params)
  <1>0. /\ proxies \in [Proxies -> Proxy] /\ proxies[p].pc = "find"
        /\ proxies[p] \in Proxy /\ proxies[p].params \in Params
        /\ Len(approvals) \in Nat /\ Len(approvals) <= MaxApprovals
    BY DEF IInv, TypeOK, Find, At, Lookups, LookedUp, Carries
  <1>a. UNCHANGED <<approvals, lock, signed, crashes>>
    BY DEF Find
  <1>1. CASE found = 0
    <2> DEFINE x == [proxies[p] EXCEPT !.pc = "handle"]
    <2>1. x \in Proxy /\ x.pc = "handle" /\ x.params = proxies[p].params
      BY <1>0 DEF Proxy, Locations
    <2>2. proxies' = [proxies EXCEPT ![p] = x]
      BY <1>0, <1>1 DEF Find, GoTo
    <2>3. Compatible(proxies[p].params) = {}
      BY <1>1, FindLemma
    <2>4. ASSUME NEW a \in 1..Len(approvals), IsLive(approvals[a]),
                 approvals[a].params = proxies[p].params
          PROVE  approvals[a].due /\ approvals[a].status # "executing"
      <3>1. a \notin Compatible(proxies[p].params)
        BY <2>3
      <3> QED
        BY <2>4, <3>1 DEF Compatible, IsLive, Unexpired
    <2> HIDE DEF x
    <2>5. LookedUp(p, x, approvals)
      BY <1>0, <2>1, <2>4 DEF LookedUp, Carries, NothingLive
    <2> QED
      BY <1>0, <2>1, <2>2, <2>5, <1>a, ProxyTurns
  <1>2. CASE found # 0 /\ approvals[found].status = "approved"
    <2> DEFINE x == [proxies[p] EXCEPT !.pc = "resume", !.found = found]
    <2>1. found \in 1..Len(approvals)
      <3>1. found \in Matches(proxies[p].params) \cup Compatible(proxies[p].params)
        BY <1>2, FindLemma
      <3> HIDE DEF found
      <3> QED
        BY <3>1 DEF Matches, Compatible
    <2>2. proxies' = [proxies EXCEPT ![p] = x]
      BY <1>0, <1>2 DEF Find
    <2> HIDE DEF found
    <2>3. x \in Proxy /\ x.pc = "resume" /\ x.found = found
      <3>1. found \in 0..MaxApprovals
        BY <1>0, <2>1, ProxyAssumption
      <3> QED
        BY <1>0, <3>1 DEF Proxy, Locations
    <2> HIDE DEF x
    <2>4. LookedUp(p, x, approvals)
      BY <2>1, <2>3 DEF LookedUp, Carries, NothingLive
    <2> QED
      BY <1>0, <2>2, <2>3, <2>4, <1>a, ProxyTurns
  <1>3. CASE found # 0 /\ approvals[found].status # "approved"
    BY <1>0, <1>3, ReplyKeeps DEF Find
  <1> QED
    BY <1>1, <1>2, <1>3
-----------------------------------------------------------------------------
(* Steps through the harness, which expires what is due first *)

LEMMA Expiry ==
    ASSUME IInv
    PROVE  /\ ExpireDue(approvals) \in Seq(Approval)
           /\ Len(ExpireDue(approvals)) = Len(approvals)
           /\ \A a \in 1..Len(approvals) :
                /\ Expired(approvals[a], ExpireDue(approvals)[a])
                /\ ExpireDue(approvals)[a] \in Approval
                /\ Sound(ExpireDue(approvals)[a])
                /\ Evolves(approvals[a], ExpireDue(approvals)[a])
  BY ExpireDueLemma DEF IInv, TypeOK, AllSound, Expired

\* One approval moves on after the expiry.
LEMMA ExpiryReplaced ==
    ASSUME IInv, NEW a \in 1..Len(approvals), NEW r \in Approval,
           Sound(r), Evolves(ExpireDue(approvals)[a], r),
           approvals' = [ExpireDue(approvals) EXCEPT ![a] = r]
    PROVE  /\ approvals' \in Seq(Approval) /\ Len(approvals') = Len(approvals)
           /\ \A b \in 1..Len(approvals) :
                Sound(approvals'[b]) /\ Evolves(approvals[b], approvals'[b])
           /\ approvals'[a] = r
  <1> DEFINE E == ExpireDue(approvals)
  <1>1. E \in Seq(Approval) /\ Len(E) = Len(approvals)
    BY Expiry
  <1>2. \A b \in 1..Len(approvals) :
          Sound(E[b]) /\ Evolves(approvals[b], E[b])
    BY Expiry
  <1> HIDE DEF E
  <1>3. /\ [E EXCEPT ![a] = r] \in Seq(Approval)
        /\ Len([E EXCEPT ![a] = r]) = Len(approvals)
        /\ \A b \in 1..Len(approvals) :
             [E EXCEPT ![a] = r][b] = IF b = a THEN r ELSE E[b]
    BY <1>1, Replaced
  <1>4. approvals' = [E EXCEPT ![a] = r] /\ Evolves(E[a], r)
    BY DEF E
  <1>5. Evolves(approvals[a], r)
    BY <1>2, <1>4, EvolvesTrans
  <1> QED
    BY <1>2, <1>3, <1>4, <1>5

\* The same without the expiry.
LEMMA StoreReplaced ==
    ASSUME IInv, NEW a \in 1..Len(approvals), NEW r \in Approval,
           Sound(r), Evolves(approvals[a], r),
           approvals' = [approvals EXCEPT ![a] = r]
    PROVE  /\ approvals' \in Seq(Approval) /\ Len(approvals') = Len(approvals)
           /\ \A b \in 1..Len(approvals) :
                /\ Sound(approvals'[b]) /\ Evolves(approvals[b], approvals'[b])
                /\ b # a => approvals'[b] = approvals[b]
           /\ approvals'[a] = r
  <1>1. approvals \in Seq(Approval) /\ \A b \in 1..Len(approvals) : Sound(approvals[b])
    BY DEF IInv, TypeOK, AllSound
  <1>2. /\ approvals' \in Seq(Approval) /\ Len(approvals') = Len(approvals)
        /\ \A b \in 1..Len(approvals) :
             approvals'[b] = IF b = a THEN r ELSE approvals[b]
    BY <1>1, Replaced
  <1> QED
    BY <1>1, <1>2, EvolvesRefl

\* A proxy with a record of its own goes on to another place.
LEMMA Went ==
    ASSUME IInv, NEW p \in Proxies, NEW pc \in Locations, GoTo(p, pc)
    PROVE  \E x \in Proxy :
             /\ proxies' = [proxies EXCEPT ![p] = x]
             /\ x.pc = pc /\ x.params = proxies[p].params /\ x.found = proxies[p].found
  <1> DEFINE x == [proxies[p] EXCEPT !.pc = pc]
  <1>1. proxies \in [Proxies -> Proxy] /\ proxies[p] \in Proxy
    BY DEF IInv, TypeOK
  <1>2. x \in Proxy /\ x.pc = pc /\ x.params = proxies[p].params /\ x.found = proxies[p].found
    BY <1>1 DEF Proxy
  <1>3. proxies' = [proxies EXCEPT ![p] = x]
    BY <1>1 DEF GoTo
  <1> QED
    BY <1>2, <1>3

LEMMA ExpireStep ==
    ASSUME IInv, NEW p \in Proxies, Expire(p)
    PROVE  IInv'
  <1>1. /\ proxies[p].pc = "expire" /\ lock = NULL /\ approvals' = ExpireDue(approvals)
        /\ GoTo(p, "find") /\ UNCHANGED <<lock, signed, crashes>>
    BY DEF Expire, At, Free
  <1>2. PICK x \in Proxy : /\ proxies' = [proxies EXCEPT ![p] = x]
                           /\ x.pc = "find" /\ x.params = proxies[p].params
    BY <1>1, Went DEF Locations
  <1>3. LookedUp(p, x, approvals')
    BY <1>1, <1>2 DEF IInv, Lookups, LookedUp, Carries, NothingLive
  <1>4. crashes' \in 0..MaxCrashes
    BY <1>1 DEF IInv, TypeOK
  <1> QED
    BY <1>1, <1>2, <1>3, <1>4, Expiry, ProxyMoves

\* Answers after the expiry: Handle, and the refusal of a resume.
LEMMA ExpireAndReply ==
    ASSUME IInv, NEW p \in Proxies, Handle(p) \/ ResumeRefused(p)
    PROVE  IInv'
  <1>1. /\ proxies[p].pc # "upstream" /\ lock = NULL /\ approvals' = ExpireDue(approvals)
        /\ Reply(p) /\ UNCHANGED <<lock, signed, crashes>>
    BY DEF Handle, ResumeRefused, At, Free
  <1>2. PICK x \in Proxy : proxies' = [proxies EXCEPT ![p] = x] /\ x.pc = "ready"
    BY <1>1, ReadyIsProxy DEF Reply
  <1>3. LookedUp(p, x, approvals')
    BY <1>2, IdleLookedUp
  <1>4. crashes' \in 0..MaxCrashes
    BY <1>1 DEF IInv, TypeOK
  <1> QED
    BY <1>1, <1>2, <1>3, <1>4, Expiry, ProxyMoves

\* An approved approval is live and in time once what is due was expired.
LEMMA ApprovedInTime ==
    ASSUME IInv, NEW a \in 1..Len(approvals),
           ExpireDue(approvals)[a].status = "approved"
    PROVE  /\ ExpireDue(approvals)[a] \in Approval
           /\ ExpireDue(approvals)[a].runs = 0
           /\ ExpireDue(approvals)[a].decider = "operator"
           /\ ~ExpireDue(approvals)[a].due
  BY Expiry DEF Expired, Sound, IsLive

LEMMA ResumeStep ==
    ASSUME IInv, NEW p \in Proxies, Resume(p)
    PROVE  IInv'
  <1> DEFINE a == proxies[p].found
             e == ExpireDue(approvals)[a]
             r == [e EXCEPT !.status = "executing"]
  <1>1. /\ proxies[p].pc = "resume" /\ lock = NULL /\ lock' = p /\ e.status = "approved"
        /\ approvals' = [ExpireDue(approvals) EXCEPT ![a].status = "executing"]
        /\ GoTo(p, "upstream") /\ UNCHANGED <<signed, crashes>>
    BY DEF Resume, At, Free
  <1>2. a \in 1..Len(approvals)
    BY <1>1 DEF IInv, Lookups, LookedUp, Carries
  <1>3. e \in Approval /\ e.runs = 0 /\ e.decider = "operator" /\ ~e.due
    BY <1>1, <1>2, ApprovedInTime
  <1>4. approvals' = [ExpireDue(approvals) EXCEPT ![a] = r]
    BY <1>1, <1>2, Expiry
  <1> HIDE DEF e
  <1>5. /\ r \in Approval /\ r.status = "executing" /\ r.runs = 0
        /\ Sound(r) /\ Evolves(e, r)
    BY <1>1, <1>3 DEF Approval, Statuses, Sound, Evolves, IsLive
  <1> HIDE DEF r, a
  <1>6. /\ approvals' \in Seq(Approval) /\ Len(approvals') = Len(approvals)
        /\ \A b \in 1..Len(approvals) :
             Sound(approvals'[b]) /\ Evolves(approvals[b], approvals'[b])
        /\ approvals'[a] = r
    BY <1>2, <1>4, <1>5, ExpiryReplaced DEF e
  <1>7. PICK x \in Proxy : /\ proxies' = [proxies EXCEPT ![p] = x]
                           /\ x.pc = "upstream" /\ x.found = a
    BY <1>1, Went DEF Locations, a
  <1>8. \A q \in Proxies : proxies'[q] = IF q = p THEN x ELSE proxies[q]
    BY <1>7 DEF IInv, TypeOK
  <1>9. TypeOK'
    BY <1>1, <1>6, <1>7 DEF IInv, TypeOK
  <1>10. \A q \in Proxies : Waits(q, proxies'[q], approvals', lock')
    <2>1. lock = NULL /\ lock' = p
      BY <1>1
    <2>2. Waits(p, x, approvals', lock')
      BY <1>2, <1>5, <1>6, <1>7, <2>1 DEF Waits
    <2>3. ASSUME NEW q \in Proxies, q # p
          PROVE  Waits(q, proxies[q], approvals', lock')
      BY <2>1, <2>3, ProxyAssumption DEF IInv, Upstream, Waits
    <2> QED
      BY <1>8, <2>2, <2>3
  <1>11. LookedUp(p, x, approvals')
    BY <1>7, IdleLookedUp
  <1> QED
    BY <1>6, <1>8, <1>9, <1>10, <1>11, Moves

LEMMA ResumeBlockedStep ==
    ASSUME IInv, NEW p \in Proxies, ResumeBlocked(p)
    PROVE  IInv'
  <1> DEFINE a == proxies[p].found
             e == ExpireDue(approvals)[a]
             r == [e EXCEPT !.status = "consumed", !.reserved = FALSE]
  <1>1. /\ proxies[p].pc = "resume" /\ lock = NULL /\ e.status = "approved"
        /\ approvals' = [ExpireDue(approvals) EXCEPT
                           ![a].status = "consumed", ![a].reserved = FALSE]
        /\ GoTo(p, "dedup") /\ UNCHANGED <<lock, signed, crashes>>
    BY DEF ResumeBlocked, At, Free
  <1>2. a \in 1..Len(approvals)
    BY <1>1 DEF IInv, Lookups, LookedUp, Carries
  <1>3. e \in Approval /\ e.runs = 0 /\ e.decider = "operator" /\ ~e.due
    BY <1>1, <1>2, ApprovedInTime
  <1>4. approvals' = [ExpireDue(approvals) EXCEPT ![a] = r]
    BY <1>1, <1>2, Expiry
  <1> HIDE DEF e
  <1>5. /\ r \in Approval /\ r.status = "consumed" /\ r.reserved = FALSE
        /\ r.runs = e.runs /\ r.decider = e.decider
        /\ r.params = e.params /\ r.by = e.by /\ r.due = e.due
    BY <1>3 DEF Approval, Statuses
  <1> HIDE DEF r, a
  <1>9. Sound(r) /\ Evolves(e, r)
    BY <1>3, <1>5 DEF Sound, Evolves, IsLive
  <1>6. /\ approvals' \in Seq(Approval) /\ Len(approvals') = Len(approvals)
        /\ \A b \in 1..Len(approvals) :
             Sound(approvals'[b]) /\ Evolves(approvals[b], approvals'[b])
    BY <1>2, <1>4, <1>5, <1>9, ExpiryReplaced DEF e
  <1>7. PICK x \in Proxy : proxies' = [proxies EXCEPT ![p] = x] /\ x.pc = "dedup"
    BY <1>1, Went DEF Locations
  <1>8. LookedUp(p, x, approvals') /\ crashes' \in 0..MaxCrashes
    BY <1>1, <1>7, IdleLookedUp DEF IInv, TypeOK
  <1> QED
    BY <1>1, <1>6, <1>7, <1>8, ProxyMoves

LEMMA ResumeOverdueStep ==
    ASSUME IInv, NEW p \in Proxies, ResumeOverdue(p)
    PROVE  IInv'
  <1> DEFINE a == proxies[p].found
             e == ExpireDue(approvals)[a]
             r == [e EXCEPT !.status = "expired", !.due = TRUE, !.late = TRUE]
  <1>1. /\ proxies[p].pc = "resume" /\ lock = NULL /\ e.status = "approved"
        /\ approvals' = [ExpireDue(approvals) EXCEPT
                           ![a].status = "expired", ![a].due = TRUE, ![a].late = TRUE]
        /\ Reply(p) /\ UNCHANGED <<lock, signed, crashes>>
    BY DEF ResumeOverdue, At, Free
  <1>2. a \in 1..Len(approvals)
    BY <1>1 DEF IInv, Lookups, LookedUp, Carries
  <1>3. e \in Approval /\ e.runs = 0 /\ e.decider = "operator" /\ ~e.due
    BY <1>1, <1>2, ApprovedInTime
  <1>4. approvals' = [ExpireDue(approvals) EXCEPT ![a] = r]
    BY <1>1, <1>2, Expiry
  <1> HIDE DEF e
  <1>5. /\ r \in Approval /\ r.status = "expired" /\ r.due = TRUE /\ r.late = TRUE
        /\ r.runs = e.runs /\ r.params = e.params /\ r.by = e.by
    BY <1>3 DEF Approval, Statuses
  <1> HIDE DEF r, a
  <1>6. Sound(r) /\ Evolves(e, r)
    BY <1>3, <1>5 DEF Sound, Evolves, IsLive
  <1>7. /\ approvals' \in Seq(Approval) /\ Len(approvals') = Len(approvals)
        /\ \A b \in 1..Len(approvals) :
             Sound(approvals'[b]) /\ Evolves(approvals[b], approvals'[b])
    BY <1>2, <1>4, <1>5, <1>6, ExpiryReplaced DEF e
  <1>8. PICK x \in Proxy : proxies' = [proxies EXCEPT ![p] = x] /\ x.pc = "ready"
    BY <1>1, ReadyIsProxy DEF Reply
  <1>9. LookedUp(p, x, approvals') /\ crashes' \in 0..MaxCrashes
    BY <1>1, <1>8, IdleLookedUp DEF IInv, TypeOK
  <1> QED
    BY <1>1, <1>7, <1>8, <1>9, ProxyMoves

\* The outcome of the upstream: what waited has run at most now.
LEMMA CompleteStep ==
    ASSUME IInv, NEW p \in Proxies, NEW ran \in BOOLEAN, Complete(p, ran)
    PROVE  IInv'
  <1> DEFINE a == proxies[p].found
             e == approvals[a]
             r == [e EXCEPT !.status = "consumed", !.reserved = FALSE,
                            !.runs = @ + (IF ran THEN 1 ELSE 0)]
  <1>1. /\ proxies[p].pc = "upstream" /\ lock' = NULL
        /\ approvals' = [approvals EXCEPT ![a].status = "consumed",
                                          ![a].reserved = FALSE,
                                          ![a].runs = @ + (IF ran THEN 1 ELSE 0)]
        /\ GoTo(p, "dedup") /\ UNCHANGED <<signed, crashes>>
    BY DEF Complete, At
  <1>2. lock = p /\ a \in 1..Len(approvals) /\ e.status = "executing" /\ e.runs = 0
    BY <1>1 DEF IInv, Upstream, Waits
  <1>3. e \in Approval /\ Sound(e)
    BY <1>2 DEF IInv, TypeOK, AllSound
  <1>4. approvals' = [approvals EXCEPT ![a] = r]
    BY <1>1, <1>2 DEF IInv, TypeOK
  <1> HIDE DEF e
  <1>5. /\ r \in Approval /\ r.status = "consumed" /\ r.reserved = FALSE
        /\ r.runs \in {0, 1} /\ r.decider = e.decider
        /\ r.params = e.params /\ r.by = e.by /\ r.due = e.due
    <2>1. PICK k \in Nat : k \in {0, 1} /\ k = e.runs + (IF ran THEN 1 ELSE 0)
      BY <1>2
    <2> DEFINE s == [e EXCEPT !.status = "consumed", !.reserved = FALSE, !.runs = k]
    <2>2. r = s
      BY <1>3, <2>1 DEF Approval
    <2>3. /\ s \in Approval /\ s.status = "consumed" /\ s.reserved = FALSE
          /\ s.runs = k /\ s.decider = e.decider
          /\ s.params = e.params /\ s.by = e.by /\ s.due = e.due
      BY <1>3 DEF Approval, Statuses
    <2> HIDE DEF r, s
    <2> QED
      BY <2>1, <2>2, <2>3
  <1> HIDE DEF r, a
  <1>6. Sound(r) /\ Evolves(e, r)
    BY <1>2, <1>3, <1>5 DEF Sound, Evolves, IsLive
  <1>7. /\ approvals' \in Seq(Approval) /\ Len(approvals') = Len(approvals)
        /\ \A b \in 1..Len(approvals) :
             Sound(approvals'[b]) /\ Evolves(approvals[b], approvals'[b])
    BY <1>2, <1>4, <1>5, <1>6, StoreReplaced DEF e
  <1>8. PICK x \in Proxy : proxies' = [proxies EXCEPT ![p] = x] /\ x.pc = "dedup"
    BY <1>1, Went DEF Locations
  <1>9. \A q \in Proxies : proxies'[q] = IF q = p THEN x ELSE proxies[q]
    BY <1>8 DEF IInv, TypeOK
  <1>10. TypeOK'
    BY <1>1, <1>7, <1>8 DEF IInv, TypeOK
  <1>11. \A q \in Proxies : Waits(q, proxies'[q], approvals', lock')
    BY <1>1, <1>2, <1>8, <1>9, ProxyAssumption DEF IInv, Upstream, Waits
  <1>12. LookedUp(p, x, approvals')
    BY <1>8, IdleLookedUp
  <1> QED
    BY <1>7, <1>9, <1>10, <1>11, <1>12, Moves

\* A proxy is killed; the upstream may have run what it began.
LEMMA CrashStep ==
    ASSUME IInv, NEW p \in Proxies, NEW ran \in BOOLEAN, Crash(p, ran)
    PROVE  IInv'
  <1> DEFINE a == proxies[p].found
             e == approvals[a]
             r == [e EXCEPT !.runs = @ + 1]
  <1>1. /\ ran => lock = p
        /\ approvals' = IF ran THEN [approvals EXCEPT ![a].runs = @ + 1] ELSE approvals
        /\ lock' = IF lock = p THEN NULL ELSE lock
        /\ Die(p) /\ signed' = signed /\ crashes' = crashes + 1 /\ crashes < MaxCrashes
    BY DEF Crash
  <1>2. /\ approvals' \in Seq(Approval) /\ Len(approvals') = Len(approvals)
        /\ \A b \in 1..Len(approvals) :
             /\ Sound(approvals'[b]) /\ Evolves(approvals[b], approvals'[b])
             /\ lock # p => approvals'[b] = approvals[b]
    <2>1. CASE ~ran
      BY <1>1, <2>1, EvolvesRefl DEF IInv, TypeOK, AllSound
    <2>2. CASE ran
      <3>1. lock = p
        BY <1>1, <2>2
      <3>2. a \in 1..Len(approvals) /\ e.status = "executing" /\ e.runs = 0
        BY <3>1 DEF IInv, Upstream, Waits
      <3>3. e \in Approval /\ Sound(e)
        BY <3>2 DEF IInv, TypeOK, AllSound
      <3>4. approvals' = [approvals EXCEPT ![a] = r]
        BY <1>1, <2>2, <3>2 DEF IInv, TypeOK
      <3> HIDE DEF e
      <3>5. /\ r \in Approval /\ r.status = e.status /\ r.reserved = e.reserved
            /\ r.runs = 1 /\ r.decider = e.decider
            /\ r.params = e.params /\ r.by = e.by /\ r.due = e.due
        BY <3>2, <3>3 DEF Approval, Statuses
      <3> HIDE DEF r, a
      <3>6. Sound(r) /\ Evolves(e, r)
        BY <3>2, <3>3, <3>5 DEF Sound, Evolves, IsLive
      <3> QED
        BY <3>1, <3>2, <3>4, <3>5, <3>6, StoreReplaced DEF e
    <2> QED
      BY <2>1, <2>2
  <1>3. PICK x \in Proxy : proxies' = [proxies EXCEPT ![p] = x] /\ x.pc = "ended"
    BY <1>1, ReadyIsProxy DEF Die
  <1>4. \A q \in Proxies : proxies'[q] = IF q = p THEN x ELSE proxies[q]
    BY <1>3 DEF IInv, TypeOK
  <1>5. TypeOK'
    <2>1. crashes' \in 0..MaxCrashes
      BY <1>1, ProxyAssumption DEF IInv, TypeOK
    <2>2. proxies' \in [Proxies -> Proxy] /\ lock' \in Proxies \cup {NULL}
      BY <1>1, <1>3 DEF IInv, TypeOK
    <2> QED
      BY <1>1, <1>2, <2>1, <2>2 DEF IInv, TypeOK
  <1>6. \A q \in Proxies : Waits(q, proxies'[q], approvals', lock')
    <2>1. Waits(p, x, approvals', lock')
      BY <1>1, <1>3, ProxyAssumption DEF Waits
    <2>2. ASSUME NEW q \in Proxies, q # p
          PROVE  Waits(q, proxies[q], approvals', lock')
      BY <1>1, <1>2, <2>2, ProxyAssumption DEF IInv, Upstream, Waits
    <2> QED
      BY <1>4, <2>1, <2>2
  <1>7. LookedUp(p, x, approvals')
    BY <1>3, IdleLookedUp
  <1> QED
    BY <1>2, <1>4, <1>5, <1>6, <1>7, Moves
-----------------------------------------------------------------------------
(* Operators, time and duplicates *)

\* One approval that nobody executes under the lock moves on.
LEMMA StoreSteps ==
    ASSUME IInv, NEW a \in 1..Len(approvals), NEW r \in Approval,
           approvals' = [approvals EXCEPT ![a] = r],
           Sound(r), Evolves(approvals[a], r),
           approvals[a].status = "executing" => lock = NULL,
           UNCHANGED <<proxies, lock, signed, crashes>>
    PROVE  IInv'
  <1>1. /\ approvals' \in Seq(Approval) /\ Len(approvals') = Len(approvals)
        /\ \A b \in 1..Len(approvals) :
             /\ Sound(approvals'[b]) /\ Evolves(approvals[b], approvals'[b])
             /\ b # a => approvals'[b] = approvals[b]
    BY StoreReplaced
  <1>2. \A b \in 1..Len(approvals) :
          approvals[b].status = "executing" /\ lock # NULL =>
            approvals'[b] = approvals[b]
    BY <1>1
  <1> QED
    BY <1>1, <1>2, StoreMoves

LEMMA RejectDuplicateStep ==
    ASSUME IInv, NEW p \in Proxies, NEW a \in 1..Len(approvals), RejectDuplicate(p, a)
    PROVE  IInv'
  <1> DEFINE e == approvals[a]
             r == [e EXCEPT !.status = "rejected", !.decider = "defiant-dedup"]
             x == [proxies[p] EXCEPT !.dups = @ \ {a}]
  <1>1. e \in Approval /\ Sound(e) /\ e.status = "pending"
    BY DEF IInv, TypeOK, AllSound, RejectDuplicate, Rejectable
  <1>2. /\ approvals' = [approvals EXCEPT ![a] = r]
        /\ proxies' = [proxies EXCEPT ![p] = x]
        /\ proxies[p].pc = "reject" /\ UNCHANGED <<lock, signed, crashes>>
    BY DEF IInv, TypeOK, RejectDuplicate, NextDuplicate, At
  <1>3. x \in Proxy /\ x.pc = "reject"
    <2>1. proxies[p] \in Proxy
      BY DEF IInv, TypeOK
    <2> QED
      BY <1>2, <2>1 DEF Proxy
  <1> HIDE DEF e, x
  <1>4. /\ r \in Approval /\ r.status = "rejected" /\ r.decider = "defiant-dedup"
        /\ r.runs = e.runs /\ r.params = e.params /\ r.by = e.by /\ r.due = e.due
    BY <1>1 DEF Approval, Statuses
  <1> HIDE DEF r
  <1>5. Sound(r) /\ Evolves(e, r)
    BY <1>1, <1>4 DEF Sound, Evolves, IsLive
  <1>6. /\ approvals' \in Seq(Approval) /\ Len(approvals') = Len(approvals)
        /\ \A b \in 1..Len(approvals) :
             /\ Sound(approvals'[b]) /\ Evolves(approvals[b], approvals'[b])
             /\ b # a => approvals'[b] = approvals[b]
    BY <1>2, <1>4, <1>5, StoreReplaced DEF e
  <1>7. \A b \in 1..Len(approvals) :
          approvals[b].status = "executing" /\ lock # NULL =>
            approvals'[b] = approvals[b]
    BY <1>1, <1>6 DEF e
  <1>8. LookedUp(p, x, approvals') /\ crashes' \in 0..MaxCrashes
    BY <1>2, <1>3, IdleLookedUp DEF IInv, TypeOK
  <1> QED
    BY <1>2, <1>3, <1>6, <1>7, <1>8, ProxyMoves

LEMMA ApproveStep ==
    ASSUME IInv, NEW a \in 1..Len(approvals), Approve(a)
    PROVE  IInv'
  <1> DEFINE e == approvals[a]
             r == [e EXCEPT !.status = "approved", !.decider = "operator"]
  <1>1. e \in Approval /\ Sound(e) /\ e.status = "pending" /\ ~e.due
    BY DEF IInv, TypeOK, AllSound, Approve
  <1>2. /\ approvals' = [approvals EXCEPT ![a] = r]
        /\ UNCHANGED <<proxies, lock, signed, crashes>>
    BY DEF IInv, TypeOK, Approve
  <1> HIDE DEF e
  <1>3. /\ r \in Approval /\ r.status = "approved" /\ r.decider = "operator"
        /\ r.runs = e.runs /\ r.params = e.params /\ r.by = e.by /\ r.due = e.due
    BY <1>1 DEF Approval, Statuses
  <1> HIDE DEF r
  <1>4. Sound(r) /\ Evolves(e, r)
    BY <1>1, <1>3 DEF Sound, Evolves, IsLive
  <1> QED
    BY <1>1, <1>2, <1>3, <1>4, StoreSteps DEF e

LEMMA RejectStep ==
    ASSUME IInv, NEW a \in 1..Len(approvals), Reject(a)
    PROVE  IInv'
  <1> DEFINE e == ExpireDue(approvals)[a]
             r == [e EXCEPT !.status = "rejected", !.decider = "operator",
                            !.reserved = FALSE]
  <1>1. e \in Approval /\ e.runs = approvals[a].runs
    BY Expiry DEF Expired
  <1>2. approvals[a].runs = 0
    BY DEF Reject, IInv, AllSound, Sound
  <1>3. /\ approvals' = [ExpireDue(approvals) EXCEPT ![a] = r] /\ lock = NULL
        /\ UNCHANGED <<proxies, lock, signed, crashes>>
    BY Expiry DEF Reject, Free
  <1> HIDE DEF e
  <1>4. /\ r \in Approval /\ r.status = "rejected" /\ r.reserved = FALSE
        /\ r.runs = e.runs /\ r.params = e.params /\ r.by = e.by /\ r.due = e.due
    BY <1>1 DEF Approval, Statuses
  <1> HIDE DEF r
  <1>5. Sound(r) /\ Evolves(e, r)
    BY <1>1, <1>2, <1>4 DEF Sound, Evolves, IsLive
  <1> QED
    BY <1>3, <1>4, <1>5, ExpiryReplaced, StoreMoves DEF e

LEMMA ReconcileStep ==
    ASSUME IInv, NEW a \in 1..Len(approvals), Reconcile(a)
    PROVE  IInv'
  <1> DEFINE e == approvals[a]
             r == [e EXCEPT !.status = "consumed", !.reserved = FALSE]
  <1>1. e \in Approval /\ Sound(e) /\ e.status = "executing" /\ lock = NULL
    BY DEF IInv, TypeOK, AllSound, Reconcile, Free
  <1>2. /\ approvals' = [approvals EXCEPT ![a] = r]
        /\ UNCHANGED <<proxies, lock, signed, crashes>>
    BY DEF IInv, TypeOK, Reconcile
  <1> HIDE DEF e
  <1>3. /\ r \in Approval /\ r.status = "consumed" /\ r.reserved = FALSE
        /\ r.decider = e.decider
        /\ r.runs = e.runs /\ r.params = e.params /\ r.by = e.by /\ r.due = e.due
    BY <1>1 DEF Approval, Statuses
  <1> HIDE DEF r
  <1>4. Sound(r) /\ Evolves(e, r)
    BY <1>1, <1>3 DEF Sound, Evolves, IsLive
  <1> QED
    BY <1>1, <1>2, <1>3, <1>4, StoreSteps DEF e

LEMMA TimePassesStep ==
    ASSUME IInv, NEW a \in 1..Len(approvals), TimePasses(a)
    PROVE  IInv'
  <1> DEFINE e == approvals[a]
             r == [e EXCEPT !.due = TRUE]
  <1>1. /\ e \in Approval /\ Sound(e) /\ ~e.due
        /\ e.status \in {"pending", "approved", "rejected"}
    BY DEF IInv, TypeOK, AllSound, TimePasses
  <1>2. /\ approvals' = [approvals EXCEPT ![a] = r]
        /\ UNCHANGED <<proxies, lock, signed, crashes>>
    BY DEF IInv, TypeOK, TimePasses
  <1> HIDE DEF e
  <1>3. /\ r \in Approval /\ r.status = e.status /\ r.reserved = e.reserved
        /\ r.decider = e.decider /\ r.due = TRUE
        /\ r.runs = e.runs /\ r.params = e.params /\ r.by = e.by
    BY <1>1 DEF Approval, Statuses
  <1> HIDE DEF r
  <1>4. Sound(r) /\ Evolves(e, r)
    BY <1>1, <1>3 DEF Sound, Evolves, IsLive
  <1> QED
    BY <1>1, <1>2, <1>3, <1>4, StoreSteps DEF e
-----------------------------------------------------------------------------
(* A call is held for approval *)

LEMMA HoldStep ==
    ASSUME IInv, NEW p \in Proxies, NEW reserved \in BOOLEAN, Hold(p, reserved)
    PROVE  IInv'
  <1> DEFINE E == ExpireDue(approvals)
             n == Len(approvals)
             h == Held(proxies[p].params, p, reserved, FALSE)
  <1>1. /\ proxies[p].pc = "handle" /\ lock = NULL /\ n < MaxApprovals
        /\ approvals' = Append(E, h)
        /\ Reply(p) /\ UNCHANGED <<lock, signed, crashes>>
    BY DEF Hold, At, Free
  <1>2. /\ E \in Seq(Approval) /\ Len(E) = n /\ n \in Nat
        /\ \A b \in 1..n : /\ Sound(E[b]) /\ Evolves(approvals[b], E[b])
                           /\ E[b].due /\ IsLive(E[b]) => E[b].status = "executing"
    BY Expiry DEF Expired, IInv, TypeOK
  <1>3. proxies[p].params \in Params
    BY <1>1 DEF IInv, Lookups, LookedUp, Carries
  <1>4. /\ h \in Approval /\ h.status = "pending" /\ h.runs = 0 /\ h.by = p
        /\ h.params = proxies[p].params
    BY <1>3 DEF Held, Approval, Statuses
  <1> HIDE DEF E, h
  <1>5. ASSUME NEW b \in 1..n, E[b].by = p, E[b].params = proxies[p].params
        PROVE  ~IsLive(E[b])
    <2>1. NothingLive(p, proxies[p], approvals)
      BY DEF IInv, Lookups, LookedUp
    <2>2. Evolves(approvals[b], E[b])
      BY <1>2
    <2>3. approvals[b].by = p /\ approvals[b].params = proxies[p].params
      BY <1>5, <2>2 DEF Evolves
    <2>4. IsLive(approvals[b]) => approvals[b].due /\ approvals[b].status # "executing"
      BY <1>1, <2>1, <2>3 DEF NothingLive
    <2> QED
      BY <1>2, <2>2, <2>4 DEF Evolves
  <1>6. /\ approvals' \in Seq(Approval) /\ Len(approvals') = n + 1
        /\ \A b \in 1..n : approvals'[b] = E[b]
        /\ approvals'[n + 1] = h
    BY <1>1, <1>2, <1>4
  <1> HIDE DEF n
  <1>a. \A b \in 1..Len(approvals') : b \in 1..n \/ b = n + 1
    BY <1>2, <1>6
  <1>7. AllSound'
    <2>1. Sound(h)
      BY <1>4 DEF Sound
    <2> QED
      BY <1>2, <1>6, <1>a, <2>1 DEF AllSound
  <1>b. \A b \in 1..n : E[b].by = approvals[b].by /\ E[b].params = approvals[b].params
                       /\ (IsLive(E[b]) => IsLive(approvals[b]))
    BY <1>2 DEF Evolves
  <1>8. Inherited'
    <2>1. \A b \in 1..n : approvals[b].by = NULL => b = 1
      BY DEF IInv, Inherited, n
    <2> QED
      BY <1>4, <1>6, <1>a, <1>b, <2>1, ProxyAssumption DEF Inherited
  <1>9. \A b, c \in 1..n :
          b # c /\ IsLive(E[b]) /\ IsLive(E[c]) /\ E[b].params = E[c].params
            => E[b].by # E[c].by
    <2>1. \A b, c \in 1..n :
            b # c /\ IsLive(approvals[b]) /\ IsLive(approvals[c])
              /\ approvals[b].params = approvals[c].params
            => approvals[b].by # approvals[c].by
      BY DEF IInv, DuplicatesOnlyRaced, Live, IsLive, n
    <2> QED
      BY <1>b, <2>1
  <1>10. DuplicatesOnlyRaced'
    BY <1>4, <1>5, <1>6, <1>9, <1>a DEF DuplicatesOnlyRaced, Live, IsLive
  <1>11. PICK x \in Proxy : proxies' = [proxies EXCEPT ![p] = x] /\ x.pc = "ready"
    BY <1>1, ReadyIsProxy DEF Reply
  <1>12. \A q \in Proxies : proxies'[q] = IF q = p THEN x ELSE proxies[q]
    BY <1>11 DEF IInv, TypeOK
  <1>13. TypeOK'
    BY <1>1, <1>2, <1>6, <1>11, ProxyAssumption DEF IInv, TypeOK, n
  <1>14. Upstream'
    BY <1>1, <1>11, <1>12, ProxyAssumption DEF IInv, Upstream, Waits
  <1>15. ASSUME NEW q \in Proxies, q # p
         PROVE  LookedUp(q, proxies[q], approvals')
    <2>1. LookedUp(q, proxies[q], approvals)
      BY DEF IInv, Lookups
    <2>2. Carries(proxies[q], approvals')
      BY <1>2, <1>6, <2>1 DEF LookedUp, Carries, n
    <2>3. NothingLive(q, proxies[q], E)
      <3>1. CASE proxies[q].pc # "handle"
        BY <3>1 DEF NothingLive
      <3>2. CASE proxies[q].pc = "handle"
        <4> SUFFICES ASSUME NEW b \in 1..n, E[b].by = q, E[b].params = proxies[q].params,
                            IsLive(E[b])
                     PROVE  E[b].due /\ E[b].status # "executing"
          BY <1>2 DEF NothingLive
        <4>1. approvals[b].due /\ approvals[b].status # "executing"
          BY <1>b, <2>1, <3>2 DEF LookedUp, NothingLive, n
        <4> QED
          BY <1>2, <4>1 DEF Evolves
      <3> QED
        BY <3>1, <3>2
    <2>4. NothingLive(q, proxies[q], approvals')
      BY <1>2, <1>4, <1>6, <1>15, <2>3 DEF NothingLive
    <2> QED
      BY <2>2, <2>4 DEF LookedUp
  <1>16. LookedUp(p, x, approvals')
    BY <1>11, IdleLookedUp
  <1>17. Lookups'
    BY <1>12, <1>15, <1>16 DEF Lookups
  <1> QED
    BY <1>7, <1>8, <1>10, <1>13, <1>14, <1>17 DEF IInv
-----------------------------------------------------------------------------
(* The theorems *)

LEMMA NextStep == IInv /\ [Next]_vars => IInv'
  <1> SUFFICES ASSUME IInv, [Next]_vars PROVE IInv'
    OBVIOUS
  <1>1. CASE UNCHANGED vars
    BY <1>1 DEF vars, IInv, TypeOK, AllSound, Upstream, Lookups, Inherited,
                DuplicatesOnlyRaced, Live
  <1>2. ASSUME NEW p \in Proxies, NEW params \in Params, Receive(p, params)
        PROVE  IInv'
    BY <1>2, ReceiveStep
  <1>3. ASSUME NEW p \in Proxies, RefuseMethod(p) PROVE IInv'
    BY <1>3, RefuseMethodStep
  <1>4. ASSUME NEW p \in Proxies,
               AnswerRefusal(p) \/ Ends(p) \/ Answer(p) \/ Restart(p)
        PROVE  IInv'
    BY <1>4, AnswerSteps
  <1>5. ASSUME NEW p \in Proxies, Expire(p) PROVE IInv'
    BY <1>5, ExpireStep
  <1>6. ASSUME NEW p \in Proxies, Find(p) PROVE IInv'
    BY <1>6, FindStep
  <1>7. ASSUME NEW p \in Proxies, Handle(p) \/ ResumeRefused(p) PROVE IInv'
    BY <1>7, ExpireAndReply
  <1>8. ASSUME NEW p \in Proxies, NEW reserved \in BOOLEAN, Hold(p, reserved)
        PROVE  IInv'
    BY <1>8, HoldStep
  <1>9. ASSUME NEW p \in Proxies, Resume(p) PROVE IInv'
    BY <1>9, ResumeStep
  <1>10. ASSUME NEW p \in Proxies, ResumeBlocked(p) PROVE IInv'
    BY <1>10, ResumeBlockedStep
  <1>11. ASSUME NEW p \in Proxies, NEW ran \in BOOLEAN, Complete(p, ran) PROVE IInv'
    BY <1>11, CompleteStep
  <1>12. ASSUME NEW p \in Proxies, NEW ran \in BOOLEAN, Crash(p, ran) PROVE IInv'
    BY <1>12, CrashStep
  <1>13. ASSUME NEW p \in Proxies, NEW a \in 1..Len(approvals),
                RejectDuplicate(p, a) \/ DecideRefused(p, a)
         PROVE  IInv'
    BY <1>13, RejectDuplicateStep, DecideRefusedStep
  <1>15. ASSUME NEW p \in Proxies, ListDuplicates(p) \/ ResumeOverdue(p) PROVE IInv'
    BY <1>15, ListDuplicatesStep, ResumeOverdueStep
  <1>14. ASSUME NEW a \in 1..Len(approvals),
                Approve(a) \/ Reject(a) \/ Reconcile(a) \/ TimePasses(a)
         PROVE  IInv'
    BY <1>14, ApproveStep, RejectStep, ReconcileStep, TimePassesStep
  <1> QED
    BY <1>1, <1>2, <1>3, <1>4, <1>5, <1>6, <1>7, <1>8, <1>9, <1>10, <1>11, <1>12,
       <1>13, <1>14, <1>15 DEF Next

LEMMA Invariance == Spec => []IInv
  BY InitInv, NextStep, PTL DEF Spec

\* However many proxies look a call up at once, and wherever they are killed, the
\* upstream runs an approval at most once, and only after an operator approved
\* it: harness.resume reads the status again under the authority lock.
THEOREM RunsOnce == Spec => []ApprovalRunsOnce
  BY Invariance, InvImplies, PTL

\* One proxy never collects two live approvals of one call: _handle_existing
\* finds the first, or it is too old and handle_call expires it.
THEOREM OneLivePerProxy == Spec => []DuplicatesOnlyRaced
  BY Invariance, InvImplies, PTL

\* The approvals that make the audit critical are those that
\* _reject_duplicate_pending rejected and those that begin_execution found
\* overdue: both end an approval without releasing its reservation.
THEOREM CriticalOnlyNamed == Spec => []UnsafeOnlyNamed
  BY Invariance, InvImplies, PTL

-----------------------------------------------------------------------------
(* The session with the upstream: lines in the server's output *)

In(x, s) == \E j \in 1..Len(s) : s[j] = x

Twice(x, s) == \E j, k \in 1..Len(s) : j < k /\ s[j] = x /\ s[k] = x

\* What Append adds, and what it can make double.
LEMMA InAppend ==
    ASSUME NEW S, NEW s \in Seq(S), NEW y \in S, NEW x
    PROVE  /\ Append(s, y) \in Seq(S)
           /\ In(x, Append(s, y)) => In(x, s) \/ x = y
           /\ Twice(x, Append(s, y)) => Twice(x, s) \/ (In(x, s) /\ x = y)
  <1> DEFINE t == Append(s, y)
  <1>1. /\ t \in Seq(S) /\ Len(s) \in Nat /\ Len(t) = Len(s) + 1
        /\ \A j \in 1..Len(s) : t[j] = s[j]
        /\ t[Len(s) + 1] = y
    OBVIOUS
  <1> HIDE DEF t
  <1>2. \A j \in 1..Len(t) : j \in 1..Len(s) \/ j = Len(s) + 1
    BY <1>1
  <1>3. In(x, t) => In(x, s) \/ x = y
    BY <1>1, <1>2 DEF In
  <1>4. ASSUME NEW j \in 1..Len(t), NEW k \in 1..Len(t), j < k, t[j] = x, t[k] = x
        PROVE  Twice(x, s) \/ (In(x, s) /\ x = y)
    <2>1. j \in 1..Len(s)
      BY <1>1, <1>4
    <2>2. CASE k \in 1..Len(s)
      BY <1>1, <1>4, <2>1, <2>2 DEF Twice
    <2>3. CASE k = Len(s) + 1
      BY <1>1, <1>4, <2>1, <2>3 DEF In
    <2> QED
      BY <1>2, <2>2, <2>3
  <1> QED
    BY <1>1, <1>3, <1>4 DEF t, Twice

\* What is left once the first line is read.
LEMMA InTail ==
    ASSUME NEW S, NEW s \in Seq(S), s # << >>, NEW x
    PROVE  /\ Tail(s) \in Seq(S) /\ Head(s) \in S
           /\ In(Head(s), s)
           /\ In(x, Tail(s)) => In(x, s)
           /\ In(x, Tail(s)) /\ x = Head(s) => Twice(x, s)
           /\ Twice(x, Tail(s)) => Twice(x, s)
  <1> DEFINE t == Tail(s)
  <1>1. /\ t \in Seq(S) /\ Len(s) \in Nat /\ Len(s) > 0 /\ Len(t) = Len(s) - 1
        /\ \A j \in 1..Len(t) : t[j] = s[j + 1]
        /\ Head(s) = s[1] /\ s[1] \in S
    OBVIOUS
  <1> HIDE DEF t
  <1>2. \A j \in 1..Len(t) : j + 1 \in 1..Len(s) /\ 1 < j + 1
    BY <1>1
  <1>3. 1 \in 1..Len(s)
    BY <1>1
  <1>4. In(Head(s), s)
    BY <1>1, <1>3 DEF In
  <1>5. In(x, t) => In(x, s)
    BY <1>1, <1>2 DEF In
  <1>6. In(x, t) /\ x = Head(s) => Twice(x, s)
    BY <1>1, <1>2, <1>3 DEF In, Twice
  <1>7. ASSUME NEW j \in 1..Len(t), NEW k \in 1..Len(t), j < k, t[j] = x, t[k] = x
        PROVE  Twice(x, s)
    <2>1. j + 1 < k + 1
      BY <1>7
    <2> QED
      BY <1>1, <1>2, <1>7, <2>1 DEF Twice
  <1> QED
    BY <1>1, <1>4, <1>5, <1>6, <1>7 DEF t, Twice

(***************************************************************************)
(* The inductive invariant.  That a reply which is passed on is a second   *)
(* one is not inductive: an id is forgotten by the proxy's thread, in the  *)
(* finally, or by the reader, after a drop, and each rests on a reply that *)
(* it took off the output some steps before.                               *)
(***************************************************************************)

\* A line is on its way from the server, or two are: in the pipe, or about to be
\* written to it.
OnItsWay(i) == In(i, output) \/ writing = i

TwoOnTheirWay(i) == Twice(i, output) \/ (In(i, output) /\ writing = i)

\* One reply to i has been read: the reader holds it, it is queued, the caller
\* got it, or i was forgotten.  After the reader's end nothing is passed on.
Taken(i) ==
    \/ reader.line = i
    \/ queue[i] = "reply"
    \/ caller.id = i /\ caller.got = "reply"
    \/ i <= caller.id /\ i \notin pending \cup privateIds /\ reader.pc # "ended"

RepliesCounted ==
    \A i \in Ids :
        /\ OnItsWay(i) => i \in received /\ replies[i] > 0
        /\ TwoOnTheirWay(i) => replies[i] > 1
        /\ Taken(i) => replies[i] > 0
        /\ Taken(i) /\ OnItsWay(i) => replies[i] > 1

\* What the reader passes on, or has passed on.
PassedOn(i) == i \in emitted \/ (reader.pc = "emit" /\ reader.line = i)

SecondPassedOn == \A i \in Ids : PassedOn(i) => replies[i] > 1

\* The server has, and gets, only calls that were made.
CallsMade ==
    /\ \A i \in received : i <= caller.id
    /\ \A j \in 1..Len(input) : input[j] <= caller.id

\* A call has its waiter and its private id until it ends; a drop is of a call
\* that ended, and never of one that is still to come.
Waiters ==
    /\ caller.pc # "idle" => caller.id \in pending /\ caller.id \in privateIds
    /\ \A i \in privateIds : i <= caller.id
    /\ reader.pc = "drop" => reader.line \notin pending /\ reader.line <= caller.id

\* Only the reader's end hands out an error.
ErrorsEnd ==
    /\ \A i \in Ids : queue[i] = "transport_error" => reader.pc = "ended"
    /\ caller.got = "transport_error" => reader.pc = "ended"

\* The reader holds a line where it needs one.
Handled ==
    /\ reader.pc \in {"put", "drop"} => reader.line \in Ids
    /\ reader.pc = "emit" => reader.line \in Lines

SessionInv == /\ SessionTypeOK
        /\ RepliesCounted
        /\ SecondPassedOn
        /\ CallsMade
        /\ Waiters
        /\ ErrorsEnd
        /\ Handled

-----------------------------------------------------------------------------
(* The steps *)

LEMMA SentinelsDiffer ==
    /\ MaxCalls \in Nat /\ MaxReplies \in Nat /\ MaxOthers \in Nat
    /\ StdinSize \in Nat \ {0} /\ StdoutSize \in Nat \ {0}
    /\ CLIENT \notin Ids /\ BAD \notin Ids /\ NONE \notin Ids
    /\ NONE # "reply" /\ NONE # "transport_error"
  BY SessionAssumption

LEMMA SessionInitInv == SessionInit => SessionInv
  <1> SUFFICES ASSUME SessionInit PROVE SessionInv
    OBVIOUS
  <1>0. Len(input) = 0 /\ Len(output) = 0
    BY DEF SessionInit
  <1>1. SessionTypeOK
    <2>1. 0 \in 0..MaxCalls /\ 0 \in 0..MaxReplies /\ 0 \in 0..MaxOthers
      BY SentinelsDiffer
    <2>2. /\ input \in Seq(Ids) /\ Len(input) <= StdinSize
          /\ output \in Seq(Lines) /\ Len(output) <= StdoutSize
      BY SentinelsDiffer DEF SessionInit
    <2> QED
      BY <2>1, <2>2 DEF SessionInit, SessionTypeOK
  <1>2. RepliesCounted /\ SecondPassedOn
    <2> SUFFICES ASSUME NEW i \in Ids
                 PROVE  ~OnItsWay(i) /\ ~TwoOnTheirWay(i) /\ ~Taken(i) /\ ~PassedOn(i)
      BY DEF RepliesCounted, SecondPassedOn
    <2>1. i # NONE /\ ~(i <= 0)
      BY SentinelsDiffer DEF Ids
    <2>2. ~In(i, output) /\ ~Twice(i, output)
      BY <1>0 DEF In, Twice
    <2> QED
      BY <2>1, <2>2, SentinelsDiffer
      DEF SessionInit, OnItsWay, TwoOnTheirWay, Taken, PassedOn
  <1>3. CallsMade
    BY <1>0 DEF SessionInit, CallsMade
  <1> QED
    BY <1>1, <1>2, <1>3, SentinelsDiffer
    DEF SessionInit, SessionInv, Waiters, ErrorsEnd, Handled

\* A step that neither writes nor reads a line, and takes and passes on no reply.
LEMMA QuietStep ==
    ASSUME SessionInv, UNCHANGED <<output, writing, replies>>,
           received \subseteq received',
           \A i \in Ids : (Taken(i)' => Taken(i)) /\ (PassedOn(i)' => PassedOn(i))
    PROVE  RepliesCounted' /\ SecondPassedOn'
  BY DEF SessionInv, RepliesCounted, SecondPassedOn, OnItsWay, TwoOnTheirWay

LEMMA CallToolStep == ASSUME SessionInv, CallTool PROVE SessionInv'
  <1>1. /\ caller.pc = "idle" /\ caller.id + 1 \in Ids
        /\ caller' = [pc |-> "write", id |-> caller.id + 1, got |-> NONE]
        /\ pending' = pending \cup {caller.id + 1}
        /\ privateIds' = privateIds \cup {caller.id + 1}
        /\ UNCHANGED <<result, queue, reader, closed, running, input, output, writing,
                       received, replies, others, emitted>>
    BY SentinelsDiffer DEF CallTool, server, pipes, SessionInv, SessionTypeOK, Ids
  <1>2. caller'.pc = "write" /\ caller'.id = caller.id + 1 /\ caller'.got = NONE
    BY <1>1
  <1>3. SessionTypeOK'
    <2>1. caller.id + 1 \in 0..MaxCalls
      BY <1>1, SentinelsDiffer DEF Ids
    <2> QED
      BY <1>1, <2>1 DEF SessionInv, SessionTypeOK
  <1>a. caller.id \in Nat /\ \A i \in Ids : i \in Nat
    BY SentinelsDiffer DEF SessionInv, SessionTypeOK, Ids
  <1>4. \A i \in Ids : (Taken(i)' => Taken(i)) /\ (PassedOn(i)' => PassedOn(i))
    <2>1. \A i \in Ids : i <= caller.id + 1 /\ i # caller.id + 1 => i <= caller.id
      BY <1>a
    <2> QED
      BY <1>1, <1>2, <2>1, SentinelsDiffer DEF Taken, PassedOn
  <1>5. RepliesCounted' /\ SecondPassedOn'
    BY <1>1, <1>4, QuietStep
  <1>7. CallsMade'
    <2>1. \A i \in Ids : i <= caller.id => i <= caller.id + 1
      BY <1>a
    <2>2. received \subseteq Ids /\ \A j \in 1..Len(input) : input[j] \in Ids
      BY DEF SessionInv, SessionTypeOK
    <2> QED
      BY <1>1, <1>2, <2>1, <2>2 DEF SessionInv, CallsMade
  <1>6. Waiters'
    <2>1. caller.id \in Nat /\ \A i \in Ids : i \in Nat
      BY SentinelsDiffer DEF SessionInv, SessionTypeOK, Ids
    <2>2. \A i \in Ids : i <= caller.id => i # caller.id + 1 /\ i <= caller.id + 1
      BY <2>1
    <2>3. \A i \in privateIds' : i <= caller'.id
      BY <1>1, <1>2, <2>1, <2>2 DEF SessionInv, SessionTypeOK, Waiters
    <2>4. reader.pc = "drop" => reader.line \in Ids
      BY DEF SessionInv, Handled
    <2> QED
      BY <1>1, <1>2, <2>2, <2>3, <2>4 DEF SessionInv, Waiters
  <1> QED
    BY <1>1, <1>2, <1>3, <1>5, <1>6, <1>7, SentinelsDiffer
    DEF SessionInv, ErrorsEnd, Handled

LEMMA WriteStep == ASSUME SessionInv, Write PROVE SessionInv'
  <1>1. /\ caller.pc = "write"
        /\ caller'.id = caller.id /\ caller'.got = caller.got
        /\ caller'.pc \in {"wait", "finally"}
        /\ UNCHANGED <<result, pending, privateIds, queue, reader, closed, running, output,
                       writing, received, replies, others, emitted>>
    BY DEF Write, shared, SessionInv, SessionTypeOK
  <1>2. caller.id \in pending /\ pending \subseteq Ids
    BY <1>1 DEF SessionInv, SessionTypeOK, Waiters
  <1>3. /\ input' \in Seq(Ids) /\ Len(input') <= StdinSize
        /\ \A j \in 1..Len(input') : input'[j] <= caller.id
    <2>1. /\ input \in Seq(Ids) /\ Len(input) <= StdinSize
          /\ \A j \in 1..Len(input) : input[j] <= caller.id
      BY DEF SessionInv, SessionTypeOK, CallsMade
    <2>2. CASE input' = input
      BY <2>1, <2>2
    <2>3. CASE input' = Append(input, caller.id) /\ Len(input) < StdinSize
      <3>1. /\ input' \in Seq(Ids) /\ Len(input') = Len(input) + 1 /\ Len(input) \in Nat
            /\ \A j \in 1..Len(input') :
                 input'[j] = IF j = Len(input) + 1 THEN caller.id ELSE input[j]
        BY <1>2, <2>1, <2>3
      <3>2. caller.id <= caller.id /\ Len(input) + 1 <= StdinSize
        BY <1>2, <2>3, <3>1, SentinelsDiffer DEF Ids
      <3>3. \A j \in 1..Len(input') : j = Len(input) + 1 \/ j \in 1..Len(input)
        BY <3>1
      <3> QED
        BY <2>1, <3>1, <3>2, <3>3
    <2> QED
      BY <2>2, <2>3 DEF Write
  <1>4. SessionTypeOK'
    BY <1>1, <1>3 DEF Write, SessionInv, SessionTypeOK
  <1>5. \A i \in Ids : (Taken(i)' => Taken(i)) /\ (PassedOn(i)' => PassedOn(i))
    BY <1>1, <1>2 DEF Taken, PassedOn
  <1>6. RepliesCounted' /\ SecondPassedOn'
    BY <1>1, <1>5, QuietStep
  <1> QED
    BY <1>1, <1>2, <1>3, <1>4, <1>6 DEF SessionInv, CallsMade, Waiters, ErrorsEnd, Handled

LEMMA GetStep == ASSUME SessionInv, Get PROVE SessionInv'
  <1>1. /\ caller.pc = "wait" /\ caller.id \in pending /\ caller.id \in Ids
        /\ caller' = [caller EXCEPT !.pc = "finally", !.got = queue[caller.id]]
        /\ queue' = [queue EXCEPT ![caller.id] = NONE]
        /\ UNCHANGED <<result, pending, privateIds, reader, closed, running, input,
                       output, writing, received, replies, others, emitted>>
    BY DEF Get, server, pipes, SessionInv, SessionTypeOK, Waiters
  <1>2. caller'.pc = "finally" /\ caller'.id = caller.id /\ caller'.got = queue[caller.id]
    BY <1>1 DEF SessionInv, SessionTypeOK
  <1>3. \A i \in Ids : queue'[i] = IF i = caller.id THEN NONE ELSE queue[i]
    BY <1>1 DEF SessionInv, SessionTypeOK
  <1>4. SessionTypeOK'
    BY <1>1 DEF SessionInv, SessionTypeOK
  <1>5. \A i \in Ids : (Taken(i)' => Taken(i)) /\ (PassedOn(i)' => PassedOn(i))
    BY <1>1, <1>2, <1>3, SentinelsDiffer DEF Taken, PassedOn
  <1>6. RepliesCounted' /\ SecondPassedOn'
    BY <1>1, <1>5, QuietStep
  <1> QED
    BY <1>1, <1>2, <1>3, <1>4, <1>6, SentinelsDiffer
    DEF SessionInv, CallsMade, Waiters, ErrorsEnd, Handled

LEMMA TimeoutStep == ASSUME SessionInv, Timeout PROVE SessionInv'
  <1>1. /\ caller.pc = "wait"
        /\ caller'.pc = "finally" /\ caller'.id = caller.id /\ caller'.got = caller.got
        /\ UNCHANGED <<result, pending, privateIds, queue, reader, closed, running, input,
                       output, writing, received, replies, others, emitted>>
    BY DEF Timeout, shared, server, pipes, SessionInv, SessionTypeOK
  <1>2. SessionTypeOK'
    BY <1>1 DEF Timeout, SessionInv, SessionTypeOK
  <1>3. \A i \in Ids : (Taken(i)' => Taken(i)) /\ (PassedOn(i)' => PassedOn(i))
    BY <1>1 DEF Taken, PassedOn
  <1>4. RepliesCounted' /\ SecondPassedOn'
    BY <1>1, <1>3, QuietStep
  <1> QED
    BY <1>1, <1>2, <1>4 DEF SessionInv, CallsMade, Waiters, ErrorsEnd, Handled

\* Where a call is forgotten: its reply was taken, or the reader has ended.
LEMMA FinallyStep == ASSUME SessionInv, Finally PROVE SessionInv'
  <1>1. /\ caller.pc = "finally" /\ caller.id \in Ids /\ caller.id \in privateIds
        /\ caller'.pc = "idle" /\ caller'.id = caller.id /\ caller'.got = caller.got
        /\ pending' = pending \ {caller.id}
        /\ privateIds' = Forget(caller.id, caller.got # NONE)
        /\ UNCHANGED <<queue, reader, closed, running, input, output, writing,
                       received, replies, others, emitted>>
    BY DEF Finally, server, pipes, SessionInv, SessionTypeOK, Waiters
  <1>2. privateIds' \subseteq privateIds /\ (caller.got = NONE => privateIds' = privateIds)
    BY <1>1 DEF Forget
  <1>3. \A i \in privateIds \ privateIds' : i = caller.id
    BY <1>1 DEF Forget
  <1>4. SessionTypeOK'
    <2>1. caller' \in [pc : {"idle", "write", "wait", "finally"}, id : 0..MaxCalls,
                       got : Messages \cup {NONE}]
      BY DEF Finally, SessionInv, SessionTypeOK
    <2>2. result' \in [Ids -> {"reply", "failed", NONE}]
      BY <1>1 DEF Finally, SessionInv, SessionTypeOK
    <2> QED
      BY <1>1, <1>2, <2>1, <2>2 DEF SessionInv, SessionTypeOK
  <1>5. caller.got \in {"reply", "transport_error", NONE}
    BY DEF SessionInv, SessionTypeOK, Messages
  <1>6. ASSUME NEW i \in Ids, Taken(i)' PROVE Taken(i)
    <2>1. CASE reader.line = i \/ queue[i] = "reply" \/ (caller.id = i /\ caller.got = "reply")
      BY <2>1 DEF Taken
    <2>2. CASE i <= caller.id /\ i \notin pending \cup privateIds /\ reader.pc # "ended"
      BY <2>2 DEF Taken
    <2>3. CASE i = caller.id /\ i \notin privateIds' /\ reader.pc # "ended"
      <3>1. caller.got # "transport_error"
        BY <2>3 DEF SessionInv, ErrorsEnd
      <3>2. CASE caller.got = "reply"
        BY <2>3, <3>2 DEF Taken
      <3>3. CASE caller.got = NONE
        <4>1. privateIds' = privateIds
          BY <1>2, <3>3
        <4> QED
          BY <1>1, <2>3, <4>1
      <3> QED
        BY <1>5, <3>1, <3>2, <3>3
    <2> QED
      BY <1>1, <1>3, <1>6, <2>1, <2>2, <2>3 DEF Taken
  <1>a. \A i \in Ids : PassedOn(i)' => PassedOn(i)
    BY <1>1 DEF PassedOn
  <1>7. RepliesCounted' /\ SecondPassedOn'
    BY <1>1, <1>6, <1>a, QuietStep
  <1>8. Waiters'
    BY <1>1, <1>2 DEF SessionInv, Waiters
  <1> QED
    BY <1>1, <1>4, <1>7, <1>8 DEF SessionInv, CallsMade, ErrorsEnd, Handled

\* The end of the server: a line that it was writing is lost.
LEMMA ServerGoneStep ==
    ASSUME SessionInv, ServerGone, closed' \in BOOLEAN,
           UNCHANGED <<caller, result, pending, privateIds, queue, reader, emitted>>
    PROVE  SessionInv'
  <1>1. /\ running' = FALSE /\ input' = << >> /\ writing' = NONE
        /\ UNCHANGED <<output, received, replies, others>>
    BY DEF ServerGone
  <1>2. input' \in Seq(Ids) /\ Len(input') = 0 /\ Len(input') <= StdinSize
    BY <1>1, SentinelsDiffer
  <1>3. SessionTypeOK'
    BY <1>1, <1>2 DEF SessionInv, SessionTypeOK
  <1>4. \A i \in Ids : /\ Taken(i)' => Taken(i)
                       /\ OnItsWay(i)' => OnItsWay(i)
                       /\ TwoOnTheirWay(i)' => TwoOnTheirWay(i)
                       /\ PassedOn(i)' => PassedOn(i)
    BY <1>1, SentinelsDiffer DEF Taken, OnItsWay, TwoOnTheirWay, PassedOn
  <1>5. RepliesCounted' /\ SecondPassedOn'
    BY <1>1, <1>4 DEF SessionInv, RepliesCounted, SecondPassedOn
  <1> QED
    BY <1>1, <1>2, <1>3, <1>5 DEF SessionInv, CallsMade, Waiters, ErrorsEnd, Handled

LEMMA CloseStep == ASSUME SessionInv, Close PROVE SessionInv'
  BY ServerGoneStep DEF Close, shared

\* The head of the output goes to its waiter, is kept for a drop, ends the reader,
\* or is to be passed to the client.
LEMMA ReadStep == ASSUME SessionInv, Read PROVE SessionInv'
  <1> DEFINE line == Head(output)
  <1>1. /\ reader.pc = "read" /\ output # << >> /\ output' = Tail(output)
        /\ UNCHANGED <<caller, result, pending, privateIds, queue, running, closed, input,
                       writing, received, replies, others, emitted>>
    BY DEF Read, ReaderAt, shared
  <1>2. /\ line \in Lines /\ output' \in Seq(Lines) /\ Len(output') <= StdoutSize
        /\ In(line, output)
        /\ \A i : /\ In(i, output') => In(i, output)
                  /\ In(i, output') /\ i = line => Twice(i, output)
                  /\ Twice(i, output') => Twice(i, output)
    <2>1. output \in Seq(Lines) /\ Len(output) <= StdoutSize
      BY DEF SessionInv, SessionTypeOK
    <2>2. Len(Tail(output)) <= StdoutSize
      BY <1>1, <2>1, SentinelsDiffer
    <2> QED
      BY <1>1, <2>1, <2>2, InTail
  <1>3. \/ reader' = [pc |-> "failing", line |-> NONE]
        \/ line \in pending /\ reader' = [pc |-> "put", line |-> line]
        \/ line \in privateIds \ pending /\ reader' = [pc |-> "drop", line |-> line]
        \/ line \notin pending \cup privateIds /\ reader' = [pc |-> "emit", line |-> line]
    BY DEF Read, ReaderGoTo
  <1> HIDE DEF line
  <1>4. SessionTypeOK'
    <2>1. pending \subseteq Ids /\ privateIds \subseteq Ids
      BY DEF SessionInv, SessionTypeOK
    <2>2. reader' \in [pc : {"read", "put", "drop", "emit", "failing", "ended"},
                       line : Lines \cup {NONE}]
      BY <1>2, <1>3
    <2> QED
      BY <1>1, <1>2, <2>2 DEF SessionInv, SessionTypeOK
  <1>5. reader'.pc # "ended" /\ reader'.line \in {NONE, line}
    BY <1>1, <1>3
  <1>6. ASSUME NEW i \in Ids
        PROVE  /\ Taken(i)' => Taken(i) \/ (i = line /\ In(i, output))
               /\ OnItsWay(i)' => OnItsWay(i)
               /\ OnItsWay(i)' /\ i = line => TwoOnTheirWay(i)
               /\ TwoOnTheirWay(i)' => TwoOnTheirWay(i)
    <2>1. CASE reader'.line = i
      BY <1>1, <1>2, <1>5, <2>1, SentinelsDiffer DEF OnItsWay, TwoOnTheirWay
    <2>2. CASE reader'.line # i
      BY <1>1, <1>2, <2>2 DEF Taken, OnItsWay, TwoOnTheirWay
    <2> QED
      BY <2>1, <2>2
  <1>7. RepliesCounted'
    <2> SUFFICES ASSUME NEW i \in Ids
                 PROVE  /\ OnItsWay(i)' => i \in received' /\ replies'[i] > 0
                        /\ TwoOnTheirWay(i)' => replies'[i] > 1
                        /\ Taken(i)' => replies'[i] > 0
                        /\ Taken(i)' /\ OnItsWay(i)' => replies'[i] > 1
      BY DEF RepliesCounted
    <2>1. /\ OnItsWay(i) => i \in received /\ replies[i] > 0
          /\ TwoOnTheirWay(i) => replies[i] > 1
          /\ Taken(i) => replies[i] > 0
          /\ Taken(i) /\ OnItsWay(i) => replies[i] > 1
      BY DEF SessionInv, RepliesCounted
    <2>2. In(i, output) => OnItsWay(i)
      BY DEF OnItsWay
    <2> QED
      BY <1>1, <1>6, <2>1, <2>2
  <1>8. SecondPassedOn'
    <2> SUFFICES ASSUME NEW i \in Ids, PassedOn(i)' PROVE replies[i] > 1
      BY <1>1 DEF SecondPassedOn
    <2>1. CASE i \in emitted
      BY <2>1 DEF SessionInv, SecondPassedOn, PassedOn
    <2>2. CASE i = line /\ line \notin pending \cup privateIds
      <3>1. OnItsWay(i) /\ i \in received
        BY <1>2, <2>2 DEF SessionInv, RepliesCounted, OnItsWay
      <3>2. Taken(i)
        BY <1>1, <2>2, <3>1 DEF Taken, SessionInv, CallsMade
      <3> QED
        BY <3>1, <3>2 DEF SessionInv, RepliesCounted
    <2> QED
      BY <1>1, <1>3, <2>1, <2>2 DEF PassedOn
  <1>9. Waiters' /\ Handled'
    <2>1. pending \subseteq Ids /\ privateIds \subseteq Ids
      BY DEF SessionInv, SessionTypeOK
    <2>2. /\ reader'.pc \in {"put", "drop"} => reader'.line = line /\ line \in Ids
          /\ reader'.pc = "drop" => line \in privateIds \ pending
          /\ reader'.pc = "emit" => reader'.line = line
      BY <1>1, <1>3, <2>1
    <2> QED
      BY <1>1, <1>2, <2>2 DEF SessionInv, Waiters, Handled
  <1>10. ErrorsEnd'
    BY <1>1 DEF SessionInv, ErrorsEnd
  <1>11. CallsMade'
    BY <1>1 DEF SessionInv, CallsMade
  <1> QED
    BY <1>4, <1>7, <1>8, <1>9, <1>10, <1>11 DEF SessionInv

\* What is passed on was held for it.
LEMMA EmitStep == ASSUME SessionInv, Emits PROVE SessionInv'
  <1>1. /\ reader.pc = "emit" /\ reader.line \in Lines
        /\ emitted' \in {emitted, emitted \cup {reader.line}}
        /\ \E pc \in {"read", "failing"} : reader' = [pc |-> pc, line |-> NONE]
        /\ UNCHANGED <<caller, result, pending, privateIds, queue, closed, running, input,
                       output, writing, received, replies, others>>
    BY DEF Emits, Emit, EmitFails, ReaderAt, ReaderGoTo, shared, server, pipes, SessionInv,
           Handled
  <1>2. reader'.pc \in {"read", "failing"} /\ reader'.line = NONE
    BY <1>1
  <1>3. SessionTypeOK'
    BY <1>1 DEF SessionInv, SessionTypeOK
  <1>4. \A i \in Ids : (Taken(i)' => Taken(i)) /\ (PassedOn(i)' => PassedOn(i))
    BY <1>1, <1>2, SentinelsDiffer DEF Taken, PassedOn
  <1>5. RepliesCounted' /\ SecondPassedOn'
    BY <1>1, <1>4, QuietStep
  <1> QED
    BY <1>1, <1>2, <1>3, <1>5 DEF SessionInv, CallsMade, Waiters, ErrorsEnd, Handled

LEMMA PutStep == ASSUME SessionInv, Put PROVE SessionInv'
  <1>1. /\ reader.pc = "put" /\ reader.line \in Ids
        /\ queue' = [queue EXCEPT ![reader.line] = "reply"]
        /\ reader' = [pc |-> "read", line |-> NONE]
        /\ UNCHANGED <<caller, result, pending, privateIds, closed, running, input,
                       output, writing, received, replies, others, emitted>>
    BY DEF Put, ReaderAt, ReaderGoTo, server, pipes, SessionInv, Handled
  <1>2. reader'.pc = "read" /\ reader'.line = NONE
    BY <1>1
  <1>3. \A i \in Ids : queue'[i] = IF i = reader.line THEN "reply" ELSE queue[i]
    BY <1>1 DEF SessionInv, SessionTypeOK
  <1>4. SessionTypeOK'
    BY <1>1 DEF SessionInv, SessionTypeOK, Messages
  <1>5. \A i \in Ids : (Taken(i)' => Taken(i)) /\ (PassedOn(i)' => PassedOn(i))
    BY <1>1, <1>2, <1>3, SentinelsDiffer DEF Taken, PassedOn
  <1>6. RepliesCounted' /\ SecondPassedOn'
    BY <1>1, <1>5, QuietStep
  <1> QED
    BY <1>1, <1>2, <1>3, <1>4, <1>6 DEF SessionInv, CallsMade, Waiters, ErrorsEnd, Handled

\* The other place where a call is forgotten.
LEMMA DropStep == ASSUME SessionInv, Drop PROVE SessionInv'
  <1>1. /\ reader.pc = "drop" /\ reader.line \in Ids
        /\ privateIds' = privateIds \ {reader.line}
        /\ reader' = [pc |-> "read", line |-> NONE]
        /\ UNCHANGED <<caller, result, pending, queue, closed, running, input,
                       output, writing, received, replies, others, emitted>>
    BY DEF Drop, ReaderAt, ReaderGoTo, server, pipes, SessionInv, Handled
  <1>2. reader'.pc = "read" /\ reader'.line = NONE
    BY <1>1
  <1>3. SessionTypeOK'
    BY <1>1 DEF SessionInv, SessionTypeOK
  <1>4. \A i \in Ids : (Taken(i)' => Taken(i)) /\ (PassedOn(i)' => PassedOn(i))
    BY <1>1, <1>2, SentinelsDiffer DEF Taken, PassedOn
  <1>5. RepliesCounted' /\ SecondPassedOn'
    BY <1>1, <1>4, QuietStep
  <1> QED
    BY <1>1, <1>2, <1>3, <1>5 DEF SessionInv, CallsMade, Waiters, ErrorsEnd, Handled

LEMMA EndOfOutputStep == ASSUME SessionInv, EndOfOutput PROVE SessionInv'
  <1>1. /\ reader.pc = "read"
        /\ \E pc \in {"ended", "failing"} : reader' = [pc |-> pc, line |-> NONE]
        /\ UNCHANGED <<caller, result, pending, privateIds, queue, closed, running, input,
                       output, writing, received, replies, others, emitted>>
    BY DEF EndOfOutput, ReaderAt, ReaderGoTo, shared, server, pipes
  <1>2. reader'.pc \in {"ended", "failing"} /\ reader'.line = NONE
    BY <1>1
  <1>3. SessionTypeOK'
    BY <1>1 DEF SessionInv, SessionTypeOK
  <1>4. \A i \in Ids : (Taken(i)' => Taken(i)) /\ (PassedOn(i)' => PassedOn(i))
    BY <1>1, <1>2, SentinelsDiffer DEF Taken, PassedOn
  <1>5. RepliesCounted' /\ SecondPassedOn'
    BY <1>1, <1>4, QuietStep
  <1> QED
    BY <1>1, <1>2, <1>3, <1>5 DEF SessionInv, CallsMade, Waiters, ErrorsEnd, Handled

LEMMA FailPendingStep == ASSUME SessionInv, FailPending PROVE SessionInv'
  <1>1. /\ reader.pc = "failing"
        /\ queue' = [i \in Ids |-> IF i \in pending /\ queue[i] = NONE
                                   THEN "transport_error" ELSE queue[i]]
        /\ reader' = [pc |-> "ended", line |-> NONE]
        /\ UNCHANGED <<caller, result, pending, privateIds, closed, running, input,
                       output, writing, received, replies, others, emitted>>
    BY DEF FailPending, ReaderAt, ReaderGoTo, server, pipes
  <1>2. reader'.pc = "ended" /\ reader'.line = NONE
    BY <1>1
  <1>3. \A i \in Ids : queue'[i] = queue[i] \/ queue'[i] = "transport_error"
    BY <1>1
  <1>4. SessionTypeOK'
    <2>1. queue' \in [Ids -> Messages \cup {NONE}]
      BY <1>1 DEF SessionInv, SessionTypeOK, Messages
    <2> QED
      BY <1>1, <2>1 DEF SessionInv, SessionTypeOK
  <1>5. \A i \in Ids : (Taken(i)' => Taken(i)) /\ (PassedOn(i)' => PassedOn(i))
    BY <1>1, <1>2, <1>3, SentinelsDiffer DEF Taken, PassedOn
  <1>6. RepliesCounted' /\ SecondPassedOn'
    BY <1>1, <1>5, QuietStep
  <1> QED
    BY <1>1, <1>2, <1>4, <1>6 DEF SessionInv, CallsMade, Waiters, ErrorsEnd, Handled

LEMMA ServerReadsStep == ASSUME SessionInv, ServerReads PROVE SessionInv'
  <1>1. /\ input # << >> /\ input' = Tail(input)
        /\ received' = received \cup {Head(input)}
        /\ UNCHANGED <<caller, result, pending, privateIds, queue, reader, running, closed,
                       output, writing, replies, others, emitted>>
    BY DEF ServerReads, shared
  <1>2. /\ input' \in Seq(Ids) /\ Len(input') <= StdinSize /\ Head(input) \in Ids
        /\ Head(input) <= caller.id
        /\ \A j \in 1..Len(input') : input'[j] <= caller.id
    <2>1. /\ input \in Seq(Ids) /\ Len(input) <= StdinSize /\ Len(input) \in Nat
          /\ \A j \in 1..Len(input) : input[j] <= caller.id
      BY DEF SessionInv, SessionTypeOK, CallsMade
    <2>2. /\ Len(input) > 0 /\ input' \in Seq(Ids) /\ Len(input') = Len(input) - 1
          /\ \A j \in 1..Len(input') : input'[j] = input[j + 1]
          /\ Head(input) = input[1] /\ input[1] \in Ids
      BY <1>1, <2>1
    <2>3. 1 \in 1..Len(input) /\ \A j \in 1..Len(input') : j + 1 \in 1..Len(input)
      BY <2>1, <2>2
    <2>4. Len(input') <= StdinSize
      BY <2>1, <2>2, SentinelsDiffer
    <2> QED
      BY <2>1, <2>2, <2>3, <2>4
  <1>3. SessionTypeOK'
    BY <1>1, <1>2 DEF SessionInv, SessionTypeOK
  <1>4. \A i \in Ids : (Taken(i)' => Taken(i)) /\ (PassedOn(i)' => PassedOn(i))
    BY <1>1 DEF Taken, PassedOn
  <1>5. RepliesCounted' /\ SecondPassedOn'
    BY <1>1, <1>4, QuietStep
  <1> QED
    BY <1>1, <1>2, <1>3, <1>5 DEF SessionInv, CallsMade, Waiters, ErrorsEnd, Handled

\* The server answers once more: what was on its way, or was taken before, is now
\* a second reply.
LEMMA AnswerStep == ASSUME SessionInv, NEW a \in Ids, ServerAnswers(a) PROVE SessionInv'
  <1>1. /\ a \in received /\ replies[a] < MaxReplies /\ writing = NONE
        /\ replies' = [replies EXCEPT ![a] = @ + 1] /\ writing' = a
        /\ UNCHANGED <<caller, result, pending, privateIds, queue, reader, running, closed,
                       input, output, received, others, emitted>>
    BY DEF ServerAnswers, shared
  <1>2. \A i \in Ids : /\ OnItsWay(i)' => OnItsWay(i) \/ i = a
                       /\ TwoOnTheirWay(i)' => TwoOnTheirWay(i) \/ (OnItsWay(i) /\ i = a)
                       /\ (Taken(i)' => Taken(i)) /\ (PassedOn(i)' => PassedOn(i))
    BY <1>1 DEF OnItsWay, TwoOnTheirWay, Taken, PassedOn
  <1>3. \A i \in Ids : replies[i] \in Nat
    BY SentinelsDiffer DEF SessionInv, SessionTypeOK
  <1>4. \A i \in Ids : replies'[i] = IF i = a THEN replies[i] + 1 ELSE replies[i]
    BY <1>1 DEF SessionInv, SessionTypeOK
  <1>5. SessionTypeOK'
    <2>1. replies[a] + 1 \in 0..MaxReplies
      BY <1>1, <1>3, SentinelsDiffer
    <2>2. replies' \in [Ids -> 0..MaxReplies] /\ a \in Lines
      BY <1>1, <2>1 DEF SessionInv, SessionTypeOK, Lines
    <2> QED
      BY <1>1, <2>2 DEF SessionInv, SessionTypeOK
  <1>6. RepliesCounted'
    <2> SUFFICES ASSUME NEW i \in Ids
                 PROVE  /\ OnItsWay(i)' => i \in received' /\ replies'[i] > 0
                        /\ TwoOnTheirWay(i)' => replies'[i] > 1
                        /\ Taken(i)' => replies'[i] > 0
                        /\ Taken(i)' /\ OnItsWay(i)' => replies'[i] > 1
      BY DEF RepliesCounted
    <2>1. /\ OnItsWay(i) => i \in received /\ replies[i] > 0
          /\ TwoOnTheirWay(i) => replies[i] > 1
          /\ Taken(i) => replies[i] > 0
          /\ Taken(i) /\ OnItsWay(i) => replies[i] > 1
      BY DEF SessionInv, RepliesCounted
    <2>2. replies[i] \in Nat /\ replies'[i] = IF i = a THEN replies[i] + 1 ELSE replies[i]
      BY <1>3, <1>4
    <2>3. /\ OnItsWay(i)' => OnItsWay(i) \/ i = a
          /\ TwoOnTheirWay(i)' => TwoOnTheirWay(i) \/ (OnItsWay(i) /\ i = a)
          /\ Taken(i)' => Taken(i)
      BY <1>2
    <2> QED
      BY <1>1, <2>1, <2>2, <2>3
  <1>7. SecondPassedOn'
    <2> SUFFICES ASSUME NEW i \in Ids, PassedOn(i)' PROVE replies'[i] > 1
      BY DEF SecondPassedOn
    <2>1. replies[i] > 1
      BY <1>2 DEF SessionInv, SecondPassedOn
    <2> QED
      BY <1>3, <1>4, <2>1
  <1> QED
    BY <1>1, <1>5, <1>6, <1>7 DEF SessionInv, CallsMade, Waiters, ErrorsEnd, Handled

LEMMA OtherStep == ASSUME SessionInv, NEW line \in {CLIENT, BAD}, Other(line) PROVE SessionInv'
  <1>1. /\ others < MaxOthers /\ others' = others + 1 /\ writing' = line
        /\ UNCHANGED <<caller, result, pending, privateIds, queue, reader, running, closed,
                       input, output, received, replies, emitted>>
    BY DEF Other, shared
  <1>2. line \in Lines /\ line \notin Ids
    BY SentinelsDiffer DEF Lines
  <1>3. SessionTypeOK'
    <2>1. others + 1 \in 0..MaxOthers
      BY <1>1, SentinelsDiffer DEF SessionInv, SessionTypeOK
    <2> QED
      BY <1>1, <1>2, <2>1 DEF SessionInv, SessionTypeOK
  <1>4. \A i \in Ids : /\ OnItsWay(i)' => OnItsWay(i)
                       /\ TwoOnTheirWay(i)' => TwoOnTheirWay(i)
                       /\ (Taken(i)' => Taken(i)) /\ (PassedOn(i)' => PassedOn(i))
    BY <1>1, <1>2 DEF OnItsWay, TwoOnTheirWay, Taken, PassedOn
  <1>5. RepliesCounted' /\ SecondPassedOn'
    BY <1>1, <1>4 DEF SessionInv, RepliesCounted, SecondPassedOn
  <1> QED
    BY <1>1, <1>3, <1>5 DEF SessionInv, CallsMade, Waiters, ErrorsEnd, Handled

LEMMA FlushStep == ASSUME SessionInv, Flush PROVE SessionInv'
  <1>1. /\ writing # NONE /\ Len(output) < StdoutSize
        /\ output' = Append(output, writing) /\ writing' = NONE
        /\ UNCHANGED <<caller, result, pending, privateIds, queue, reader, running, closed,
                       input, received, replies, others, emitted>>
    BY DEF Flush, shared
  <1>2. writing \in Lines /\ output \in Seq(Lines)
    BY <1>1 DEF SessionInv, SessionTypeOK
  <1>3. /\ output' \in Seq(Lines)
        /\ \A i : /\ In(i, output') => In(i, output) \/ i = writing
                  /\ Twice(i, output') => Twice(i, output) \/ (In(i, output) /\ i = writing)
    BY <1>1, <1>2, InAppend, ZenonT(60)
  <1>4. SessionTypeOK'
    <2>1. Len(output') <= StdoutSize
      BY <1>1, <1>2, SentinelsDiffer
    <2> QED
      BY <1>1, <1>3, <2>1 DEF SessionInv, SessionTypeOK
  <1>5. \A i \in Ids : /\ OnItsWay(i)' => OnItsWay(i)
                       /\ TwoOnTheirWay(i)' => TwoOnTheirWay(i)
                       /\ (Taken(i)' => Taken(i)) /\ (PassedOn(i)' => PassedOn(i))
    BY <1>1, <1>3, SentinelsDiffer DEF OnItsWay, TwoOnTheirWay, Taken, PassedOn
  <1>6. RepliesCounted' /\ SecondPassedOn'
    BY <1>1, <1>5 DEF SessionInv, RepliesCounted, SecondPassedOn
  <1> QED
    BY <1>1, <1>4, <1>6 DEF SessionInv, CallsMade, Waiters, ErrorsEnd, Handled

LEMMA ExitStep == ASSUME SessionInv, Exit PROVE SessionInv'
  <1>1. closed' \in BOOLEAN
    BY DEF Exit, SessionInv, SessionTypeOK
  <1> QED
    BY <1>1, ServerGoneStep DEF Exit, shared

LEMMA StutterStep == ASSUME SessionInv, UNCHANGED sessionVars PROVE SessionInv'
  <1>1. UNCHANGED <<caller, result, pending, privateIds, queue, reader, running, closed,
                    input, output, writing, received, replies, others, emitted>>
    BY DEF sessionVars
  <1>2. \A i \in Ids : (Taken(i)' => Taken(i)) /\ (PassedOn(i)' => PassedOn(i))
    BY <1>1 DEF Taken, PassedOn
  <1>3. RepliesCounted' /\ SecondPassedOn'
    BY <1>1, <1>2, QuietStep
  <1> QED
    BY <1>1, <1>3 DEF SessionInv, SessionTypeOK, CallsMade, Waiters, ErrorsEnd, Handled

LEMMA SessionInvariance == SessionSpec => []SessionInv
  <1>1. ASSUME SessionInv, [SessionNext]_sessionVars PROVE SessionInv'
    <2>1. CASE Caller
      BY <1>1, <2>1, CallToolStep, WriteStep, GetStep, TimeoutStep, FinallyStep, CloseStep
      DEF Caller
    <2>2. CASE Handles
      BY <1>1, <2>2, ReadStep, PutStep, DropStep, EndOfOutputStep, FailPendingStep
      DEF Handles
    <2>3. CASE Emits
      BY <1>1, <2>3, EmitStep
    <2>4. CASE Server
      BY <1>1, <2>4, ServerReadsStep, AnswerStep, OtherStep, FlushStep, ExitStep DEF Server
    <2>5. CASE UNCHANGED sessionVars
      BY <1>1, <2>5, StutterStep
    <2> QED
      BY <1>1, <2>1, <2>2, <2>3, <2>4, <2>5 DEF SessionNext
  <1> QED
    BY <1>1, SessionInitInv, PTL DEF SessionSpec

-----------------------------------------------------------------------------
(* The theorem *)

\* The reply to a private tools/call reaches the client only as a second answer
\* of the server: call_tool's finally forgets the id only after a reply or the
\* reader's end, and _read_upstream only after it dropped a late one.
THEOREM PrivateRepliesStayPrivate == SessionSpec => []PrivateRepliesKept
  <1>1. SessionInv => PrivateRepliesKept
    BY DEF SessionInv, SecondPassedOn, PassedOn, PrivateRepliesKept
  <1> QED
    BY <1>1, SessionInvariance, PTL

=============================================================================
