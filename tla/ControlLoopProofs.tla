------------------------- MODULE ControlLoopProofs -------------------------
(***************************************************************************)
(* For any sets of actions, operators, estimates and costs and any number  *)
(* of crashes, the control loop keeps its state well-formed and implements *)
(* the lifecycle of an action.  First the ledger it settles its accounts   *)
(* in: called by anyone in any order, it neither loses nor creates money.  *)
(***************************************************************************)
EXTENDS ControlLoopProperties, BudgetLedgerSpec, TLAPS, WellFoundedInduction,
        FiniteSetTheorems

(***************************************************************************)
(* The ledger: every operation keeps its rows well-formed, whatever the    *)
(* amounts.                                                                *)
(***************************************************************************)

\* The last of some positions exists: what _latest_budget_disposition, the
\* reversed(...) scans of the evidence and exposure_for find is a position.
LEMMA LatestIn ==
    ASSUME NEW n \in Nat, NEW S, S \subseteq 1..n, S # {}
    PROVE  Latest(S) \in S
<1> DEFINE T == {k \in Nat : n - k \in S}
<1>1. T \subseteq Nat /\ T # {}
  <2>1. PICK i \in S : TRUE
    OBVIOUS
  <2>2. n - i \in Nat /\ n - (n - i) = i
    BY <2>1
  <2> QED
    BY <2>1, <2>2
<1>2. PICK k \in T : \A l \in T : ~ (l < k)
  <2> HIDE DEF T
  <2>1. \E k \in T : \A l \in T : <<l, k>> \notin OpToRel(<, Nat)
    BY <1>1, NatLessThanWellFounded, WFMin
  <2> QED
    BY <1>1, <2>1 DEF OpToRel
<1>3. k \in Nat /\ n - k \in S
  BY <1>2
<1>4. ASSUME NEW j \in S
      PROVE  j <= n - k
  <2>1. n - j \in Nat /\ n - (n - j) = j
    OBVIOUS
  <2>2. n - j \in T
    BY <2>1
  <2>3. ~ (n - j < k)
    BY <1>2, <2>2
  <2> QED
    BY <1>3, <2>1, <2>3
<1>5. n - k \in S
  BY <1>3
<1> QED
  BY <1>4, <1>5 DEF Latest

-----------------------------------------------------------------------------
(* Appending an entry *)

LEMMA EntryAppended ==
    ASSUME LedgerTypeOK, NEW a \in Actions, NEW e \in Entry
    PROVE  [entries EXCEPT ![a] = Append(@, e)] \in [Actions -> Seq(Entry)]
BY DEF LedgerTypeOK

LEMMA RecordTypes ==
    ASSUME LedgerTypeOK, NEW a \in Actions, NEW kind \in EntryKinds,
           NEW amount \in Nat, Record(a, kind, amount)
    PROVE  entries' \in [Actions -> Seq(Entry)]
<1> DEFINE e == [kind |-> kind, amount |-> amount, reserved |-> 0,
                 after |-> 0, record |-> NoRecord]
<1>1. e \in Entry
  BY DEF Entry, NoRecord
<1>2. entries' = [entries EXCEPT ![a] = Append(@, e)]
  BY DEF Record
<1> HIDE DEF e
<1> QED
  BY <1>1, <1>2, EntryAppended

LEMMA EntryAmount ==
    ASSUME LedgerTypeOK, NEW a \in Actions, NEW kinds,
           EntriesOf(a, kinds) # {}
    PROVE  /\ Latest(EntriesOf(a, kinds)) \in EntriesOf(a, kinds)
           /\ entries[a][Latest(EntriesOf(a, kinds))].amount \in Nat
<1>1. entries[a] \in Seq(Entry)
  BY DEF LedgerTypeOK
<1>2. Len(entries[a]) \in Nat /\ DOMAIN entries[a] = 1..Len(entries[a])
  BY <1>1
<1>3. EntriesOf(a, kinds) \subseteq 1..Len(entries[a])
  BY <1>2 DEF EntriesOf
<1>4. Latest(EntriesOf(a, kinds)) \in EntriesOf(a, kinds)
  BY <1>2, <1>3, LatestIn
<1>5. \A i \in 1..Len(entries[a]) : entries[a][i] \in Entry
  BY <1>1, <1>2
<1> QED
  BY <1>3, <1>4, <1>5 DEF Entry

-----------------------------------------------------------------------------
(* The operations *)

LEMMA ReservationTypes ==
    ASSUME LedgerTypeOK, NEW a \in Actions, NEW amount \in Nat,
           AddReservation(a, amount)
    PROVE  LedgerTypeOK'
<1>1. entries' \in [Actions -> Seq(Entry)]
  BY RecordTypes DEF AddReservation, EntryKinds
<1>2. /\ reservations' = [reservations EXCEPT ![a] = amount]
      /\ held' = held + amount
      /\ totalEstimated' = totalEstimated + amount
      /\ UNCHANGED <<balance, totalSpent, reconciliations>>
  BY DEF AddReservation
<1> QED
  BY <1>1, <1>2 DEF LedgerTypeOK

LEMMA ReleaseTypes ==
    ASSUME LedgerTypeOK, NEW a \in Actions, DropReservation(a)
    PROVE  LedgerTypeOK'
<1>1. reservations[a] \in Nat
  BY DEF LedgerTypeOK
<1>2. entries' \in [Actions -> Seq(Entry)]
  BY <1>1, RecordTypes DEF DropReservation, EntryKinds
<1>3. /\ reservations' = [reservations EXCEPT ![a] = 0]
      /\ held' = held - reservations[a]
      /\ totalEstimated' = totalEstimated - reservations[a]
      /\ UNCHANGED <<balance, totalSpent, reconciliations>>
  BY DEF DropReservation
<1> QED
  BY <1>1, <1>2, <1>3 DEF LedgerTypeOK

LEMMA DebitTypes ==
    ASSUME LedgerTypeOK, NEW a \in Actions, NEW actual \in Nat,
           NEW record \in Nat, Debit(a, actual, record)
    PROVE  LedgerTypeOK'
<1> DEFINE left == Available + reservations[a] - actual
           e == [kind |-> "debit", amount |-> actual,
                 reserved |-> reservations[a],
                 after |-> IF record = NoRecord THEN 0 ELSE left,
                 record |-> record]
<1>1. reservations[a] \in Nat /\ left \in Int
  BY DEF LedgerTypeOK, Available
<1>2. e \in Entry
  <2> HIDE DEF left
  <2> QED
    BY <1>1 DEF Entry, EntryKinds
<1>3. entries' = [entries EXCEPT ![a] = Append(@, e)]
  BY DEF Debit
<1>4. entries' \in [Actions -> Seq(Entry)]
  <2> HIDE DEF e
  <2> QED
    BY <1>2, <1>3, EntryAppended
<1> QED
  BY <1>1, <1>4 DEF Debit, LedgerTypeOK

LEMMA ReconciliationTypes ==
    ASSUME LedgerTypeOK, NEW a \in Actions, NEW expected \in Nat,
           NEW outcome \in Outcomes, NEW by \in Operators,
           NEW authority \in Nat,
           ReconcileReservation(a, expected, outcome, by, authority)
    PROVE  LedgerTypeOK' /\ reconciliations'[a] # NULL
<1>1. CASE UNCHANGED ledgerVars /\ reconciliations[a] # NULL
  BY <1>1 DEF LedgerTypeOK, ledgerVars
<1>2. CASE AddReconciliation(a, expected, outcome, by, authority)
  <2> DEFINE charged == ReconcileCharge(a, expected, outcome)
             released == IF outcome = "not_executed" THEN reservations[a] ELSE 0
             marker == [outcome |-> outcome, by |-> by, expected |-> expected,
                        charged |-> charged, released |-> released,
                        authority |-> authority]
  <2>1. charged \in Nat /\ released \in Nat /\ reservations[a] \in Nat
    BY DEF ReconcileCharge, LedgerTypeOK
  <2> HIDE DEF charged, released
  <2>2. marker \in Marker
    BY <2>1 DEF Marker
  <2>3. entries' \in [Actions -> Seq(Entry)]
    BY <1>2, <2>1, RecordTypes DEF AddReconciliation, EntryKinds, charged, released
  <2>4. reconciliations' = [reconciliations EXCEPT ![a] = marker]
    BY <1>2 DEF AddReconciliation, charged, released
  <2>5. marker # NULL
    BY <2>2, MarkerAssumption
  <2>6. /\ reservations' = [reservations EXCEPT ![a] = 0]
        /\ held' = held - reservations[a]
        /\ balance' = balance - charged
        /\ totalSpent' = totalSpent + charged
        /\ totalEstimated' = totalEstimated - released
    BY <1>2 DEF AddReconciliation, charged, released
  <2> HIDE DEF marker
  <2> QED
    BY <2>1, <2>2, <2>3, <2>4, <2>5, <2>6 DEF LedgerTypeOK
<1> QED
  BY <1>1, <1>2 DEF ReconcileReservation

-----------------------------------------------------------------------------
(***************************************************************************)
(* Sums over finite sets: the total that the ledger adds up anew, whatever *)
(* the order in which it adds.                                             *)
(***************************************************************************)

\* The element a fold takes next.
Picked(s) == CHOOSE x \in s : TRUE

\* The function that the folds of the library iterate, on the sets in D.
Sums(it, w, D) ==
    it = [s \in D |-> IF s = {} THEN 0 ELSE w[Picked(s)] + it[s \ {Picked(s)}]]

Agree(f, g, T) == \A s \in SUBSET T : f[s] = g[s]

Splits(it, w, S) ==
    \A s \in SUBSET S :
        it[s] \in Int /\ \A x \in s : it[s] = w[x] + it[s \ {x}]

\* Natural numbers are well-founded, as a set of pairs.
Below == {p \in Nat \X Nat : p[1] < p[2]}

LEMMA BelowWellFounded == IsWellFoundedOn(Below, Nat)
BY NatLessThanWellFounded DEF OpToRel, Below

\* A set of finite sets has a smallest member.
LEMMA SmallestSet ==
    ASSUME NEW S, IsFiniteSet(S), NEW B, B \subseteq SUBSET S, B # {}
    PROVE  \E s \in B : \A t \in B : ~ (t \subseteq s /\ t # s)
<1>1. IsWellFoundedOn(StrictSubsetOrdering(S), SUBSET S)
  BY FS_StrictSubsetOrderingWellFounded, FS_FiniteSubsetsOfFinite
<1>2. PICK s \in B : \A t \in B : <<t, s>> \notin StrictSubsetOrdering(S)
  BY <1>1, WFMin
<1>3. ASSUME NEW t \in B, t \subseteq s, t # s
      PROVE  FALSE
  <2>1. <<t, s>> \in (SUBSET S) \X (SUBSET S)
    OBVIOUS
  <2>2. <<t, s>>[1] = t /\ <<t, s>>[2] = s
    OBVIOUS
  <2>3. <<t, s>> \in StrictSubsetOrdering(S)
    BY <1>3, <2>1, <2>2 DEF StrictSubsetOrdering
  <2> QED
    BY <1>2, <2>3
<1> QED
  BY <1>3

LEMMA SumsExist ==
    ASSUME NEW S, IsFiniteSet(S), NEW w
    PROVE  \E it : Sums(it, w, SUBSET S)
<1> DEFINE D(n) == {s \in SUBSET S : Cardinality(s) <= n}
           Bad == {n \in Nat : ~ \E it : Sums(it, w, D(n))}
<1>1. \A s \in SUBSET S : IsFiniteSet(s) /\ Cardinality(s) \in Nat
                          /\ Cardinality(s) <= Cardinality(S)
  BY FS_Subset, FS_CardinalityType
<1>2. Bad = {}
  <2> SUFFICES ASSUME Bad # {} PROVE FALSE
    OBVIOUS
  <2>1. Bad \subseteq Nat
    OBVIOUS
  <2>2. PICK n \in Bad : \A m \in Bad : <<m, n>> \notin Below
    <3> HIDE DEF Bad
    <3> QED
      BY <2>1, BelowWellFounded, WFMin
  <2>3. n \in Nat /\ ~ \E it : Sums(it, w, D(n))
    OBVIOUS
  <2>4. CASE n = 0
    <3> DEFINE it == [s \in D(0) |-> 0]
    <3>1. D(0) = {{}}
      <4>1. \A s \in D(0) : s = {}
        BY <1>1, FS_EmptySet
      <4>2. {} \in D(0)
        BY FS_EmptySet
      <4> HIDE DEF D
      <4> QED
        BY <4>1, <4>2
    <3>2. Sums(it, w, D(0))
      <4> HIDE DEF D
      <4> QED
        BY <3>1 DEF Sums
    <3> QED
      BY <2>3, <2>4, <3>2
  <2>5. CASE n # 0
    <3>1. n - 1 \in Nat /\ n - 1 < n
      BY <2>3, <2>5
    <3>2. n - 1 \notin Bad
      <4> SUFFICES ASSUME n - 1 \in Bad PROVE FALSE
        OBVIOUS
      <4>1. <<n - 1, n>> \in Below
        BY <2>3, <3>1 DEF Below
      <4> HIDE DEF Bad
      <4> QED
        BY <2>2, <4>1
    <3>3. PICK g : Sums(g, w, D(n - 1))
      BY <3>1, <3>2
    <3> DEFINE it == [s \in D(n) |-> IF s = {} THEN 0
                                     ELSE w[Picked(s)] + g[s \ {Picked(s)}]]
    <3>4. ASSUME NEW s \in D(n), s # {}
          PROVE  /\ s \ {Picked(s)} \in D(n - 1)
                 /\ it[s \ {Picked(s)}] = g[s \ {Picked(s)}]
      <4> DEFINE t == s \ {Picked(s)}
      <4>1. Picked(s) \in s
        BY <3>4 DEF Picked
      <4>2. /\ s \in SUBSET S /\ Cardinality(s) <= n
            /\ IsFiniteSet(s) /\ Cardinality(s) \in Nat
        BY <1>1
      <4>3. Cardinality(t) = Cardinality(s) - 1
        BY <4>1, <4>2, FS_RemoveElement
      <4>4. t \in D(n - 1) /\ t \in D(n)
        BY <2>3, <4>2, <4>3
      <4>5. it[t] = IF t = {} THEN 0 ELSE w[Picked(t)] + g[t \ {Picked(t)}]
        <5> HIDE DEF D, t
        <5> QED
          BY <4>4
      <4>6. g[t] = IF t = {} THEN 0 ELSE w[Picked(t)] + g[t \ {Picked(t)}]
        <5> HIDE DEF D, t
        <5> QED
          BY <3>3, <4>4 DEF Sums
      <4> QED
        BY <4>4, <4>5, <4>6
    <3>5. Sums(it, w, D(n))
      <4>1. \A s \in D(n) :
              (IF s = {} THEN 0 ELSE w[Picked(s)] + g[s \ {Picked(s)}])
              = (IF s = {} THEN 0 ELSE w[Picked(s)] + it[s \ {Picked(s)}])
        <5> HIDE DEF D, it
        <5> QED
          BY <3>4
      <4> HIDE DEF D
      <4> QED
        BY <4>1 DEF Sums
    <3> QED
      BY <2>3, <3>5
  <2> QED
    BY <2>4, <2>5
<1>3. D(Cardinality(S)) = SUBSET S
  BY <1>1
<1>4. Cardinality(S) \in Nat
  BY FS_CardinalityType
<1> HIDE DEF D
<1> QED
  BY <1>2, <1>3, <1>4

\* The recursion has one solution: the order of the sum and the set it is
\* taken from do not matter.
LEMMA SumsAgree ==
    ASSUME NEW S, IsFiniteSet(S), NEW T, T \subseteq S,
           NEW w, NEW v, \A x \in T : w[x] = v[x],
           NEW f, Sums(f, w, SUBSET S), NEW g, Sums(g, v, SUBSET T)
    PROVE  Agree(f, g, T)
<1> DEFINE B == {s \in SUBSET T : f[s] # g[s]}
<1> SUFFICES ASSUME B # {} PROVE FALSE
  BY DEF Agree
<1>1. PICK s \in B : \A t \in B : ~ (t \subseteq s /\ t # s)
  <2>1. B \subseteq SUBSET S
    OBVIOUS
  <2> HIDE DEF B
  <2> QED
    BY <2>1, SmallestSet
<1>2. s \in SUBSET T /\ s \in SUBSET S /\ f[s] # g[s]
  OBVIOUS
<1> DEFINE c == Picked(s)
<1>3. f[s] = IF s = {} THEN 0 ELSE w[c] + f[s \ {c}]
  BY <1>2 DEF Sums
<1>4. g[s] = IF s = {} THEN 0 ELSE v[c] + g[s \ {c}]
  BY <1>2 DEF Sums
<1>5. s # {}
  BY <1>2, <1>3, <1>4
<1>6. c \in s /\ w[c] = v[c]
  BY <1>2, <1>5 DEF Picked
<1>7. s \ {c} \in SUBSET T /\ s \ {c} \subseteq s /\ s \ {c} # s
  BY <1>2, <1>6
<1>8. f[s \ {c}] = g[s \ {c}]
  <2>1. s \ {c} \notin B
    <3> HIDE DEF B
    <3> QED
      BY <1>1, <1>7
  <2> QED
    BY <1>7, <2>1
<1> QED
  BY <1>2, <1>3, <1>4, <1>5, <1>6, <1>8

\* What the library's sum is.
LEMMA SumIs ==
    ASSUME NEW S, IsFiniteSet(S), NEW w
    PROVE  \E it : Sums(it, w, SUBSET S) /\ SumFunctionOnSet(w, S) = it[S]
<1> DEFINE it == CHOOSE i : Sums(i, w, SUBSET S)
<1>1. Sums(it, w, SUBSET S)
  BY SumsExist
<1>2. SumFunctionOnSet(w, S) = it[S]
  BY DEF SumFunctionOnSet, FoldFunctionOnSet, MapThenFoldSet, Sums, Picked
<1> QED
  BY <1>1, <1>2

LEMMA SumOfNone ==
    ASSUME NEW w
    PROVE  SumFunctionOnSet(w, {}) = 0
<1>1. PICK it : Sums(it, w, SUBSET {}) /\ SumFunctionOnSet(w, {}) = it[{}]
  BY SumIs, FS_EmptySet
<1> QED
  BY <1>1 DEF Sums

LEMMA SumCongruent ==
    ASSUME NEW S, IsFiniteSet(S), NEW w, NEW v, \A x \in S : w[x] = v[x]
    PROVE  SumFunctionOnSet(w, S) = SumFunctionOnSet(v, S)
<1>1. PICK f : Sums(f, w, SUBSET S) /\ SumFunctionOnSet(w, S) = f[S]
  BY SumIs
<1>2. PICK g : Sums(g, v, SUBSET S) /\ SumFunctionOnSet(v, S) = g[S]
  BY SumIs
<1>3. Agree(f, g, S)
  <2>1. S \subseteq S
    OBVIOUS
  <2> QED
    BY <1>1, <1>2, <2>1, SumsAgree
<1> QED
  BY <1>1, <1>2, <1>3 DEF Agree

\* Whichever element is taken out first.
LEMMA SumsSplit ==
    ASSUME NEW S, IsFiniteSet(S), NEW w, \A x \in S : w[x] \in Int,
           NEW it, Sums(it, w, SUBSET S)
    PROVE  Splits(it, w, S)
<1> DEFINE Good(s) == it[s] \in Int /\ \A x \in s : it[s] = w[x] + it[s \ {x}]
           B == {s \in SUBSET S : ~ Good(s)}
<1> SUFFICES ASSUME B # {} PROVE FALSE
  BY DEF Splits
<1>1. PICK s \in B : \A t \in B : ~ (t \subseteq s /\ t # s)
  <2>1. B \subseteq SUBSET S
    OBVIOUS
  <2> HIDE DEF B
  <2> QED
    BY <2>1, SmallestSet
<1>2. s \in SUBSET S /\ ~ Good(s)
  OBVIOUS
<1>3. ASSUME NEW t \in SUBSET s, t # s
      PROVE  Good(t)
  <2>1. t \notin B
    <3> HIDE DEF B
    <3> QED
      BY <1>1, <1>3
  <2>2. t \in SUBSET S
    BY <1>2
  <2> HIDE DEF Good
  <2> QED
    BY <2>1, <2>2
<1> DEFINE c == Picked(s)
<1>4. it[s] = IF s = {} THEN 0 ELSE w[c] + it[s \ {c}]
  BY <1>2 DEF Sums
<1>5. CASE s = {}
  BY <1>2, <1>4, <1>5
<1>6. CASE s # {}
  <2>1. c \in s
    BY <1>6 DEF Picked
  <2> HIDE DEF c
  <2>2. it[s] = w[c] + it[s \ {c}] /\ Good(s \ {c}) /\ w[c] \in Int
    BY <1>2, <1>3, <1>4, <1>6, <2>1
  <2>3. it[s] \in Int
    BY <2>2
  <2>4. ASSUME NEW x \in s
        PROVE  it[s] = w[x] + it[s \ {x}]
    <3>1. CASE x = c
      BY <2>2, <3>1
    <3>2. CASE x # c
      <4>1. x \in s \ {c} /\ c \in s \ {x}
        BY <2>1, <3>2
      <4>2. Good(s \ {x}) /\ Good((s \ {c}) \ {x})
        BY <1>3, <2>1
      <4>3. (s \ {c}) \ {x} = (s \ {x}) \ {c}
        OBVIOUS
      <4>4. it[s \ {c}] = w[x] + it[(s \ {c}) \ {x}]
        BY <2>2, <4>1
      <4>5. it[s \ {x}] = w[c] + it[(s \ {c}) \ {x}]
        BY <4>1, <4>2, <4>3
      <4>6. w[x] \in Int /\ w[c] \in Int /\ it[(s \ {c}) \ {x}] \in Int
        BY <1>2, <2>2, <4>2
      <4> QED
        BY <2>2, <4>4, <4>5, <4>6
    <3> QED
      BY <3>1, <3>2
  <2> QED
    BY <1>2, <2>3, <2>4
<1> QED
  BY <1>5, <1>6

\* One element and the rest.
LEMMA SumSplit ==
    ASSUME NEW S, IsFiniteSet(S), NEW w, \A x \in S : w[x] \in Int, NEW x \in S
    PROVE  /\ SumFunctionOnSet(w, S) = w[x] + SumFunctionOnSet(w, S \ {x})
           /\ SumFunctionOnSet(w, S \ {x}) \in Int
<1> DEFINE T == S \ {x}
<1>1. IsFiniteSet(T) /\ T \subseteq S
  BY FS_RemoveElement
<1>2. PICK f : Sums(f, w, SUBSET S) /\ SumFunctionOnSet(w, S) = f[S]
  BY SumIs
<1>3. PICK g : Sums(g, w, SUBSET T) /\ SumFunctionOnSet(w, T) = g[T]
  BY <1>1, SumIs
<1> HIDE DEF T
<1>4. f[T] = g[T]
  <2>1. \A y \in T : w[y] = w[y]
    OBVIOUS
  <2>2. Agree(f, g, T)
    BY <1>1, <1>2, <1>3, <2>1, SumsAgree
  <2> QED
    BY <2>2 DEF Agree
<1>5. f[S] = w[x] + f[T] /\ f[T] \in Int
  <2>1. Splits(f, w, S)
    BY <1>2, SumsSplit
  <2> QED
    BY <1>1, <2>1 DEF T, Splits
<1> USE DEF T
<1> QED
  BY <1>2, <1>3, <1>4, <1>5

LEMMA SumType ==
    ASSUME NEW S, IsFiniteSet(S), NEW w, \A x \in S : w[x] \in Int
    PROVE  SumFunctionOnSet(w, S) \in Int
<1>1. PICK f : Sums(f, w, SUBSET S) /\ SumFunctionOnSet(w, S) = f[S]
  BY SumIs
<1>2. Splits(f, w, S)
  BY <1>1, SumsSplit
<1> QED
  BY <1>1, <1>2 DEF Splits

\* One value changes: the sum changes by as much.
LEMMA SumChanges ==
    ASSUME NEW S, IsFiniteSet(S), NEW w, \A x \in S : w[x] \in Int,
           NEW v, NEW x \in S, v[x] \in Int, \A y \in S \ {x} : v[y] = w[y]
    PROVE  SumFunctionOnSet(v, S) = SumFunctionOnSet(w, S) + v[x] - w[x]
<1>1. SumFunctionOnSet(w, S \ {x}) = SumFunctionOnSet(v, S \ {x})
  BY SumCongruent, FS_RemoveElement
<1>2. \A y \in S : v[y] \in Int
  OBVIOUS
<1>3. /\ SumFunctionOnSet(w, S) = w[x] + SumFunctionOnSet(w, S \ {x})
      /\ SumFunctionOnSet(w, S \ {x}) \in Int
  BY SumSplit
<1>4. SumFunctionOnSet(v, S) = v[x] + SumFunctionOnSet(v, S \ {x})
  BY <1>2, SumSplit
<1> QED
  BY <1>1, <1>3, <1>4

\* The amounts of some rows of a log.
LEMMA AmountsAreSum ==
    ASSUME NEW S, IsFiniteSet(S), NEW rows, NEW w, \A i \in S : w[i] = rows[i].amount
    PROVE  MapThenSumSet(LAMBDA i : rows[i].amount, S) = SumFunctionOnSet(w, S)
<1> DEFINE Adds(it) ==
             it = [s \in SUBSET S |->
                     IF s = {} THEN 0
                     ELSE rows[Picked(s)].amount + it[s \ {Picked(s)}]]
           f == CHOOSE it : Adds(it)
<1>1. MapThenSumSet(LAMBDA i : rows[i].amount, S) = f[S]
  BY DEF MapThenSumSet, MapThenFoldSet, Picked
<1>2. PICK g : Sums(g, w, SUBSET S) /\ SumFunctionOnSet(w, S) = g[S]
  BY SumIs
<1>3. ASSUME NEW it
      PROVE  Adds(it) <=> Sums(it, w, SUBSET S)
  <2>1. \A s \in SUBSET S : s # {} => w[Picked(s)] = rows[Picked(s)].amount
    BY DEF Picked
  <2>2. \A s \in SUBSET S :
           (IF s = {} THEN 0 ELSE rows[Picked(s)].amount + it[s \ {Picked(s)}])
           = (IF s = {} THEN 0 ELSE w[Picked(s)] + it[s \ {Picked(s)}])
    BY <2>1
  <2> QED
    BY <2>2 DEF Sums
<1>4. Adds(f)
  <2>1. \E it : Adds(it)
    <3> HIDE DEF Adds
    <3> QED
      BY <1>2, <1>3
  <2> HIDE DEF Adds
  <2> QED
    BY <2>1
<1>5. Sums(f, w, SUBSET S)
  <2> HIDE DEF Adds, f
  <2> QED
    BY <1>3, <1>4
<1>6. f[S] = g[S]
  <2>1. S \subseteq S /\ \A i \in S : w[i] = w[i]
    OBVIOUS
  <2> HIDE DEF Adds, f
  <2>2. Agree(f, g, S)
    BY <1>2, <1>5, <2>1, SumsAgree
  <2> QED
    BY <2>2 DEF Agree
<1> HIDE DEF f
<1> QED
  BY <1>1, <1>2, <1>6

-----------------------------------------------------------------------------
(***************************************************************************)
(* The ledger on its own: what its sums are and how a call changes them.   *)
(***************************************************************************)

\* The amounts of the rows of some kinds.
RowsSum(rows, kinds) ==
    MapThenSumSet(LAMBDA i : rows[i].amount,
                  {i \in DOMAIN rows : rows[i].kind \in kinds})

LEMMA RowsSumType ==
    ASSUME NEW rows \in Seq(Entry), NEW kinds
    PROVE  RowsSum(rows, kinds) \in Int
<1> DEFINE S == {i \in DOMAIN rows : rows[i].kind \in kinds}
           w == [i \in DOMAIN rows |-> rows[i].amount]
<1>1. IsFiniteSet(DOMAIN rows) /\ \A i \in DOMAIN rows : rows[i].amount \in Int
  <2>1. DOMAIN rows = 1..Len(rows) /\ Len(rows) \in Nat
    OBVIOUS
  <2>2. \A i \in 1..Len(rows) : rows[i] \in Entry
    OBVIOUS
  <2>3. IsFiniteSet(1..Len(rows))
    BY <2>1, FS_Interval
  <2> QED
    BY <2>1, <2>2, <2>3 DEF Entry
<1>2. IsFiniteSet(S)
  <2>1. S \subseteq DOMAIN rows
    OBVIOUS
  <2> HIDE DEF S
  <2> QED
    BY <1>1, <2>1, FS_Subset
<1>3. \A i \in S : w[i] = rows[i].amount /\ w[i] \in Int
  BY <1>1
<1> HIDE DEF w
<1>4. MapThenSumSet(LAMBDA i : rows[i].amount, S) = SumFunctionOnSet(w, S)
  <2> HIDE DEF S
  <2> QED
    BY <1>2, <1>3, AmountsAreSum
<1>5. SumFunctionOnSet(w, S) \in Int
  <2> HIDE DEF S
  <2> QED
    BY <1>2, <1>3, SumType
<1> QED
  BY <1>4, <1>5 DEF RowsSum

\* One row more: the sum grows by its amount.
LEMMA RowAdded ==
    ASSUME NEW rows \in Seq(Entry), NEW e \in Entry, NEW kinds
    PROVE  RowsSum(Append(rows, e), kinds)
             = RowsSum(rows, kinds) + IF e.kind \in kinds THEN e.amount ELSE 0
<1> DEFINE n == Len(rows) + 1
           more == Append(rows, e)
           S == {i \in DOMAIN rows : rows[i].kind \in kinds}
           T == {i \in DOMAIN more : more[i].kind \in kinds}
           w == [i \in 1..n |-> more[i].amount]
<1>1. /\ DOMAIN rows = 1..(n - 1) /\ DOMAIN more = 1..n /\ n \in Nat \ {0}
      /\ n - 1 \in Nat
      /\ \A i \in 1..(n - 1) : more[i] = rows[i] /\ rows[i] \in Entry
      /\ more[n] = e
  OBVIOUS
<1> HIDE DEF more, n
<1>2. \A i \in 1..n : w[i] = more[i].amount /\ w[i] \in Int
  <2>1. \A i \in 1..n : more[i] \in Entry
    BY <1>1
  <2> QED
    BY <2>1 DEF Entry
<1>3. w[n] = e.amount
  BY <1>1
<1> HIDE DEF w
<1>4. /\ S \subseteq 1..(n - 1) /\ S \subseteq 1..n /\ T \subseteq 1..n
      /\ IF e.kind \in kinds THEN n \in T /\ T \ {n} = S ELSE T = S
  <2>1. S \subseteq 1..(n - 1) /\ S \subseteq 1..n /\ T \subseteq 1..n
    BY <1>1
  <2>2. \A i \in 1..(n - 1) : i \in T <=> i \in S
    BY <1>1
  <2>3. n \in T <=> e.kind \in kinds
    BY <1>1
  <2>4. \A i \in 1..n : i = n \/ i \in 1..(n - 1)
    BY <1>1
  <2>5. n \notin 1..(n - 1)
    BY <1>1
  <2> HIDE DEF S, T
  <2>6. T \ {n} = S
    <3>1. \A i \in T \ {n} : i \in S
      BY <2>1, <2>2, <2>4
    <3>2. \A i \in S : i \in T /\ i # n
      BY <2>1, <2>2, <2>5
    <3> QED
      BY <3>1, <3>2
  <2>7. n \notin T => T \ {n} = T
    OBVIOUS
  <2> QED
    BY <2>1, <2>3, <2>6, <2>7
<1>5. IsFiniteSet(S) /\ IsFiniteSet(T)
  <2>1. IsFiniteSet(1..n)
    BY <1>1, FS_Interval
  <2> HIDE DEF S, T
  <2> QED
    BY <1>4, <2>1, FS_Subset
<1>6. RowsSum(rows, kinds) = SumFunctionOnSet(w, S)
  <2>1. \A i \in S : w[i] = rows[i].amount
    BY <1>1, <1>2
  <2>2. MapThenSumSet(LAMBDA i : rows[i].amount, S) = SumFunctionOnSet(w, S)
    <3> HIDE DEF S
    <3> QED
      BY <1>5, <2>1, AmountsAreSum
  <2> QED
    BY <2>2 DEF RowsSum
<1>7. RowsSum(more, kinds) = SumFunctionOnSet(w, T)
  <2>1. \A i \in T : w[i] = more[i].amount
    BY <1>1, <1>2
  <2>2. MapThenSumSet(LAMBDA i : more[i].amount, T) = SumFunctionOnSet(w, T)
    <3> HIDE DEF T
    <3> QED
      BY <1>5, <2>1, AmountsAreSum
  <2> QED
    BY <2>2 DEF RowsSum
<1>8. SumFunctionOnSet(w, T)
        = SumFunctionOnSet(w, S) + IF e.kind \in kinds THEN e.amount ELSE 0
  <2>1. \A i \in T : w[i] \in Int
    BY <1>1, <1>2
  <2>2. SumFunctionOnSet(w, S) \in Int
    <3>1. \A i \in S : w[i] \in Int
      BY <1>2, <1>4
    <3> HIDE DEF S
    <3> QED
      BY <1>5, <3>1, SumType
  <2> HIDE DEF S, T
  <2>3. CASE e.kind \in kinds
    <3>1. n \in T /\ T \ {n} = S
      BY <1>4, <2>3
    <3>2. SumFunctionOnSet(w, T) = w[n] + SumFunctionOnSet(w, T \ {n})
      BY <1>5, <2>1, <3>1, SumSplit
    <3>3. SumFunctionOnSet(w, T) = w[n] + SumFunctionOnSet(w, S)
      BY <3>1, <3>2
    <3>4. e.amount \in Int
      BY DEF Entry
    <3> QED
      BY <1>3, <2>2, <2>3, <3>3, <3>4
  <2>4. CASE e.kind \notin kinds
    BY <1>4, <2>2, <2>4
  <2> QED
    BY <2>3, <2>4
<1> QED
  BY <1>6, <1>7, <1>8 DEF more

\* What has left the balance, and what is left of the estimates, on account of
\* an action with these rows and this marker.
ChargeOf(rows, marker) ==
    RowsSum(rows, {"debit"}) + IF marker = NULL THEN 0 ELSE marker.charged

EstimateOf(rows, marker) ==
    RowsSum(rows, {"reserve"}) - RowsSum(rows, {"release"})
    - IF marker = NULL THEN 0 ELSE marker.released

\* What every writing operation of the ledger does to the totals: it takes
\* "spent" from the balance, adds "estimated" to the estimates and holds
\* "amount" for a, and a's own rows and marker say the same.
Accounts(a, spent, estimated, amount) ==
    /\ totalSpent' = totalSpent + spent
    /\ balance' = balance - spent
    /\ totalEstimated' = totalEstimated + estimated
    /\ reservations' = [reservations EXCEPT ![a] = amount]
    /\ held' = held + amount - reservations[a]
    /\ \A b \in Actions \ {a} :
          entries'[b] = entries[b] /\ reconciliations'[b] = reconciliations[b]
    /\ ChargeOf(entries'[a], reconciliations'[a])
         = ChargeOf(entries[a], reconciliations[a]) + spent
    /\ EstimateOf(entries'[a], reconciliations'[a])
         = EstimateOf(entries[a], reconciliations[a]) + estimated

LEMMA SumsTyped ==
    ASSUME LedgerTypeOK, NEW a \in Actions
    PROVE  /\ ChargeOf(entries[a], reconciliations[a]) \in Int
           /\ EstimateOf(entries[a], reconciliations[a]) \in Int
<1>1. /\ RowsSum(entries[a], {"debit"}) \in Int
      /\ RowsSum(entries[a], {"reserve"}) \in Int
      /\ RowsSum(entries[a], {"release"}) \in Int
  BY RowsSumType DEF LedgerTypeOK
<1>2. reconciliations[a] # NULL =>
         reconciliations[a].charged \in Int /\ reconciliations[a].released \in Int
  BY DEF LedgerTypeOK, Marker
<1> QED
  BY <1>1, <1>2 DEF ChargeOf, EstimateOf

\* A row of another kind, without a marker: nothing but that kind's sum moves.
LEMMA RowAccounted ==
    ASSUME LedgerTypeOK, NEW a \in Actions, NEW e \in Entry,
           entries' = [entries EXCEPT ![a] = Append(@, e)],
           reconciliations'[a] = reconciliations[a]
    PROVE  /\ ChargeOf(entries'[a], reconciliations'[a])
                = ChargeOf(entries[a], reconciliations[a])
                  + IF e.kind = "debit" THEN e.amount ELSE 0
           /\ EstimateOf(entries'[a], reconciliations'[a])
                = EstimateOf(entries[a], reconciliations[a])
                  + (IF e.kind = "reserve" THEN e.amount ELSE 0)
                  - (IF e.kind = "release" THEN e.amount ELSE 0)
<1>1. entries'[a] = Append(entries[a], e) /\ entries[a] \in Seq(Entry)
  BY DEF LedgerTypeOK
<1>2. /\ RowsSum(entries'[a], {"debit"}) = RowsSum(entries[a], {"debit"})
                + IF e.kind \in {"debit"} THEN e.amount ELSE 0
      /\ RowsSum(entries'[a], {"reserve"}) = RowsSum(entries[a], {"reserve"})
                + IF e.kind \in {"reserve"} THEN e.amount ELSE 0
      /\ RowsSum(entries'[a], {"release"}) = RowsSum(entries[a], {"release"})
                + IF e.kind \in {"release"} THEN e.amount ELSE 0
  BY <1>1, RowAdded
<1>3. /\ RowsSum(entries[a], {"debit"}) \in Int
      /\ RowsSum(entries[a], {"reserve"}) \in Int
      /\ RowsSum(entries[a], {"release"}) \in Int
  BY <1>1, RowsSumType
<1>4. e.amount \in Int
  BY DEF Entry
<1>5. reconciliations[a] # NULL =>
         reconciliations[a].charged \in Int /\ reconciliations[a].released \in Int
  BY DEF LedgerTypeOK, Marker
<1> DEFINE d == RowsSum(entries[a], {"debit"})
           r == RowsSum(entries[a], {"reserve"})
           l == RowsSum(entries[a], {"release"})
           c == IF reconciliations[a] = NULL THEN 0 ELSE reconciliations[a].charged
           b == IF reconciliations[a] = NULL THEN 0 ELSE reconciliations[a].released
<1>6. c \in Int /\ b \in Int
  BY <1>5
<1>7. /\ ChargeOf(entries[a], reconciliations[a]) = d + c
      /\ EstimateOf(entries[a], reconciliations[a]) = r - l - b
      /\ ChargeOf(entries'[a], reconciliations'[a])
           = RowsSum(entries'[a], {"debit"}) + c
      /\ EstimateOf(entries'[a], reconciliations'[a])
           = RowsSum(entries'[a], {"reserve"}) - RowsSum(entries'[a], {"release"}) - b
  BY DEF ChargeOf, EstimateOf
<1> HIDE DEF c, b
<1>8. ChargeOf(entries'[a], reconciliations'[a])
        = ChargeOf(entries[a], reconciliations[a])
          + IF e.kind = "debit" THEN e.amount ELSE 0
  BY <1>2, <1>3, <1>4, <1>6, <1>7
<1>9. EstimateOf(entries'[a], reconciliations'[a])
        = EstimateOf(entries[a], reconciliations[a])
          + (IF e.kind = "reserve" THEN e.amount ELSE 0)
          - (IF e.kind = "release" THEN e.amount ELSE 0)
  BY <1>2, <1>3, <1>4, <1>6, <1>7
<1> QED
  BY <1>8, <1>9

LEMMA ReservationAccounted ==
    ASSUME LedgerTypeOK, NEW a \in Actions, NEW amount \in Nat,
           reservations[a] = 0, AddReservation(a, amount)
    PROVE  Accounts(a, 0, amount, amount)
<1> DEFINE e == [kind |-> "reserve", amount |-> amount, reserved |-> 0,
                 after |-> 0, record |-> NoRecord]
<1>1. e \in Entry /\ e.kind = "reserve" /\ e.amount = amount
  BY DEF Entry, EntryKinds, NoRecord
<1>2. entries' = [entries EXCEPT ![a] = Append(@, e)]
  BY DEF AddReservation, Record
<1> HIDE DEF e
<1>3. /\ reservations' = [reservations EXCEPT ![a] = amount]
      /\ held' = held + amount
      /\ totalEstimated' = totalEstimated + amount
      /\ UNCHANGED <<balance, totalSpent, reconciliations>>
  BY DEF AddReservation
<1>4. /\ ChargeOf(entries'[a], reconciliations'[a])
           = ChargeOf(entries[a], reconciliations[a]) + 0
      /\ EstimateOf(entries'[a], reconciliations'[a])
           = EstimateOf(entries[a], reconciliations[a]) + amount - 0
  BY <1>1, <1>2, <1>3, RowAccounted
<1>5. \A b \in Actions \ {a} : entries'[b] = entries[b]
  BY <1>2 DEF LedgerTypeOK
<1>6. /\ EstimateOf(entries[a], reconciliations[a]) \in Int
      /\ balance \in Int /\ totalSpent \in Int /\ held \in Int
  BY SumsTyped DEF LedgerTypeOK
<1> QED
  BY <1>3, <1>4, <1>5, <1>6 DEF Accounts

LEMMA ReleaseAccounted ==
    ASSUME LedgerTypeOK, NEW a \in Actions, DropReservation(a)
    PROVE  Accounts(a, 0, -reservations[a], 0)
<1> DEFINE e == [kind |-> "release", amount |-> reservations[a], reserved |-> 0,
                 after |-> 0, record |-> NoRecord]
<1>1. e \in Entry /\ e.kind = "release" /\ e.amount = reservations[a]
  BY DEF LedgerTypeOK, Entry, EntryKinds, NoRecord
<1>2. entries' = [entries EXCEPT ![a] = Append(@, e)]
  BY DEF DropReservation, Record
<1> HIDE DEF e
<1>3. /\ reservations' = [reservations EXCEPT ![a] = 0]
      /\ held' = held - reservations[a]
      /\ totalEstimated' = totalEstimated - reservations[a]
      /\ UNCHANGED <<balance, totalSpent, reconciliations>>
  BY DEF DropReservation
<1>4. /\ ChargeOf(entries'[a], reconciliations'[a])
           = ChargeOf(entries[a], reconciliations[a]) + 0
      /\ EstimateOf(entries'[a], reconciliations'[a])
           = EstimateOf(entries[a], reconciliations[a]) + 0 - reservations[a]
  BY <1>1, <1>2, <1>3, RowAccounted
<1>5. \A b \in Actions \ {a} : entries'[b] = entries[b]
  BY <1>2 DEF LedgerTypeOK
<1>6. /\ EstimateOf(entries[a], reconciliations[a]) \in Int
      /\ balance \in Int /\ totalSpent \in Int /\ held \in Int
      /\ totalEstimated \in Int /\ reservations[a] \in Int
  BY SumsTyped DEF LedgerTypeOK
<1> QED
  BY <1>3, <1>4, <1>5, <1>6 DEF Accounts

LEMMA DebitAccounted ==
    ASSUME LedgerTypeOK, NEW a \in Actions, NEW actual \in Nat,
           NEW record \in Nat, Debit(a, actual, record)
    PROVE  Accounts(a, actual, 0, 0)
<1> DEFINE left == Available + reservations[a] - actual
           e == [kind |-> "debit", amount |-> actual,
                 reserved |-> reservations[a],
                 after |-> IF record = NoRecord THEN 0 ELSE left,
                 record |-> record]
<1>1. reservations[a] \in Nat /\ left \in Int
  BY DEF LedgerTypeOK, Available
<1>2. e \in Entry /\ e.kind = "debit" /\ e.amount = actual
  <2> HIDE DEF left
  <2> QED
    BY <1>1 DEF Entry, EntryKinds
<1>3. entries' = [entries EXCEPT ![a] = Append(@, e)]
  BY DEF Debit
<1> HIDE DEF e
<1>4. /\ reservations' = [reservations EXCEPT ![a] = 0]
      /\ held' = held - reservations[a]
      /\ balance' = balance - actual
      /\ totalSpent' = totalSpent + actual
      /\ UNCHANGED <<totalEstimated, reconciliations>>
  BY DEF Debit
<1>5. /\ ChargeOf(entries'[a], reconciliations'[a])
           = ChargeOf(entries[a], reconciliations[a]) + actual
      /\ EstimateOf(entries'[a], reconciliations'[a])
           = EstimateOf(entries[a], reconciliations[a]) + 0 - 0
  BY <1>2, <1>3, <1>4, RowAccounted
<1>6. \A b \in Actions \ {a} : entries'[b] = entries[b]
  BY <1>3 DEF LedgerTypeOK
<1>7. /\ EstimateOf(entries[a], reconciliations[a]) \in Int
      /\ held \in Int /\ totalEstimated \in Int
  BY SumsTyped DEF LedgerTypeOK
<1> QED
  BY <1>1, <1>4, <1>5, <1>6, <1>7 DEF Accounts

\* The marker takes over what the row of a reconciliation does not say.
LEMMA ReconciliationAccounted ==
    ASSUME LedgerTypeOK, NEW a \in Actions, NEW expected \in Nat,
           NEW outcome \in Outcomes, NEW by \in Operators,
           NEW authority \in Nat, reconciliations[a] = NULL,
           AddReconciliation(a, expected, outcome, by, authority)
    PROVE  \E spent \in Nat, released \in Nat : Accounts(a, spent, -released, 0)
<1> DEFINE charged == ReconcileCharge(a, expected, outcome)
           released == IF outcome = "not_executed" THEN reservations[a] ELSE 0
           marker == [outcome |-> outcome, by |-> by, expected |-> expected,
                      charged |-> charged, released |-> released,
                      authority |-> authority]
           e == [kind |-> "reconcile", amount |-> charged + released,
                 reserved |-> 0, after |-> 0, record |-> NoRecord]
<1>1. charged \in Nat /\ released \in Nat /\ reservations[a] \in Nat
  BY DEF ReconcileCharge, LedgerTypeOK
<1>2. /\ reservations' = [reservations EXCEPT ![a] = 0]
      /\ held' = held - reservations[a]
      /\ balance' = balance - charged
      /\ totalSpent' = totalSpent + charged
      /\ totalEstimated' = totalEstimated - released
      /\ reconciliations' = [reconciliations EXCEPT ![a] = marker]
      /\ entries' = [entries EXCEPT ![a] = Append(@, e)]
  BY DEF AddReconciliation, Record
<1> HIDE DEF charged, released
<1>3. e \in Entry /\ e.kind = "reconcile"
  BY <1>1 DEF Entry, EntryKinds, NoRecord
<1>4. marker \in Marker /\ marker.charged = charged /\ marker.released = released
  BY <1>1 DEF Marker
<1>5. marker # NULL
  BY <1>4, MarkerAssumption
<1> HIDE DEF marker, e
<1>6. entries'[a] = Append(entries[a], e) /\ entries[a] \in Seq(Entry)
  BY <1>2 DEF LedgerTypeOK
<1>7. reconciliations'[a] = marker
  BY <1>2 DEF LedgerTypeOK
<1>8. /\ RowsSum(entries'[a], {"debit"}) = RowsSum(entries[a], {"debit"})
                + IF e.kind \in {"debit"} THEN e.amount ELSE 0
      /\ RowsSum(entries'[a], {"reserve"}) = RowsSum(entries[a], {"reserve"})
                + IF e.kind \in {"reserve"} THEN e.amount ELSE 0
      /\ RowsSum(entries'[a], {"release"}) = RowsSum(entries[a], {"release"})
                + IF e.kind \in {"release"} THEN e.amount ELSE 0
  BY <1>3, <1>6, RowAdded
<1>9. /\ RowsSum(entries[a], {"debit"}) \in Int
      /\ RowsSum(entries[a], {"reserve"}) \in Int
      /\ RowsSum(entries[a], {"release"}) \in Int
  BY <1>6, RowsSumType
<1>10. /\ RowsSum(entries'[a], {"debit"}) = RowsSum(entries[a], {"debit"})
       /\ RowsSum(entries'[a], {"reserve"}) = RowsSum(entries[a], {"reserve"})
       /\ RowsSum(entries'[a], {"release"}) = RowsSum(entries[a], {"release"})
  BY <1>3, <1>8, <1>9
<1>11. ChargeOf(entries'[a], reconciliations'[a])
         = ChargeOf(entries[a], reconciliations[a]) + charged
  BY <1>1, <1>4, <1>5, <1>7, <1>9, <1>10 DEF ChargeOf
<1>12. EstimateOf(entries'[a], reconciliations'[a])
         = EstimateOf(entries[a], reconciliations[a]) + (-released)
  BY <1>1, <1>4, <1>5, <1>7, <1>9, <1>10 DEF EstimateOf
<1>13. \A b \in Actions \ {a} :
          entries'[b] = entries[b] /\ reconciliations'[b] = reconciliations[b]
  BY <1>2 DEF LedgerTypeOK
<1>14. held \in Int /\ totalEstimated \in Int
  BY DEF LedgerTypeOK
<1>15. Accounts(a, charged, -released, 0)
  BY <1>1, <1>2, <1>11, <1>12, <1>13, <1>14 DEF Accounts
<1> QED
  BY <1>1, <1>15
-----------------------------------------------------------------------------
(***************************************************************************)
(* The invariants of the ledger on its own.                                *)
(***************************************************************************)

\* What the ledger's own invariants say, action by action.
Balanced ==
    /\ totalSpent =
          SumFunctionOnSet([a \in Actions |->
              ChargeOf(entries[a], reconciliations[a])], Actions)
    /\ balance + totalSpent = StartingBalance + granted
    /\ held = SumFunctionOnSet(reservations, Actions)
    /\ totalEstimated =
          SumFunctionOnSet([a \in Actions |->
              EstimateOf(entries[a], reconciliations[a])], Actions)

LedgerInv == BudgetTypeOK /\ Balanced /\ SettledOnce

\* The properties say the same, with the sums written out.
LEMMA BalancedMeans ==
    ASSUME BudgetTypeOK, Balanced
    PROVE  FundsConserved /\ EstimateAccounted
<1>1. /\ DOMAIN [a \in Actions |-> Charged(a)] = Actions
      /\ DOMAIN reservations = Actions
  BY DEF BudgetTypeOK, LedgerTypeOK
<1>2. \A a \in Actions : Charged(a) = ChargeOf(entries[a], reconciliations[a])
  BY DEF Charged, ChargeOf, RowsSum, EntriesOf
<1>3. [a \in Actions |-> Charged(a)]
        = [a \in Actions |-> ChargeOf(entries[a], reconciliations[a])]
  BY <1>2
<1>4. FundsConserved
  BY <1>1, <1>3 DEF FundsConserved, Balanced, SumFunction
<1>5. [a \in Actions |->
            MapThenSumSet(LAMBDA i : entries[a][i].amount,
                          EntriesOf(a, {"reserve"}))
            - MapThenSumSet(LAMBDA i : entries[a][i].amount,
                            EntriesOf(a, {"release"}))
            - IF reconciliations[a] = NULL THEN 0
              ELSE reconciliations[a].released]
        = [a \in Actions |-> EstimateOf(entries[a], reconciliations[a])]
  BY DEF EstimateOf, RowsSum, EntriesOf
<1>6. DOMAIN [a \in Actions |-> EstimateOf(entries[a], reconciliations[a])]
        = Actions
  OBVIOUS
<1>7. EstimateAccounted
  BY <1>5, <1>6 DEF EstimateAccounted, Balanced, SumFunction
<1> QED
  BY <1>4, <1>7

\* Nothing has been charged or estimated yet.
LEMMA RowsSumOfNone ==
    ASSUME NEW rows, DOMAIN rows = {}, NEW kinds
    PROVE  RowsSum(rows, kinds) = 0
<1> DEFINE S == {i \in DOMAIN rows : rows[i].kind \in kinds}
           w == [i \in {} |-> 0]
<1>1. S = {}
  OBVIOUS
<1>2. MapThenSumSet(LAMBDA i : rows[i].amount, S) = SumFunctionOnSet(w, S)
  <2>1. IsFiniteSet(S) /\ \A i \in S : w[i] = rows[i].amount
    BY <1>1, FS_EmptySet
  <2> HIDE DEF w, S
  <2> QED
    BY <2>1, AmountsAreSum
<1>3. SumFunctionOnSet(w, {}) = 0
  <2> HIDE DEF w
  <2> QED
    BY SumOfNone
<1> HIDE DEF w
<1> QED
  BY <1>1, <1>2, <1>3 DEF RowsSum

LEMMA SumOfZeros ==
    ASSUME NEW S, IsFiniteSet(S), NEW w, \A x \in S : w[x] = 0
    PROVE  SumFunctionOnSet(w, S) = 0
<1> DEFINE B == {s \in SUBSET S : SumFunctionOnSet(w, s) # 0}
<1> SUFFICES ASSUME B # {} PROVE FALSE
  OBVIOUS
<1>1. PICK s \in B : \A t \in B : ~ (t \subseteq s /\ t # s)
  <2>1. B \subseteq SUBSET S
    OBVIOUS
  <2> HIDE DEF B
  <2> QED
    BY <2>1, SmallestSet
<1>2. s \in SUBSET S /\ SumFunctionOnSet(w, s) # 0
  OBVIOUS
<1>3. PICK x \in s : TRUE
  BY <1>2, SumOfNone
<1>4. IsFiniteSet(s) /\ (\A y \in s : w[y] \in Int)
  BY <1>2, FS_Subset
<1>5. /\ SumFunctionOnSet(w, s) = w[x] + SumFunctionOnSet(w, s \ {x})
      /\ SumFunctionOnSet(w, s \ {x}) \in Int
  BY <1>4, SumSplit
<1>6. SumFunctionOnSet(w, s \ {x}) = 0
  <2>1. s \ {x} \notin B
    <3> HIDE DEF B
    <3> QED
      BY <1>1
  <2> QED
    BY <1>2, <2>1
<1> QED
  BY <1>2, <1>5, <1>6

LEMMA InitLedger == BudgetInit => LedgerInv
<1> SUFFICES ASSUME BudgetInit PROVE LedgerInv
  OBVIOUS
<1>1. BudgetTypeOK
  BY BalanceAssumption, BoundsAssumption
  DEF BudgetInit, LedgerInit, BudgetTypeOK, LedgerTypeOK
<1>2. \A a \in Actions : entries[a] = << >> /\ reconciliations[a] = NULL
  BY DEF BudgetInit, LedgerInit
<1>3. \A a \in Actions : /\ ChargeOf(entries[a], reconciliations[a]) = 0
                         /\ EstimateOf(entries[a], reconciliations[a]) = 0
  <2>1. \A a \in Actions : DOMAIN entries[a] = {}
    BY <1>2
  <2> QED
    BY <1>2, <2>1, RowsSumOfNone DEF ChargeOf, EstimateOf
<1> DEFINE charges == [a \in Actions |-> ChargeOf(entries[a], reconciliations[a])]
           estimates == [a \in Actions |-> EstimateOf(entries[a], reconciliations[a])]
<1>4. /\ \A a \in Actions : charges[a] = 0 /\ estimates[a] = 0
      /\ \A a \in Actions : reservations[a] = 0
  BY <1>3 DEF BudgetInit, LedgerInit
<1>5. /\ SumFunctionOnSet(charges, Actions) = 0
      /\ SumFunctionOnSet(estimates, Actions) = 0
      /\ SumFunctionOnSet(reservations, Actions) = 0
  <2> HIDE DEF charges, estimates
  <2> QED
    BY <1>4, BoundsAssumption, SumOfZeros
<1>6. Balanced
  BY <1>5, BalanceAssumption DEF Balanced, BudgetInit, LedgerInit
<1>7. SettledOnce
  BY <1>2 DEF SettledOnce, EntriesOf
<1> QED
  BY <1>1, <1>6, <1>7 DEF LedgerInv

\* An operation that accounts for what it does keeps the sums.
LEMMA AccountsBalance ==
    ASSUME BudgetTypeOK, BudgetTypeOK', Balanced, NEW a \in Actions,
           NEW spent \in Int, NEW estimated \in Int, NEW amount \in Nat,
           Accounts(a, spent, estimated, amount), UNCHANGED granted
    PROVE  Balanced'
<1> DEFINE charges == [b \in Actions |-> ChargeOf(entries[b], reconciliations[b])]
           estimates == [b \in Actions |-> EstimateOf(entries[b], reconciliations[b])]
           charges1 == [b \in Actions |-> ChargeOf(entries'[b], reconciliations'[b])]
           estimates1 == [b \in Actions |-> EstimateOf(entries'[b], reconciliations'[b])]
<1>1. \A b \in Actions : charges[b] \in Int /\ estimates[b] \in Int
  BY SumsTyped DEF BudgetTypeOK
<1>2. /\ \A b \in Actions \ {a} :
            charges1[b] = charges[b] /\ estimates1[b] = estimates[b]
      /\ charges1[a] = charges[a] + spent
      /\ estimates1[a] = estimates[a] + estimated
  BY DEF Accounts
<1>3. /\ charges1[a] \in Int /\ estimates1[a] \in Int
  BY <1>1, <1>2
<1> HIDE DEF charges, estimates, charges1, estimates1
<1>4. SumFunctionOnSet(charges1, Actions)
        = SumFunctionOnSet(charges, Actions) + charges1[a] - charges[a]
  BY <1>1, <1>2, <1>3, BoundsAssumption, SumChanges
<1>5. SumFunctionOnSet(estimates1, Actions)
        = SumFunctionOnSet(estimates, Actions) + estimates1[a] - estimates[a]
  BY <1>1, <1>2, <1>3, BoundsAssumption, SumChanges
<1>6. SumFunctionOnSet(reservations', Actions)
        = SumFunctionOnSet(reservations, Actions) + reservations'[a] - reservations[a]
  <2>1. /\ \A b \in Actions : reservations[b] \in Int
        /\ reservations'[a] \in Int
        /\ \A b \in Actions \ {a} : reservations'[b] = reservations[b]
    BY DEF BudgetTypeOK, LedgerTypeOK, Accounts
  <2>2. ASSUME NEW v, v = reservations'
        PROVE  SumFunctionOnSet(v, Actions)
                 = SumFunctionOnSet(reservations, Actions) + v[a] - reservations[a]
    <3>1. v[a] \in Int /\ \A b \in Actions \ {a} : v[b] = reservations[b]
      BY <2>1, <2>2
    <3> QED
      BY <2>1, <3>1, BoundsAssumption, SumChanges
  <2> QED
    BY <2>2
<1>7. /\ SumFunctionOnSet(charges, Actions) \in Int
      /\ SumFunctionOnSet(estimates, Actions) \in Int
  BY <1>1, BoundsAssumption, SumType
<1>8. /\ reservations'[a] = amount /\ reservations[a] \in Int
      /\ balance \in Int /\ totalSpent \in Int /\ held \in Int
      /\ totalEstimated \in Int /\ granted \in Int
      /\ totalSpent' = totalSpent + spent
      /\ balance' = balance - spent
      /\ totalEstimated' = totalEstimated + estimated
      /\ held' = held + amount - reservations[a]
  BY DEF BudgetTypeOK, LedgerTypeOK, Accounts
<1>9. /\ totalSpent = SumFunctionOnSet(charges, Actions)
      /\ balance + totalSpent = StartingBalance + granted
      /\ held = SumFunctionOnSet(reservations, Actions)
      /\ totalEstimated = SumFunctionOnSet(estimates, Actions)
  BY DEF Balanced, charges, estimates
<1>10. /\ totalSpent' = SumFunctionOnSet(charges1, Actions)
       /\ totalEstimated' = SumFunctionOnSet(estimates1, Actions)
       /\ held' = SumFunctionOnSet(reservations', Actions)
  BY <1>1, <1>2, <1>4, <1>5, <1>6, <1>7, <1>8, <1>9
<1>11. balance' + totalSpent' = StartingBalance + granted'
  BY <1>8, <1>9, BalanceAssumption
<1> QED
  BY <1>10, <1>11 DEF Balanced, charges1, estimates1

\* What each call does to the sums.
Accounted(a) ==
    \E spent \in Int, estimated \in Int, amount \in Nat :
        Accounts(a, spent, estimated, amount)

LEMMA ReserveAccounted ==
    ASSUME LedgerTypeOK, NEW a \in Actions, NEW amount \in Nat,
           Reserve(a, amount) \/ EnsureReservation(a, amount)
    PROVE  LedgerTypeOK' /\ (UNCHANGED ledgerVars \/ Accounted(a))
<1>1. \/ UNCHANGED ledgerVars
      \/ reservations[a] = 0 /\ AddReservation(a, amount)
  BY DEF Reserve, CanReserve, EnsureReservation, CanEnsureReservation
<1>2. CASE UNCHANGED ledgerVars
  BY <1>2 DEF ledgerVars, LedgerTypeOK
<1>3. CASE reservations[a] = 0 /\ AddReservation(a, amount)
  <2>1. 0 \in Int /\ amount \in Int
    OBVIOUS
  <2> QED
    BY <1>3, <2>1, ReservationTypes, ReservationAccounted DEF Accounted
<1> QED
  BY <1>1, <1>2, <1>3

LEMMA GiveBackAccounted ==
    ASSUME LedgerTypeOK, NEW a \in Actions, NEW amount \in Nat,
           Release(a) \/ EnsureRelease(a, amount)
    PROVE  LedgerTypeOK' /\ (UNCHANGED ledgerVars \/ Accounted(a))
<1>1. UNCHANGED ledgerVars \/ DropReservation(a)
  BY DEF Release, EnsureRelease
<1>2. CASE UNCHANGED ledgerVars
  BY <1>2 DEF ledgerVars, LedgerTypeOK
<1>3. CASE DropReservation(a)
  <2>1. -reservations[a] \in Int /\ 0 \in Nat
    BY DEF LedgerTypeOK
  <2> QED
    BY <1>3, <2>1, ReleaseTypes, ReleaseAccounted DEF Accounted
<1> QED
  BY <1>1, <1>2, <1>3

LEMMA SettleAccounted ==
    ASSUME LedgerTypeOK, NEW a \in Actions, NEW actual \in Nat,
           NEW record \in Nat, Debit(a, actual, record)
    PROVE  LedgerTypeOK' /\ Accounted(a)
<1>1. actual \in Int /\ 0 \in Int
  OBVIOUS
<1> QED
  BY <1>1, DebitTypes, DebitAccounted DEF Accounted

LEMMA ReconcileAccounted ==
    ASSUME LedgerTypeOK, NEW a \in Actions, NEW expected \in Nat,
           NEW outcome \in Outcomes, NEW by \in Operators, NEW authority \in Nat,
           ReconcileReservation(a, expected, outcome, by, authority)
    PROVE  LedgerTypeOK' /\ (UNCHANGED ledgerVars \/ Accounted(a))
<1>1. LedgerTypeOK'
  BY ReconciliationTypes
<1>2. CASE UNCHANGED ledgerVars
  BY <1>1, <1>2
<1>3. CASE /\ reconciliations[a] = NULL
           /\ AddReconciliation(a, expected, outcome, by, authority)
  <2>1. PICK spent \in Nat, released \in Nat : Accounts(a, spent, -released, 0)
    BY <1>3, ReconciliationAccounted
  <2>2. spent \in Int /\ -released \in Int
    OBVIOUS
  <2> QED
    BY <1>1, <2>1, <2>2 DEF Accounted
<1> QED
  BY <1>2, <1>3 DEF ReconcileReservation

LEMMA CallAccounted ==
    ASSUME LedgerTypeOK, NEW a \in Actions, Call(a)
    PROVE  LedgerTypeOK' /\ (UNCHANGED ledgerVars \/ Accounted(a))
<1>1. ASSUME NEW amount \in Amounts,
             \/ Reserve(a, amount) \/ EnsureReservation(a, amount)
             \/ EnsureRelease(a, amount)
      PROVE  LedgerTypeOK' /\ (UNCHANGED ledgerVars \/ Accounted(a))
  BY <1>1, BoundsAssumption, ReserveAccounted, GiveBackAccounted
<1>2. ASSUME NEW amount \in Amounts, Settle(a, amount)
      PROVE  LedgerTypeOK' /\ (UNCHANGED ledgerVars \/ Accounted(a))
  BY <1>2, BoundsAssumption, SettleAccounted DEF Settle, NoRecord
<1>3. ASSUME Release(a)
      PROVE  LedgerTypeOK' /\ (UNCHANGED ledgerVars \/ Accounted(a))
  <2>1. 0 \in Nat
    OBVIOUS
  <2> QED
    BY <1>3, <2>1, GiveBackAccounted
<1>4. ASSUME NEW expected \in Amounts, NEW actual \in Amounts, NEW record \in Records,
             EnsureSettlement(a, expected, actual, record)
      PROVE  LedgerTypeOK' /\ (UNCHANGED ledgerVars \/ Accounted(a))
  <2>1. CASE UNCHANGED ledgerVars
    BY <2>1 DEF ledgerVars, LedgerTypeOK
  <2>2. CASE Debit(a, actual, record)
    BY <2>2, BoundsAssumption, SettleAccounted
  <2> QED
    BY <1>4, <2>1, <2>2 DEF EnsureSettlement
<1>5. ASSUME NEW expected \in Amounts, NEW outcome \in Outcomes,
             NEW by \in Operators, NEW authority \in Records \cup {NoRecord},
             ReconcileReservation(a, expected, outcome, by, authority)
      PROVE  LedgerTypeOK' /\ (UNCHANGED ledgerVars \/ Accounted(a))
  <2>1. expected \in Nat /\ authority \in Nat
    BY BoundsAssumption DEF NoRecord
  <2> QED
    BY <1>5, <2>1, ReconcileAccounted
<1> QED
  BY <1>1, <1>2, <1>3, <1>4, <1>5 DEF Call

-----------------------------------------------------------------------------
(* A known result is paid for once *)

\* Only the settlement of a known result names a record, and it finds no debit.
LEMMA CallDebits ==
    ASSUME LedgerTypeOK, NEW a \in Actions, Call(a)
    PROVE  \/ entries' = entries
           \/ \E e \in Entry :
                 /\ entries' = [entries EXCEPT ![a] = Append(@, e)]
                 /\ e.kind = "debit" /\ e.record # NoRecord
                       => EntriesOf(a, {"debit"}) = {}
<1> DEFINE Goal ==
      \/ entries' = entries
      \/ \E e \in Entry :
            /\ entries' = [entries EXCEPT ![a] = Append(@, e)]
            /\ e.kind = "debit" /\ e.record # NoRecord
                  => EntriesOf(a, {"debit"}) = {}
<1>1. ASSUME NEW kind \in EntryKinds \ {"debit"}, NEW amount \in Nat,
             Record(a, kind, amount)
      PROVE  Goal
  <2> DEFINE e == [kind |-> kind, amount |-> amount, reserved |-> 0,
                   after |-> 0, record |-> NoRecord]
  <2>1. e \in Entry /\ e.kind # "debit"
    BY DEF Entry, EntryKinds, NoRecord
  <2>2. entries' = [entries EXCEPT ![a] = Append(@, e)]
    BY <1>1 DEF Record
  <2> HIDE DEF e
  <2> QED
    BY <2>1, <2>2
<1>2. ASSUME NEW actual \in Nat, NEW record \in Nat, Debit(a, actual, record),
             record # NoRecord => Dispositions(a) = {}
      PROVE  Goal
  <2> DEFINE left == Available + reservations[a] - actual
             e == [kind |-> "debit", amount |-> actual,
                   reserved |-> reservations[a],
                   after |-> IF record = NoRecord THEN 0 ELSE left,
                   record |-> record]
  <2>1. reservations[a] \in Nat /\ left \in Int
    BY DEF LedgerTypeOK, Available
  <2>2. e \in Entry /\ e.record = record
    <3> HIDE DEF left
    <3> QED
      BY <2>1 DEF Entry, EntryKinds
  <2>3. entries' = [entries EXCEPT ![a] = Append(@, e)]
    BY <1>2 DEF Debit
  <2>4. Dispositions(a) = {} => EntriesOf(a, {"debit"}) = {}
    BY DEF Dispositions, EntriesOf
  <2> HIDE DEF e
  <2> QED
    BY <1>2, <2>2, <2>3, <2>4
<1>3. ASSUME NEW amount \in Amounts,
             Reserve(a, amount) \/ EnsureReservation(a, amount)
      PROVE  Goal
  <2>1. amount \in Nat /\ "reserve" \in EntryKinds \ {"debit"}
    BY BoundsAssumption DEF EntryKinds
  <2>2. CASE UNCHANGED ledgerVars
    BY <2>2 DEF ledgerVars
  <2>3. CASE AddReservation(a, amount)
    <3>1. Record(a, "reserve", amount)
      BY <2>3 DEF AddReservation
    <3> HIDE DEF Goal
    <3> QED
      BY <1>1, <2>1, <3>1
  <2> QED
    BY <1>3, <2>2, <2>3 DEF Reserve, EnsureReservation
<1>4. ASSUME NEW amount, Release(a) \/ EnsureRelease(a, amount)
      PROVE  Goal
  <2>1. reservations[a] \in Nat /\ "release" \in EntryKinds \ {"debit"}
    BY DEF LedgerTypeOK, EntryKinds
  <2>2. CASE UNCHANGED ledgerVars
    BY <2>2 DEF ledgerVars
  <2>3. CASE DropReservation(a)
    <3>1. Record(a, "release", reservations[a])
      BY <2>3 DEF DropReservation
    <3> HIDE DEF Goal
    <3> QED
      BY <1>1, <2>1, <3>1
  <2> QED
    BY <1>4, <2>2, <2>3 DEF Release, EnsureRelease
<1>5. ASSUME NEW amount \in Amounts, Settle(a, amount)
      PROVE  Goal
  <2>1. amount \in Nat /\ NoRecord \in Nat
    BY BoundsAssumption DEF NoRecord
  <2> HIDE DEF Goal
  <2> QED
    BY <1>2, <1>5, <2>1 DEF Settle
<1>6. ASSUME NEW expected \in Amounts, NEW actual \in Amounts, NEW record \in Records,
             EnsureSettlement(a, expected, actual, record)
      PROVE  Goal
  <2>1. actual \in Nat /\ record \in Nat
    BY BoundsAssumption
  <2>2. CASE UNCHANGED ledgerVars
    BY <2>2 DEF ledgerVars
  <2>3. CASE Dispositions(a) = {} /\ Debit(a, actual, record)
    <3> HIDE DEF Goal
    <3> QED
      BY <1>2, <2>1, <2>3
  <2> QED
    BY <1>6, <2>2, <2>3 DEF EnsureSettlement
<1>7. ASSUME NEW expected \in Amounts, NEW outcome \in Outcomes,
             NEW by \in Operators, NEW authority \in Records \cup {NoRecord},
             ReconcileReservation(a, expected, outcome, by, authority)
      PROVE  Goal
  <2>1. CASE UNCHANGED ledgerVars
    BY <2>1 DEF ledgerVars
  <2>2. CASE AddReconciliation(a, expected, outcome, by, authority)
    <3> DEFINE amount == ReconcileCharge(a, expected, outcome)
                         + IF outcome = "not_executed" THEN reservations[a] ELSE 0
    <3>1. Record(a, "reconcile", amount)
      BY <2>2 DEF AddReconciliation
    <3>2. amount \in Nat /\ "reconcile" \in EntryKinds \ {"debit"}
      BY BoundsAssumption DEF ReconcileCharge, LedgerTypeOK, EntryKinds
    <3> HIDE DEF Goal, amount
    <3> QED
      BY <1>1, <3>1, <3>2
  <2> QED
    BY <1>7, <2>1, <2>2 DEF ReconcileReservation
<1> HIDE DEF Goal
<1>8. Goal
  BY <1>3, <1>4, <1>5, <1>6, <1>7 DEF Call
<1> QED
  BY <1>8 DEF Goal

LEMMA SettledStep ==
    ASSUME LedgerTypeOK, SettledOnce, NEW a \in Actions,
           \/ entries' = entries
           \/ \E e \in Entry :
                 /\ entries' = [entries EXCEPT ![a] = Append(@, e)]
                 /\ e.kind = "debit" /\ e.record # NoRecord
                       => EntriesOf(a, {"debit"}) = {}
    PROVE  SettledOnce'
<1>1. CASE entries' = entries
  BY <1>1 DEF SettledOnce, EntriesOf
<1>2. CASE \E e \in Entry :
              /\ entries' = [entries EXCEPT ![a] = Append(@, e)]
              /\ e.kind = "debit" /\ e.record # NoRecord
                    => EntriesOf(a, {"debit"}) = {}
  <2>1. PICK e \in Entry :
              /\ entries' = [entries EXCEPT ![a] = Append(@, e)]
              /\ e.kind = "debit" /\ e.record # NoRecord
                    => EntriesOf(a, {"debit"}) = {}
    BY <1>2
  <2> DEFINE n == Len(entries[a]) + 1
  <2>2. /\ entries[a] \in Seq(Entry) /\ n - 1 \in Nat
        /\ entries'[a] = Append(entries[a], e)
        /\ \A b \in Actions \ {a} : entries'[b] = entries[b]
    BY <2>1 DEF LedgerTypeOK
  <2>3. /\ DOMAIN entries[a] = 1..(n - 1) /\ DOMAIN entries'[a] = 1..n
        /\ \A i \in 1..(n - 1) : entries'[a][i] = entries[a][i]
        /\ entries'[a][n] = e
        /\ \A i \in 1..n : i = n \/ i \in 1..(n - 1)
    BY <2>2
  <2> HIDE DEF n
  <2> SUFFICES ASSUME NEW b \in Actions,
                      NEW i \in DOMAIN entries'[b], NEW j \in DOMAIN entries'[b],
                      entries'[b][i].kind = "debit", entries'[b][j].kind = "debit",
                      entries'[b][i].record # NoRecord,
                      entries'[b][i].record = entries'[b][j].record
               PROVE  i = j
    BY DEF SettledOnce, EntriesOf
  <2>4. \A k, l \in EntriesOf(b, {"debit"}) :
           entries[b][k].record # NoRecord /\ entries[b][k].record = entries[b][l].record
             => k = l
    BY DEF SettledOnce
  <2>5. CASE b # a
    BY <2>2, <2>4, <2>5 DEF EntriesOf
  <2>6. CASE b = a
    <3>1. CASE i \in 1..(n - 1) /\ j \in 1..(n - 1)
      <4>1. entries'[b][i] = entries[b][i] /\ entries'[b][j] = entries[b][j]
        BY <2>3, <2>6, <3>1
      <4>2. i \in EntriesOf(b, {"debit"}) /\ j \in EntriesOf(b, {"debit"})
        BY <2>3, <2>6, <3>1, <4>1 DEF EntriesOf
      <4> QED
        BY <2>4, <4>1, <4>2
    <3>2. CASE i = n /\ j \in 1..(n - 1)
      <4>1. j \in EntriesOf(a, {"debit"})
        BY <2>3, <2>6, <3>2 DEF EntriesOf
      <4> QED
        BY <2>1, <2>3, <2>6, <3>2, <4>1
    <3>3. CASE j = n /\ i \in 1..(n - 1)
      <4>1. i \in EntriesOf(a, {"debit"})
        BY <2>3, <2>6, <3>3 DEF EntriesOf
      <4> QED
        BY <2>1, <2>3, <2>6, <3>3, <4>1
    <3> QED
      BY <2>3, <2>6, <3>1, <3>2, <3>3
  <2> QED
    BY <2>5, <2>6
<1> QED
  BY <1>1, <1>2

LEMMA GrantBalance ==
    ASSUME LedgerInv, NEW amount \in Amounts, Grant(amount)
    PROVE  LedgerInv'
<1>1. amount \in Nat
  BY BoundsAssumption
<1>2. BudgetTypeOK'
  BY <1>1, BoundsAssumption DEF LedgerInv, BudgetTypeOK, LedgerTypeOK, Grant
<1>3. Balanced'
  <2>1. /\ totalSpent' = totalSpent /\ held' = held /\ entries' = entries
        /\ totalEstimated' = totalEstimated /\ reservations' = reservations
        /\ reconciliations' = reconciliations
    BY DEF Grant
  <2>2. balance' + totalSpent' = StartingBalance + granted'
    <3>1. balance' = balance + amount /\ granted' = granted + amount
      BY DEF Grant
    <3>2. balance \in Int /\ totalSpent \in Int /\ granted \in Int
      BY DEF LedgerInv, BudgetTypeOK, LedgerTypeOK
    <3>3. balance + totalSpent = StartingBalance + granted
      BY DEF LedgerInv, Balanced
    <3> QED
      BY <1>1, <2>1, <3>1, <3>2, <3>3, BalanceAssumption
  <2> QED
    BY <2>1, <2>2 DEF LedgerInv, Balanced
<1>4. SettledOnce'
  BY DEF LedgerInv, SettledOnce, EntriesOf, Grant
<1> QED
  BY <1>2, <1>3, <1>4 DEF LedgerInv

LEMMA CallBalance ==
    ASSUME LedgerInv, NEW a \in Actions, Call(a)
    PROVE  LedgerInv'
<1>1. LedgerTypeOK /\ BudgetTypeOK /\ Balanced /\ SettledOnce
  BY DEF LedgerInv, BudgetTypeOK
<1>2. LedgerTypeOK' /\ (UNCHANGED ledgerVars \/ Accounted(a))
  BY <1>1, CallAccounted
<1>3. UNCHANGED <<granted, grants>>
  BY DEF Call
<1>4. BudgetTypeOK'
  BY <1>1, <1>2, <1>3 DEF BudgetTypeOK
<1>5. Balanced'
  <2>1. CASE UNCHANGED ledgerVars
    BY <1>1, <1>3, <2>1 DEF Balanced, ledgerVars
  <2>2. CASE Accounted(a)
    BY <1>1, <1>3, <1>4, <2>2, AccountsBalance DEF Accounted
  <2> QED
    BY <1>2, <2>1, <2>2
<1>6. SettledOnce'
  BY <1>1, CallDebits, SettledStep
<1> QED
  BY <1>4, <1>5, <1>6 DEF LedgerInv

\* The inductive invariant of the ledger on its own.
LEMMA LedgerInvariance == BudgetSpec => []LedgerInv
<1>1. LedgerInv /\ [BudgetNext]_budgetVars => LedgerInv'
  <2> SUFFICES ASSUME LedgerInv, [BudgetNext]_budgetVars PROVE LedgerInv'
    OBVIOUS
  <2>1. ASSUME NEW a \in Actions, Call(a) PROVE LedgerInv'
    BY <2>1, CallBalance
  <2>2. ASSUME NEW amount \in Amounts, Grant(amount) PROVE LedgerInv'
    BY <2>2, GrantBalance
  <2>3. ASSUME UNCHANGED budgetVars PROVE LedgerInv'
    BY <2>3 DEF budgetVars, ledgerVars, LedgerInv, BudgetTypeOK, LedgerTypeOK,
                Balanced, SettledOnce, EntriesOf
  <2> QED
    BY <2>1, <2>2, <2>3 DEF BudgetNext
<1> QED
  BY <1>1, InitLedger, PTL DEF BudgetSpec

\* No operation of BudgetLedger, in any order, by any caller, creates or
\* destroys money: balance, spending and reservations are the sums of the rows.
THEOREM MoneyIsConserved == BudgetSpec => []FundsConserved
<1>1. LedgerInv => FundsConserved
  BY BalancedMeans DEF LedgerInv
<1> QED
  BY <1>1, LedgerInvariance, PTL

\* total_estimated_usd counts the reservations that were not given back.
THEOREM EstimatesAreAccounted == BudgetSpec => []EstimateAccounted
<1>1. LedgerInv => EstimateAccounted
  BY BalancedMeans DEF LedgerInv
<1> QED
  BY <1>1, LedgerInvariance, PTL

\* ensure_settlement pays for a completion record once, however it is repeated.
THEOREM ResultsArePaidOnce == BudgetSpec => []SettledOnce
<1>1. LedgerInv => SettledOnce
  BY DEF LedgerInv
<1> QED
  BY <1>1, LedgerInvariance, PTL

-----------------------------------------------------------------------------
(***************************************************************************)
(* What the worker knows at each of its locations, from the checks behind  *)
(* it, and keeps because no one else can write what it depends on.         *)
(***************************************************************************)

Acting ==
    {"begin", "unreserve", "blocked", "consume", "authorize", "answer",
     "execute", "complete", "charge", "assert", "close"}

\* A stage belongs to the active operation; past "entry" and outside the stages
\* there is none.
WorkerJournal ==
    /\ worker.pc \in Stages => journal # NULL /\ worker.pc \in StagesOf(journal)
    /\ worker.pc \in Acting \cup {"ready"} => journal = NULL

WorkerAction == worker.pc \in Acting => worker.act \in Actions

Sealed(a) == With(a, {"skipped"}) # {}

WorkerEvidence ==
    /\ worker.pc \in {"answer", "execute", "complete"} => Sealed(worker.act)
    /\ worker.pc \in {"consume", "close"} => IsClosed(worker.act)

\* An assertion was stored before the ledger and the evidence follow it.
Asserted(a) ==
    HasApproval(a) /\ approvals[a].outcome # "" /\ approvals[a].reconciledBy # NULL

WorkerAssertion ==
    /\ worker.pc \in {"charge", "assert", "close"} => Asserted(worker.act)
    /\ worker.pc \in {"assert", "close"} => reconciliations[worker.act] # NULL

JournalAssertion ==
    journal # NULL /\ journal.kind = "authorization_reconcile" =>
        /\ journal.record.outcome # ""
        /\ journal.record.reconciledBy # NULL

WorkerInv == WorkerJournal /\ WorkerAction /\ WorkerEvidence /\ WorkerAssertion

ControlInv == TypeOK /\ WorkerInv /\ JournalAssertion

-----------------------------------------------------------------------------
(* The start *)

LEMMA InitControl == Init => ControlInv
<1> SUFFICES ASSUME Init PROVE ControlInv
  OBVIOUS
<1>1. LedgerTypeOK
  BY BalanceAssumption DEF Init, LedgerInit, LedgerTypeOK
<1>2. ApprovalTypeOK /\ EvidenceTypeOK /\ JournalTypeOK
  BY DEF Init, ApprovalInit, ApprovalTypeOK, EvidenceInit, EvidenceTypeOK,
         JournalInit, JournalTypeOK
<1>3. worker \in Worker /\ WorkerInv
  BY DEF Init, Idle, Worker, Locations, Stages, WorkerInv, WorkerJournal,
         WorkerAction, WorkerEvidence, WorkerAssertion, Acting
<1>4. JournalAssertion
  BY DEF Init, JournalInit, JournalAssertion
<1>5. /\ runner \in [Actions -> RunnerStates]
      /\ executed \in [Actions -> Nat]
      /\ crashes \in 0..MaxCrashes
  BY LoopAssumption DEF Init, RunnerStates
<1> QED
  BY <1>1, <1>2, <1>3, <1>4, <1>5 DEF ControlInv, TypeOK

-----------------------------------------------------------------------------
(* Steps that write to no store *)

\* What a step must show when it leaves the stores alone.
LEMMA StoresKept ==
    ASSUME ControlInv, UNCHANGED stores,
           worker' \in Worker, WorkerInv',
           runner' \in [Actions -> RunnerStates],
           executed' \in [Actions -> Nat],
           crashes' \in 0..MaxCrashes
    PROVE  ControlInv'
<1>1. LedgerTypeOK'
  BY DEF ControlInv, TypeOK, LedgerTypeOK, stores, ledgerVars
<1>2. ApprovalTypeOK' /\ EvidenceTypeOK' /\ JournalTypeOK'
  BY DEF ControlInv, TypeOK, ApprovalTypeOK, EvidenceTypeOK, JournalTypeOK,
         stores, approvalVars
<1>3. JournalAssertion'
  BY DEF ControlInv, JournalAssertion, stores
<1> QED
  BY <1>1, <1>2, <1>3 DEF ControlInv, TypeOK

\* A worker that returns, raises or dies knows nothing any more.
LEMMA Returned ==
    ASSUME worker' = Idle
    PROVE  worker' \in Worker /\ WorkerInv'
BY DEF Idle, Worker, Locations, Stages, WorkerInv, WorkerJournal,
       WorkerAction, WorkerEvidence, WorkerAssertion, Acting

LEMMA WorldKept ==
    ASSUME ControlInv, UNCHANGED world
    PROVE  /\ runner' \in [Actions -> RunnerStates]
           /\ executed' \in [Actions -> Nat]
           /\ crashes' \in 0..MaxCrashes
BY DEF ControlInv, TypeOK, world

LEMMA StagesTyped ==
    ASSUME NEW kind \in OperationKinds
    PROVE  /\ FirstStage(kind) \in Stages
           /\ FirstStage(kind) \in {Route[kind][i] : i \in DOMAIN Route[kind]}
           /\ FirstStage(kind) \in {"budget", "approval"}
BY DEF OperationKinds, FirstStage, Route, Stages

LEMMA EnterControl ==
    ASSUME ControlInv, NEW full \in BOOLEAN, Enter(full)
    PROVE  ControlInv'
<1>1. worker' \in Worker /\ WorkerInv'
  BY DEF Enter, Idle, Worker, Locations, Stages, WorkerInv, WorkerJournal,
         WorkerAction, WorkerEvidence, WorkerAssertion, Acting
<1> QED
  BY <1>1, StoresKept, WorldKept DEF Enter

LEMMA RecoverControl == ASSUME ControlInv, Recover PROVE ControlInv'
<1>1. journal \in Operation /\ worker \in Worker
  BY DEF ControlInv, TypeOK, JournalTypeOK, Recover
<1>2. journal.kind \in OperationKinds /\ journal.act \in Actions
  BY <1>1 DEF Operation
<1>3. worker' \in Worker
  BY <1>1, <1>2, StagesTyped DEF Recover, Worker, Locations
<1>4. WorkerInv'
  BY <1>1, <1>2, StagesTyped
  DEF Recover, Worker, stores, WorkerInv, WorkerJournal, WorkerAction,
      WorkerEvidence, WorkerAssertion, Acting, StagesOf
<1> QED
  BY <1>3, <1>4, StoresKept, WorldKept DEF Recover

LEMMA RefusalControl ==
    ASSUME ControlInv, RefuseUnsafe \/ Leave \/ RefuseRecovery \/ ToolRaises
    PROVE  ControlInv'
BY StoresKept, WorldKept, Returned
DEF RefuseUnsafe, Leave, RefuseRecovery, ToolRaises, Return

LEMMA AdmitControl == ASSUME ControlInv, Admit PROVE ControlInv'
<1>1. worker' \in Worker
  BY DEF ControlInv, TypeOK, Admit, GoTo, Worker, Locations
<1>2. WorkerInv'
  BY DEF ControlInv, TypeOK, Admit, GoTo, Worker, Stages, stores, WorkerInv, WorkerJournal,
         WorkerAction, WorkerEvidence, WorkerAssertion, Acting
<1> QED
  BY <1>1, <1>2, StoresKept, WorldKept DEF Admit

LEMMA AnswerControl == ASSUME ControlInv, Answer PROVE ControlInv'
<1>1. runner' \in [Actions -> RunnerStates]
  BY DEF ControlInv, TypeOK, Answer, RunnerStates
<1> QED
  BY <1>1, StoresKept, Returned DEF ControlInv, TypeOK, Answer, Return

LEMMA ExecuteControl == ASSUME ControlInv, Execute PROVE ControlInv'
<1>1. executed' \in [Actions -> Nat]
  <2>1. worker.act \in Actions
    BY DEF ControlInv, WorkerInv, WorkerAction, Acting, Execute, At
  <2>2. executed[worker.act] + 1 \in Nat
    BY <2>1 DEF ControlInv, TypeOK
  <2> QED
    BY <2>2 DEF ControlInv, TypeOK, Execute
<1>2. worker' \in Worker
  BY DEF ControlInv, TypeOK, Execute, GoTo, Worker, Locations
<1>3. WorkerInv'
  BY DEF ControlInv, TypeOK, Execute, At, GoTo, Worker, Stages, stores,
         WorkerInv, WorkerJournal, WorkerAction, WorkerEvidence,
         WorkerAssertion, Acting, Sealed, With
<1> QED
  BY <1>1, <1>2, <1>3, StoresKept DEF ControlInv, TypeOK, Execute

LEMMA RunnerRunsControl ==
    ASSUME ControlInv, NEW a \in Actions, RunnerRuns(a)
    PROVE  ControlInv'
<1>1. /\ runner' \in [Actions -> RunnerStates]
      /\ executed' \in [Actions -> Nat]
      /\ crashes' \in 0..MaxCrashes
  BY DEF ControlInv, TypeOK, RunnerRuns, RunnerStates
<1>2. worker' \in Worker /\ WorkerInv'
  BY DEF ControlInv, TypeOK, RunnerRuns, stores, ledgerVars, approvalVars,
         WorkerInv, WorkerJournal, WorkerAction, WorkerEvidence,
         WorkerAssertion, Sealed, With, IsClosed, Terminals, Asserted,
         HasApproval
<1> QED
  BY <1>1, <1>2, StoresKept DEF RunnerRuns

LEMMA CrashControl == ASSUME ControlInv, Crash PROVE ControlInv'
<1>1. crashes' \in 0..MaxCrashes
  BY LoopAssumption DEF ControlInv, TypeOK, Crash
<1> QED
  BY <1>1, StoresKept, Returned DEF ControlInv, TypeOK, Crash, Return

LEMMA ResumeApprovedControl ==
    ASSUME ControlInv, NEW a \in Actions, NEW by \in Operators,
           ResumeApproved(a, by)
    PROVE  ControlInv'
<1>1. worker' \in Worker
  BY DEF ControlInv, TypeOK, ResumeApproved, Worker, Locations
<1>2. WorkerInv'
  BY DEF ControlInv, TypeOK, ResumeApproved, At, Worker, Stages, stores,
         WorkerInv, WorkerJournal, WorkerAction, WorkerEvidence,
         WorkerAssertion, Acting
<1> QED
  BY <1>1, <1>2, StoresKept, WorldKept DEF ResumeApproved

-----------------------------------------------------------------------------
(* Records and evidence *)

LEMMA MakeTyped ==
    ASSUME EvidenceTypeOK, NEW a \in Actions, NEW status \in ResultStatuses,
           NEW decision \in Decisions, NEW by \in Operators \cup {NULL}
    PROVE  Make(a, status, decision, by) \in EvidenceRecord
<1>1. Len(evidence[a]) + 1 \in Nat \ {0}
  BY DEF EvidenceTypeOK
<1> QED
  BY <1>1 DEF Make, EvidenceRecord

\* Appending keeps what is sealed or closed so, and says what is new.
LEMMA RecordAppended ==
    ASSUME EvidenceTypeOK, NEW a \in Actions, NEW record \in EvidenceRecord,
           AppendRecord(a, record)
    PROVE  /\ EvidenceTypeOK'
           /\ \A b \in Actions : Sealed(b) => Sealed(b)'
           /\ \A b \in Actions : IsClosed(b) => IsClosed(b)'
           /\ record.status = "skipped" => Sealed(a)'
           /\ record.status \in TerminalResults => IsClosed(a)'
<1>1. /\ evidence' \in [Actions -> Seq(EvidenceRecord)]
      /\ evidence'[a] = Append(evidence[a], record)
      /\ \A b \in Actions \ {a} : evidence'[b] = evidence[b]
  BY DEF EvidenceTypeOK, AppendRecord
<1>2. /\ Len(evidence[a]) \in Nat
      /\ DOMAIN evidence[a] = 1..Len(evidence[a])
      /\ DOMAIN evidence'[a] = 1..(Len(evidence[a]) + 1)
      /\ \A i \in DOMAIN evidence[a] : evidence'[a][i] = evidence[a][i]
      /\ evidence'[a][Len(evidence[a]) + 1] = record
  BY <1>1 DEF EvidenceTypeOK
<1>3. ASSUME NEW statuses
      PROVE  /\ \A b \in Actions :
                   With(b, statuses) # {} => With(b, statuses)' # {}
             /\ record.status \in statuses => With(a, statuses)' # {}
  <2>1. \A b \in Actions : With(b, statuses) \subseteq With(b, statuses)'
    <3> TAKE b \in Actions
    <3>1. CASE b = a
      BY <1>2, <3>1, SMTT(40) DEF With
    <3>2. CASE b # a
      BY <1>1, <3>2 DEF With
    <3> QED
      BY <3>1, <3>2
  <2>2. record.status \in statuses => Len(evidence[a]) + 1 \in With(a, statuses)'
    BY <1>2 DEF With
  <2> QED
    BY <2>1, <2>2
<1> QED
  BY <1>1, <1>3 DEF EvidenceTypeOK, Sealed, IsClosed, Terminals

LEMMA RecordFound ==
    ASSUME EvidenceTypeOK, NEW a \in Actions
    PROVE  /\ Sealed(a) => Authorization(a) \in EvidenceRecord
           /\ IsClosed(a) => Terminal(a) \in EvidenceRecord
<1>1. /\ Len(evidence[a]) \in Nat
      /\ DOMAIN evidence[a] = 1..Len(evidence[a])
      /\ \A i \in DOMAIN evidence[a] : evidence[a][i] \in EvidenceRecord
  BY DEF EvidenceTypeOK
<1>2. ASSUME NEW statuses, With(a, statuses) # {}
      PROVE  Latest(With(a, statuses)) \in With(a, statuses)
  <2>1. With(a, statuses) \subseteq 1..Len(evidence[a])
    BY <1>1 DEF With
  <2> QED
    BY <1>1, <1>2, <2>1, LatestIn
<1>3. ASSUME NEW statuses, With(a, statuses) # {}
      PROVE  evidence[a][Latest(With(a, statuses))] \in EvidenceRecord
  BY <1>1, <1>2, <1>3 DEF With
<1> QED
  BY <1>3 DEF Sealed, IsClosed, Terminals, Authorization, Terminal

LEMMA RecordAppendedOnce ==
    ASSUME EvidenceTypeOK, NEW a \in Actions, NEW record \in EvidenceRecord,
           AppendOnce(a, record)
    PROVE  /\ EvidenceTypeOK'
           /\ \A b \in Actions : Sealed(b) => Sealed(b)'
           /\ \A b \in Actions : IsClosed(b) => IsClosed(b)'
<1>1. CASE UNCHANGED evidence
  BY <1>1 DEF EvidenceTypeOK, Sealed, IsClosed, Terminals, With
<1>2. CASE AppendRecord(a, record)
  BY <1>2, RecordAppended
<1> QED
  BY <1>1, <1>2 DEF AppendOnce

-----------------------------------------------------------------------------
(* Approvals *)

\* No operation on approvals takes back a stored assertion.
ApprovalsKept ==
    /\ ApprovalTypeOK'
    /\ \A b \in Actions : HasApproval(b) => HasApproval(b)'
    /\ \A b \in Actions : Asserted(b) => Asserted(b)'

LEMMA ApprovalPut ==
    ASSUME ApprovalTypeOK, NEW a \in Actions, NEW approval \in Approval,
           Put(a, approval),
           Asserted(a) => approval.outcome # "" /\ approval.reconciledBy # NULL
    PROVE  ApprovalsKept /\ approvals'[a] = approval
<1>1. /\ approvals' \in [Actions -> Approval \cup {NULL}]
      /\ approvals'[a] = approval
      /\ \A b \in Actions \ {a} : approvals'[b] = approvals[b]
      /\ overdue' = overdue
  BY DEF ApprovalTypeOK, Put
<1> QED
  BY <1>1, ApprovalAssumption
  DEF ApprovalsKept, ApprovalTypeOK, Asserted, HasApproval

LEMMA ApprovalsUnchanged ==
    ASSUME ApprovalTypeOK, UNCHANGED approvalVars
    PROVE  ApprovalsKept
BY DEF approvalVars, ApprovalTypeOK, ApprovalsKept, Asserted, HasApproval

LEMMA ApprovalFound ==
    ASSUME ApprovalTypeOK, NEW a \in Actions, HasApproval(a)
    PROVE  approvals[a] \in Approval
BY DEF ApprovalTypeOK, HasApproval

LEMMA DecideTypes ==
    ASSUME ApprovalTypeOK, NEW a \in Actions, NEW approved \in BOOLEAN,
           NEW by \in Operators \cup {NULL}, Decide(a, approved, by)
    PROVE  ApprovalsKept
<1> DEFINE new == [approvals[a] EXCEPT
                     !.status = IF approved THEN "approved" ELSE "rejected",
                     !.decidedBy = by]
<1>1. HasApproval(a) /\ approvals[a] \in Approval
  BY ApprovalFound DEF Decide, CanDecide, Is
<1>2. /\ new \in Approval
      /\ new.outcome = approvals[a].outcome
      /\ new.reconciledBy = approvals[a].reconciledBy
  BY <1>1 DEF Approval, ApprovalStatuses
<1> QED
  BY <1>2, ApprovalPut DEF Decide, Asserted

\* The operations that change the status only.
LEMMA StatusTypes ==
    ASSUME ApprovalTypeOK, NEW a \in Actions, HasApproval(a),
           NEW status \in ApprovalStatuses,
           Put(a, [approvals[a] EXCEPT !.status = status])
    PROVE  ApprovalsKept
<1> DEFINE new == [approvals[a] EXCEPT !.status = status]
<1>1. approvals[a] \in Approval
  BY ApprovalFound
<1>2. /\ new \in Approval
      /\ new.outcome = approvals[a].outcome
      /\ new.reconciledBy = approvals[a].reconciledBy
  BY <1>1 DEF Approval
<1> QED
  BY <1>2, ApprovalPut DEF Asserted

\* The operations that consume.
LEMMA ConsumeTypes ==
    ASSUME ApprovalTypeOK, NEW a \in Actions, HasApproval(a),
           NEW record \in Nat,
           Put(a, [approvals[a] EXCEPT !.status = "consumed", !.record = record])
    PROVE  ApprovalsKept
<1> DEFINE new == [approvals[a] EXCEPT !.status = "consumed", !.record = record]
<1>1. approvals[a] \in Approval
  BY ApprovalFound
<1>2. /\ new \in Approval
      /\ new.outcome = approvals[a].outcome
      /\ new.reconciledBy = approvals[a].reconciledBy
  BY <1>1 DEF Approval, ApprovalStatuses
<1> QED
  BY <1>2, ApprovalPut DEF Asserted

\* begin_reconciliation leaves an assertion behind.
LEMMA BeginReconciliationTypes ==
    ASSUME ApprovalTypeOK, NEW a \in Actions, NEW outcome \in Outcomes,
           NEW by \in Operators, BeginReconciliation(a, outcome, by)
    PROVE  ApprovalsKept /\ Asserted(a)'
<1> DEFINE new == [approvals[a] EXCEPT !.outcome = outcome, !.reconciledBy = by]
<1>1. HasApproval(a) /\ approvals[a] \in Approval
  BY ApprovalFound DEF BeginReconciliation, CanConsume, IsReconciledWith, Is
<1>2. outcome # "" /\ by # NULL
  BY NullAssumption DEF Outcomes
<1>3. CASE IsReconciledWith(a, outcome, by) /\ UNCHANGED approvalVars
  BY <1>1, <1>2, <1>3, ApprovalsUnchanged
  DEF IsReconciledWith, ApprovalsKept, Asserted
<1>4. CASE Put(a, new)
  <2>1. /\ new \in Approval
        /\ new.outcome = outcome
        /\ new.reconciledBy = by
    BY <1>1 DEF Approval
  <2>2. ApprovalsKept /\ approvals'[a] = new
    BY <1>2, <1>4, <2>1, ApprovalPut
  <2> QED
    BY <1>2, <2>1, <2>2, ApprovalAssumption DEF Asserted, HasApproval
<1> QED
  BY <1>3, <1>4 DEF BeginReconciliation

-----------------------------------------------------------------------------
(* The stages of an operation *)

LEMMA NextStage ==
    ASSUME NEW op \in Operation, NEW stage \in StagesOf(op), stage # "finish"
    PROVE  /\ StageAfter(op.kind, stage) \in Stages
           /\ StageAfter(op.kind, stage) \in StagesOf(op)
<1> DEFINE P(i) == i > 1 /\ Route[op.kind][i - 1] = stage
           D == DOMAIN Route[op.kind]
<1>1. op.kind \in OperationKinds
  BY DEF Operation
<1>2. \E i \in D : P(i)
  <2>1. CASE op.kind \in {"approval_create", "approval_reject",
                          "approval_expire", "execution_complete"}
    <3>1. D = 1..4 /\ Route[op.kind][4] = "finish"
      BY <2>1 DEF Route
    <3>2. PICK j \in 1..4 : Route[op.kind][j] = stage
      BY <3>1 DEF StagesOf
    <3>3. j + 1 \in 1..4 /\ j + 1 > 1 /\ (j + 1) - 1 = j
      BY <3>1, <3>2
    <3> QED
      BY <3>1, <3>2, <3>3
  <2>2. CASE op.kind = "authorization_reconcile"
    <3>1. D = 1..3 /\ Route[op.kind][3] = "finish"
      BY <2>2 DEF Route
    <3>2. PICK j \in 1..3 : Route[op.kind][j] = stage
      BY <3>1 DEF StagesOf
    <3>3. j + 1 \in 1..3 /\ j + 1 > 1 /\ (j + 1) - 1 = j
      BY <3>1, <3>2
    <3> QED
      BY <3>1, <3>2, <3>3
  <2> QED
    BY <1>1, <2>1, <2>2 DEF OperationKinds
<1>3. (CHOOSE i \in D : P(i)) \in D
  BY <1>2
<1>4. StageAfter(op.kind, stage) \in StagesOf(op)
  BY <1>3 DEF StageAfter, StagesOf
<1>5. StagesOf(op) \subseteq Stages
  BY <1>1 DEF StagesOf, OperationKinds, Route, Stages
<1> QED
  BY <1>4, <1>5

\* What the active operation writes to the ledger keeps it well-formed.
LEMMA WriteBudgetTypes ==
    ASSUME LedgerTypeOK, NEW op \in Operation,
           op.kind = "authorization_reconcile" =>
               op.record.outcome # "" /\ op.record.reconciledBy # NULL,
           WriteBudget(op)
    PROVE  LedgerTypeOK'
<1>1. /\ op.act \in Actions /\ op.reserved \in Nat /\ op.authority \in Nat
      /\ op.kind \in OperationKinds
      /\ op.record.id \in Nat /\ op.record.cost \in Nat
      /\ op.record.outcome \in Outcomes \cup {""}
      /\ op.record.reconciledBy \in Operators \cup {NULL}
  BY DEF Operation, EvidenceRecord
<1>2. CASE UNCHANGED ledgerVars
  BY <1>2 DEF ledgerVars, LedgerTypeOK
<1>3. CASE EnsureReservation(op.act, op.reserved)
  BY <1>1, <1>2, <1>3, ReservationTypes DEF EnsureReservation
<1>4. CASE EnsureRelease(op.act, op.reserved)
  BY <1>1, <1>2, <1>4, ReleaseTypes DEF EnsureRelease
<1>5. CASE /\ op.kind = "authorization_reconcile"
           /\ ReconcileReservation(op.act, op.reserved, op.record.outcome,
                                   op.record.reconciledBy, op.authority)
  BY <1>1, <1>5, ReconciliationTypes
<1>6. CASE EnsureSettlement(op.act, op.reserved, op.record.cost, op.record.id)
  BY <1>1, <1>2, <1>6, DebitTypes DEF EnsureSettlement
<1> QED
  BY <1>1, <1>2, <1>3, <1>4, <1>5, <1>6 DEF WriteBudget, OperationKinds

LEMMA WriteApprovalTypes ==
    ASSUME ApprovalTypeOK, NEW op \in Operation, WriteApproval(op)
    PROVE  ApprovalsKept
<1>1. /\ op.act \in Actions /\ op.reserved \in Nat /\ op.owner \in Owners
      /\ op.kind \in OperationKinds /\ op.record.id \in Nat
      /\ op.record.by \in Operators \cup {NULL}
  BY DEF Operation, EvidenceRecord
<1>2. CASE UNCHANGED approvalVars
  BY <1>2, ApprovalsUnchanged
<1>3. CASE CreatePrepared(op.act, Prepared(op.owner, op.reserved))
  <2> DEFINE new == Prepared(op.owner, op.reserved)
  <2>1. new \in Approval /\ new.reconciledBy = NULL
    BY <1>1 DEF Prepared, Approval, ApprovalStatuses
  <2>2. CanCreate(op.act, new) /\ Put(op.act, new)
    BY <1>3 DEF CreatePrepared
  <2>3. ~Asserted(op.act)
    BY <2>1, <2>2 DEF CanCreate, Asserted, HasApproval
  <2> HIDE DEF new
  <2> QED
    BY <1>1, <2>1, <2>2, <2>3, ApprovalPut
<1>4. CASE EnsureRejected(op.act, op.record.by)
  BY <1>1, <1>2, <1>4, DecideTypes DEF EnsureRejected
<1>5. CASE ExpireOne(op.act)
  BY <1>1, <1>5, StatusTypes
  DEF ExpireOne, CanExpire, Due, Is, ApprovalStatuses
<1>6. CASE EnsureConsumed(op.act, op.record.id)
  BY <1>1, <1>2, <1>6, ConsumeTypes
  DEF EnsureConsumed, MarkConsumed, CanConsume, Is
<1> QED
  BY <1>1, <1>2, <1>3, <1>4, <1>5, <1>6 DEF WriteApproval, OperationKinds

-----------------------------------------------------------------------------
(* Steps that write to a store *)

LEMMA StoresWritten ==
    ASSUME ControlInv, UNCHANGED world,
           LedgerTypeOK', ApprovalsKept, EvidenceTypeOK', JournalTypeOK',
           JournalAssertion', worker' \in Worker, WorkerInv'
    PROVE  ControlInv'
BY WorldKept DEF ControlInv, TypeOK, ApprovalsKept

LEMMA LedgerKept ==
    ASSUME ControlInv, UNCHANGED ledgerVars
    PROVE  LedgerTypeOK'
BY DEF ControlInv, TypeOK, LedgerTypeOK, ledgerVars

LEMMA EvidenceKept ==
    ASSUME ControlInv, UNCHANGED evidence
    PROVE  /\ EvidenceTypeOK'
           /\ \A a \in Actions : Sealed(a)' = Sealed(a)
           /\ \A a \in Actions : IsClosed(a)' = IsClosed(a)
BY DEF ControlInv, TypeOK, EvidenceTypeOK, Sealed, IsClosed, Terminals, With

LEMMA JournalKept ==
    ASSUME ControlInv, UNCHANGED journal
    PROVE  JournalTypeOK' /\ JournalAssertion'
BY DEF ControlInv, TypeOK, JournalTypeOK, JournalAssertion

\* Preparing an operation and going to its first stage.
LEMMA PreparedTypes ==
    ASSUME ControlInv, NEW kind \in OperationKinds, NEW a \in Actions,
           NEW record \in EvidenceRecord, NEW reserved \in Nat,
           NEW owner \in Owners, NEW authority \in Nat,
           NEW approved \in BOOLEAN, NEW back \in {"idle", "entry"},
           kind = "authorization_reconcile" =>
               record.outcome # "" /\ record.reconciledBy # NULL,
           Prepare(kind, a, record, reserved, owner, authority, approved),
           Apply(kind, a, back)
    PROVE  /\ JournalTypeOK' /\ JournalAssertion'
           /\ worker' \in Worker /\ WorkerInv'
<1> DEFINE op == [kind |-> kind, act |-> a, record |-> record,
                  reserved |-> reserved, owner |-> owner,
                  authority |-> authority, approved |-> approved]
<1>1. /\ op \in Operation
      /\ op.kind = kind /\ op.record = record
  BY DEF Operation
<1>2. journal' = op
  BY DEF Prepare
<1> HIDE DEF op
<1>3. JournalTypeOK' /\ JournalAssertion' /\ journal' # NULL
  BY <1>1, <1>2, OperationAssumption DEF JournalTypeOK, JournalAssertion
<1>4. worker' \in Worker
  BY StagesTyped DEF ControlInv, TypeOK, Apply, Worker, Locations
<1>5. WorkerInv'
  BY <1>1, <1>2, <1>3, StagesTyped, ZenonT(60)
  DEF ControlInv, TypeOK, Apply, Worker, WorkerInv, WorkerJournal,
      WorkerAction, WorkerEvidence, WorkerAssertion, Acting, StagesOf
<1> QED
  BY <1>3, <1>4, <1>5

\* A step that only prepares.
LEMMA OnlyPrepared ==
    ASSUME ControlInv, UNCHANGED <<ledgerVars, approvalVars, evidence, world>>,
           JournalTypeOK', JournalAssertion', worker' \in Worker, WorkerInv'
    PROVE  ControlInv'
<1>1. ApprovalTypeOK
  BY DEF ControlInv, TypeOK
<1> QED
  BY <1>1, StoresWritten, LedgerKept, EvidenceKept, ApprovalsUnchanged

LEMMA ReservedNow ==
    ASSUME ControlInv, NEW a \in Actions
    PROVE  /\ ReservationFor(a) \in Nat
           /\ HasApproval(a) => approvals[a] \in Approval
           /\ EvidenceTypeOK /\ ApprovalTypeOK /\ LedgerTypeOK
BY ApprovalFound
DEF ControlInv, TypeOK, ReservationFor, LedgerTypeOK

LEMMA ExpireControl ==
    ASSUME ControlInv, NEW a \in Actions, Expire(a)
    PROVE  ControlInv'
<1> DEFINE record == Make(a, "expired", "approval_required", NULL)
<1>1. record \in EvidenceRecord
  BY ReservedNow, MakeTyped DEF ResultStatuses, Decisions
<1>2. approvals[a].reserved \in Nat
  BY ReservedNow DEF Expire, Due, Is, Approval
<1> HIDE DEF record
<1>3. /\ JournalTypeOK' /\ JournalAssertion'
      /\ worker' \in Worker /\ WorkerInv'
  BY <1>1, <1>2, PreparedTypes DEF Expire, OperationKinds, Owners, record
<1> QED
  BY <1>3, OnlyPrepared DEF Expire

LEMMA RejectControl ==
    ASSUME ControlInv, NEW a \in Actions, NEW by \in Operators, Reject(a, by)
    PROVE  ControlInv'
<1> DEFINE record == Make(a, "rejected", "approval_required", by)
<1>1. record \in EvidenceRecord
  BY ReservedNow, MakeTyped DEF ResultStatuses, Decisions
<1>2. approvals[a].reserved \in Nat
  BY ReservedNow DEF Reject, CanDecide, Is, Approval
<1> HIDE DEF record
<1>3. /\ JournalTypeOK' /\ JournalAssertion'
      /\ worker' \in Worker /\ WorkerInv'
  BY <1>1, <1>2, PreparedTypes DEF Reject, OperationKinds, Owners, record
<1> QED
  BY <1>3, OnlyPrepared DEF Reject

LEMMA HandleHoldControl ==
    ASSUME ControlInv, NEW a \in Actions, NEW estimate \in Estimates,
           NEW owner \in ApprovalOwners, HandleHold(a, estimate, owner)
    PROVE  ControlInv'
<1> DEFINE record == Make(a, "pending_approval", "approval_required", NULL)
<1>1. record \in EvidenceRecord
  BY ReservedNow, MakeTyped DEF ResultStatuses, Decisions
<1>2. estimate \in Nat /\ owner \in Owners
  BY LoopAssumption
<1> HIDE DEF record
<1>3. /\ JournalTypeOK' /\ JournalAssertion'
      /\ worker' \in Worker /\ WorkerInv'
  BY <1>1, <1>2, PreparedTypes DEF HandleHold, OperationKinds, record
<1> QED
  BY <1>3, OnlyPrepared DEF HandleHold

LEMMA CompleteKnownControl ==
    ASSUME ControlInv, NEW a \in Actions, NEW status \in {"succeeded", "failed"},
           NEW cost \in Nat, NEW by \in Operators \cup {NULL}, Sealed(a),
           CompleteKnownResult(a, status, cost, by),
           UNCHANGED <<ledgerVars, approvalVars, evidence, world>>
    PROVE  ControlInv'
<1> DEFINE remaining ==
             IF ReservationFor(a) > 0 \/ cost > 0
               THEN PreviewSettlement(a, ReservationFor(a), cost)
               ELSE Available
           record == [Make(a, status, DecisionFor(a), by) EXCEPT
                        !.cost = cost, !.remaining = remaining]
<1>1. remaining \in Int
  BY ReservedNow DEF PreviewSettlement, Available, LedgerTypeOK
<1>2. Make(a, status, DecisionFor(a), by) \in EvidenceRecord
  BY ReservedNow, MakeTyped DEF ResultStatuses, Decisions, DecisionFor
<1> HIDE DEF remaining
<1>3. record \in EvidenceRecord
  BY <1>1, <1>2 DEF EvidenceRecord
<1>4. Authorization(a).id \in Nat
  BY ReservedNow, RecordFound DEF EvidenceRecord
<1>5. HasApproval(a) \in BOOLEAN
  BY DEF HasApproval
<1>6. /\ Prepare("execution_complete", a, record, ReservationFor(a), "local",
                 Authorization(a).id, HasApproval(a))
      /\ Apply("execution_complete", a, "idle")
  BY DEF CompleteKnownResult, remaining
<1> HIDE DEF record
<1>7. /\ JournalTypeOK' /\ JournalAssertion'
      /\ worker' \in Worker /\ WorkerInv'
  BY <1>3, <1>4, <1>5, <1>6, ReservedNow, PreparedTypes
  DEF OperationKinds, Owners
<1> QED
  BY <1>7, OnlyPrepared

LEMMA CompleteControl ==
    ASSUME ControlInv, NEW status \in {"succeeded", "failed"},
           NEW cost \in Costs, NEW dryRun \in BOOLEAN,
           Complete(status, cost, dryRun)
    PROVE  ControlInv'
<1>1. worker.act \in Actions /\ Sealed(worker.act)
  BY DEF ControlInv, WorkerInv, WorkerAction, WorkerEvidence, Acting,
         Complete, At
<1>2. ActualCost(worker.act, cost, dryRun) \in Nat
  BY <1>1, ReservedNow, LoopAssumption DEF ActualCost
<1>3. worker.by \in Operators \cup {NULL}
  BY DEF ControlInv, TypeOK, Worker
<1> QED
  BY <1>1, <1>2, <1>3, CompleteKnownControl DEF Complete

LEMMA CompleteExternalControl ==
    ASSUME ControlInv, NEW a \in Actions, CompleteExternal(a)
    PROVE  ControlInv'
<1> DEFINE by == IF HasApproval(a) THEN approvals[a].decidedBy ELSE NULL
<1>1. Sealed(a)
  BY DEF CompleteExternal, Sealed
<1>2. ActualCost(a, 0, FALSE) \in Nat
  BY ReservedNow DEF ActualCost
<1>3. by \in Operators \cup {NULL}
  BY ReservedNow DEF Approval
<1> QED
  BY <1>1, <1>2, <1>3, CompleteKnownControl DEF CompleteExternal

LEMMA ReconcileAuthorizationControl ==
    ASSUME ControlInv, NEW a \in Actions, NEW outcome \in Outcomes,
           NEW by \in Operators, ReconcileAuthorization(a, outcome, by)
    PROVE  ControlInv'
<1> DEFINE cost == CASE HasPriorDebit(a) -> PriorDebit(a)
                     [] ~HasPriorDebit(a) /\ outcome = "not_executed" -> 0
                     [] OTHER -> ExposureFor(a)
           record == [Make(a, outcome, "allow", NULL) EXCEPT
                        !.cost = cost, !.outcome = outcome, !.reconciledBy = by]
<1>1. ExposureFor(a) \in Nat
  BY ReservedNow, EntryAmount DEF ExposureFor, ReservationFor
<1>2. HasPriorDebit(a) => PriorDebit(a) \in Nat
  BY ReservedNow, EntryAmount DEF HasPriorDebit, PriorDebit
<1>3. cost \in Nat
  BY <1>1, <1>2
<1>4. Make(a, outcome, "allow", NULL) \in EvidenceRecord
  BY ReservedNow, MakeTyped DEF ResultStatuses, Decisions, Outcomes
<1> HIDE DEF cost
<1>5. /\ record \in EvidenceRecord
      /\ record.outcome # "" /\ record.reconciledBy # NULL
  BY <1>3, <1>4, NullAssumption DEF EvidenceRecord, Outcomes
<1>6. Authorization(a).id \in Nat
  BY ReservedNow, RecordFound
  DEF ReconcileAuthorization, IsOpen, Sealed, EvidenceRecord
<1>7. /\ Prepare("authorization_reconcile", a, record, ExposureFor(a), "local",
                 Authorization(a).id, FALSE)
      /\ Apply("authorization_reconcile", a, "idle")
      /\ UNCHANGED <<ledgerVars, approvalVars, evidence, world>>
  BY DEF ReconcileAuthorization, cost
<1> HIDE DEF record
<1>8. /\ JournalTypeOK' /\ JournalAssertion'
      /\ worker' \in Worker /\ WorkerInv'
  BY <1>1, <1>5, <1>6, <1>7, PreparedTypes DEF OperationKinds, Owners
<1> QED
  BY <1>7, <1>8, OnlyPrepared

\* A step of a call that has passed the entry: what remains to show.
LEMMA CallStep ==
    ASSUME ControlInv, UNCHANGED <<journal, world>>,
           LedgerTypeOK', ApprovalsKept, EvidenceTypeOK',
           worker' \in Worker, WorkerInv'
    PROVE  ControlInv'
BY StoresWritten, JournalKept

LEMMA HandleBlockedControl ==
    ASSUME ControlInv, NEW a \in Actions, HandleBlocked(a)
    PROVE  ControlInv'
<1>1. Make(a, "blocked", "block", NULL) \in EvidenceRecord
  BY ReservedNow, MakeTyped DEF ResultStatuses, Decisions
<1>2. EvidenceTypeOK'
  BY <1>1, ReservedNow, RecordAppended DEF HandleBlocked
<1> QED
  BY <1>2, ReservedNow, CallStep, LedgerKept, ApprovalsUnchanged, Returned
  DEF HandleBlocked, Return

LEMMA HandleAllowControl ==
    ASSUME ControlInv, NEW a \in Actions, NEW estimate \in Estimates,
           NEW external \in BOOLEAN, HandleAllow(a, estimate, external)
    PROVE  ControlInv'
<1>1. estimate \in Nat
  BY LoopAssumption
<1>2. LedgerTypeOK'
  BY <1>1, ReservedNow, LedgerKept, ReservationTypes DEF HandleAllow, Reserve
<1>3. worker' \in Worker
  BY DEF ControlInv, TypeOK, HandleAllow, Worker, Locations
<1>4. WorkerInv'
  BY DEF ControlInv, TypeOK, HandleAllow, At, Worker, Stages, WorkerInv,
         WorkerJournal, WorkerAction, WorkerEvidence, WorkerAssertion, Acting
<1> QED
  BY <1>2, <1>3, <1>4, ReservedNow, CallStep, EvidenceKept, ApprovalsUnchanged
  DEF HandleAllow

LEMMA AuthorizeControl == ASSUME ControlInv, Authorize PROVE ControlInv'
<1>1. PICK a \in Actions : a = worker.act
  BY DEF ControlInv, WorkerInv, WorkerAction, Acting, Authorize, At
<1> DEFINE record == Make(a, "skipped", DecisionFor(a), worker.by)
<1>2. worker.by \in Operators \cup {NULL}
  BY DEF ControlInv, TypeOK, Worker
<1>3. record \in EvidenceRecord /\ record.status = "skipped"
  BY <1>2, ReservedNow, MakeTyped, ZenonT(60)
  DEF ResultStatuses, Decisions, DecisionFor, Make
<1>4. AppendRecord(a, record)
  BY <1>1 DEF Authorize
<1> HIDE DEF record
<1>5. EvidenceTypeOK' /\ Sealed(a)'
  BY <1>3, <1>4, ReservedNow, RecordAppended
<1>6. worker' \in Worker /\ worker'.act = a
  BY <1>1 DEF ControlInv, TypeOK, Authorize, GoTo, Worker, Locations
<1>7. WorkerInv'
  BY <1>1, <1>5, <1>6
  DEF ControlInv, TypeOK, Authorize, At, GoTo, Worker, Stages, WorkerInv,
      WorkerJournal, WorkerAction, WorkerEvidence, WorkerAssertion, Acting
<1> QED
  BY <1>5, <1>6, <1>7, ReservedNow, CallStep, LedgerKept, ApprovalsUnchanged
  DEF Authorize

LEMMA ResumePendingControl ==
    ASSUME ControlInv, NEW a \in Actions, NEW by \in Operators,
           ResumePending(a, by)
    PROVE  ControlInv'
<1>1. ApprovalsKept
  BY ReservedNow, DecideTypes DEF ResumePending
<1>2. worker' \in Worker
  BY DEF ControlInv, TypeOK, ResumePending, Worker, Locations
<1>3. WorkerInv'
  BY DEF ControlInv, TypeOK, ResumePending, At, Worker, Stages, WorkerInv,
         WorkerJournal, WorkerAction, WorkerEvidence, WorkerAssertion, Acting
<1> QED
  BY <1>1, <1>2, <1>3, CallStep, LedgerKept, EvidenceKept DEF ResumePending

LEMMA BeginControl ==
    ASSUME ControlInv, NEW allowed \in BOOLEAN, Begin(allowed)
    PROVE  ControlInv'
<1>1. worker.act \in Actions
  BY DEF ControlInv, WorkerInv, WorkerAction, Acting, Begin, At
<1>2. ApprovalsKept
  BY <1>1, ReservedNow, StatusTypes
  DEF Begin, BeginExecution, CanBegin, Is, ApprovalStatuses
<1>3. worker' \in Worker
  BY DEF ControlInv, TypeOK, Begin, GoTo, Worker, Locations
<1>4. WorkerInv'
  BY <1>1
  DEF ControlInv, TypeOK, Begin, At, GoTo, Worker, Stages, WorkerInv,
      WorkerJournal, WorkerAction, WorkerEvidence, WorkerAssertion, Acting
<1> QED
  BY <1>2, <1>3, <1>4, CallStep, LedgerKept, EvidenceKept DEF Begin

LEMMA BeginTooLateControl == ASSUME ControlInv, BeginTooLate PROVE ControlInv'
<1>1. worker.act \in Actions
  BY DEF ControlInv, WorkerInv, WorkerAction, Acting, BeginTooLate, At
<1>2. ApprovalsKept
  BY <1>1, ReservedNow, StatusTypes
  DEF BeginTooLate, BeginExecutionTooLate, Is, ApprovalStatuses
<1> QED
  BY <1>2, CallStep, LedgerKept, EvidenceKept, Returned
  DEF BeginTooLate, Return

LEMMA UnreserveControl == ASSUME ControlInv, Unreserve PROVE ControlInv'
<1>1. worker.act \in Actions
  BY DEF ControlInv, WorkerInv, WorkerAction, Acting, Unreserve, At
<1>2. LedgerTypeOK'
  BY <1>1, ReservedNow, LedgerKept, ReleaseTypes DEF Unreserve, Release
<1>3. worker' \in Worker
  BY DEF ControlInv, TypeOK, Unreserve, GoTo, Worker, Locations
<1>4. /\ At("unreserve") /\ journal' = journal
      /\ worker'.pc = "blocked" /\ worker'.act = worker.act
  BY DEF ControlInv, TypeOK, Unreserve, GoTo, Worker
<1>5. WorkerInv'
  BY <1>1, <1>4
  DEF ControlInv, At, Stages, WorkerInv, WorkerJournal, WorkerAction,
      WorkerEvidence, WorkerAssertion, Acting
<1> QED
  <2>1. UNCHANGED <<approvalVars, evidence, journal, world>>
    BY DEF Unreserve
  <2>2. ApprovalsKept
    BY <1>1, <2>1, ReservedNow, ApprovalsUnchanged
  <2> QED
    BY <1>2, <1>3, <1>5, <2>1, <2>2, CallStep, EvidenceKept

LEMMA RecordBlockedControl == ASSUME ControlInv, RecordBlocked PROVE ControlInv'
<1>1. PICK a \in Actions : a = worker.act
  BY DEF ControlInv, WorkerInv, WorkerAction, Acting, RecordBlocked, At
<1> DEFINE record == Make(a, "blocked", "block", worker.by)
<1>2. worker.by \in Operators \cup {NULL}
  BY DEF ControlInv, TypeOK, Worker
<1>3. record \in EvidenceRecord /\ record.status = "blocked"
  BY <1>2, ReservedNow, MakeTyped DEF ResultStatuses, Decisions, Make
<1>4. AppendRecord(a, record)
  BY <1>1 DEF RecordBlocked
<1> HIDE DEF record
<1>5. EvidenceTypeOK' /\ IsClosed(a)'
  BY <1>3, <1>4, ReservedNow, RecordAppended DEF TerminalResults
<1>6. worker' \in Worker /\ worker'.act = a
  BY <1>1 DEF ControlInv, TypeOK, RecordBlocked, GoTo, Worker, Locations
<1>7. WorkerInv'
  BY <1>1, <1>5, <1>6
  DEF ControlInv, TypeOK, RecordBlocked, At, GoTo, Worker, Stages, WorkerInv,
      WorkerJournal, WorkerAction, WorkerEvidence, WorkerAssertion, Acting
<1> QED
  BY <1>5, <1>6, <1>7, ReservedNow, CallStep, LedgerKept, ApprovalsUnchanged
  DEF RecordBlocked

LEMMA ConsumeControl == ASSUME ControlInv, Consume PROVE ControlInv'
<1>1. worker.act \in Actions /\ IsClosed(worker.act)
  BY DEF ControlInv, WorkerInv, WorkerAction, WorkerEvidence, Acting,
         Consume, At
<1>2. Terminal(worker.act).id \in Nat
  BY <1>1, ReservedNow, RecordFound DEF EvidenceRecord
<1>3. ApprovalsKept
  BY <1>1, <1>2, ReservedNow, ConsumeTypes
  DEF Consume, MarkConsumed, CanConsume, Is
<1> QED
  BY <1>3, CallStep, LedgerKept, EvidenceKept, Returned DEF Consume, Return

LEMMA ReconcileExecutionControl ==
    ASSUME ControlInv, NEW a \in Actions, NEW outcome \in Outcomes,
           NEW by \in Operators, ReconcileExecution(a, outcome, by)
    PROVE  ControlInv'
<1>1. ApprovalsKept /\ Asserted(a)'
  BY ReservedNow, BeginReconciliationTypes DEF ReconcileExecution
<1>2. /\ At("ready") /\ journal' = journal
      /\ worker'.pc = "charge" /\ worker'.act = a
  BY DEF ControlInv, TypeOK, ReconcileExecution, Worker
<1>3. worker' \in Worker
  BY DEF ControlInv, TypeOK, ReconcileExecution, Worker, Locations
<1>4. WorkerInv'
  BY <1>1, <1>2
  DEF ControlInv, At, Stages, WorkerInv, WorkerJournal, WorkerAction,
      WorkerEvidence, WorkerAssertion, Acting
<1> QED
  BY <1>1, <1>3, <1>4, CallStep, LedgerKept, EvidenceKept
  DEF ReconcileExecution

LEMMA ChargeAssertedControl ==
    ASSUME ControlInv, ChargeAsserted
    PROVE  ControlInv'
<1>1. PICK a \in Actions : a = worker.act /\ Asserted(a)
  BY DEF ControlInv, WorkerInv, WorkerAction, WorkerAssertion, Acting,
         ChargeAsserted, At
<1>2. approvals[a] \in Approval
  BY <1>1, ReservedNow DEF Asserted
<1>3. LedgerTypeOK' /\ reconciliations'[a] # NULL
  <2>1. /\ approvals[a].reserved \in Nat
        /\ approvals[a].outcome \in Outcomes
        /\ approvals[a].reconciledBy \in Operators
    BY <1>1, <1>2 DEF Approval, Asserted
  <2>2. ReconcileReservation(a, approvals[a].reserved, approvals[a].outcome,
                             approvals[a].reconciledBy, NoRecord)
    BY <1>1 DEF ChargeAsserted
  <2> QED
    BY <2>1, <2>2, ReservedNow, ReconciliationTypes DEF NoRecord
<1>4. ApprovalsKept
  BY ReservedNow, <1>1, ApprovalsUnchanged DEF ChargeAsserted
<1>5. EvidenceTypeOK' /\ (IsClosed(a) => IsClosed(a)')
  BY EvidenceKept DEF ChargeAsserted
<1>6. /\ journal' = journal /\ journal = NULL
      /\ worker'.pc = IF IsClosed(a) THEN "close" ELSE "assert"
      /\ worker'.act = a
  BY <1>1 DEF ControlInv, TypeOK, ChargeAsserted, At, GoTo, Worker, WorkerInv,
              WorkerJournal, Acting
<1>7. worker' \in Worker
  BY DEF ControlInv, TypeOK, ChargeAsserted, GoTo, Worker, Locations
<1>8. Asserted(a)'
  BY <1>1, <1>4 DEF ApprovalsKept
<1>9. WorkerInv'
  BY <1>3, <1>5, <1>6, <1>8
  DEF Stages, WorkerInv, WorkerJournal, WorkerAction, WorkerEvidence,
      WorkerAssertion, Acting
<1> QED
  BY <1>3, <1>4, <1>5, <1>7, <1>9, CallStep DEF ChargeAsserted

LEMMA RecordAssertedControl ==
    ASSUME ControlInv, RecordAsserted
    PROVE  ControlInv'
<1>1. PICK a \in Actions :
         a = worker.act /\ Asserted(a) /\ reconciliations[a] # NULL
  BY DEF ControlInv, WorkerInv, WorkerAction, WorkerAssertion, Acting,
         RecordAsserted, At
<1> DEFINE made == Make(a, approvals[a].outcome, "approval_required",
                        approvals[a].decidedBy)
           record == [made EXCEPT !.cost = reconciliations[a].charged,
                                  !.outcome = approvals[a].outcome,
                                  !.reconciledBy = approvals[a].reconciledBy]
<1>2. /\ approvals[a].outcome \in Outcomes
      /\ approvals[a].decidedBy \in Operators \cup {NULL}
      /\ approvals[a].reconciledBy \in Operators
  BY <1>1, ReservedNow DEF Asserted, Approval
<1>3. reconciliations[a].charged \in Nat
  BY <1>1, ReservedNow DEF LedgerTypeOK, Marker
<1>4. made \in EvidenceRecord /\ made.status = approvals[a].outcome
  <2>1. approvals[a].outcome \in ResultStatuses
    BY <1>2 DEF Outcomes, ResultStatuses
  <2>2. "approval_required" \in Decisions
    BY DEF Decisions
  <2> QED
    BY <1>2, <2>1, <2>2, ReservedNow, MakeTyped DEF Make
<1> HIDE DEF made
<1>5. /\ record \in EvidenceRecord
      /\ record.status \in TerminalResults
  BY <1>2, <1>3, <1>4 DEF EvidenceRecord, Outcomes, TerminalResults
<1>6. AppendRecord(a, record)
  BY <1>1 DEF RecordAsserted, made
<1> HIDE DEF record
<1>7. EvidenceTypeOK' /\ IsClosed(a)'
  BY <1>5, <1>6, ReservedNow, RecordAppended
<1>8. UNCHANGED <<ledgerVars, approvalVars, journal, world>>
  BY DEF RecordAsserted
<1>9. ApprovalsKept
  BY <1>8, ReservedNow, <1>1, ApprovalsUnchanged
<1>10. /\ journal' = NULL
       /\ worker' \in Worker /\ worker'.pc = "close" /\ worker'.act = a
  BY <1>1 DEF ControlInv, TypeOK, RecordAsserted, At, GoTo, Worker, Locations,
              WorkerInv, WorkerJournal, Acting
<1>11. Asserted(a)' /\ reconciliations'[a] # NULL
  BY <1>1, <1>8, <1>9 DEF ApprovalsKept, ledgerVars
<1>12. WorkerInv'
  BY <1>7, <1>10, <1>11
  DEF Stages, WorkerInv, WorkerJournal, WorkerAction, WorkerEvidence,
      WorkerAssertion, Acting
<1> QED
  BY <1>7, <1>8, <1>9, <1>10, <1>12, CallStep, LedgerKept

LEMMA CloseAssertedControl == ASSUME ControlInv, CloseAsserted PROVE ControlInv'
<1>1. worker.act \in Actions /\ IsClosed(worker.act)
  BY DEF ControlInv, WorkerInv, WorkerAction, WorkerEvidence, Acting,
         CloseAsserted, At
<1>2. Terminal(worker.act).id \in Nat
  BY <1>1, ReservedNow, RecordFound DEF EvidenceRecord
<1>3. ApprovalsKept
  BY <1>1, <1>2, ReservedNow, ConsumeTypes
  DEF CloseAsserted, MarkReconciled, CanMarkReconciled
<1> QED
  BY <1>3, CallStep, LedgerKept, EvidenceKept, Returned DEF CloseAsserted, Return

\* What the CLI or the clock does to the approvals disturbs nothing that the
\* worker knows.
LEMMA ApprovalsDisturbed ==
    ASSUME ControlInv, ApprovalsKept,
           UNCHANGED <<ledgerVars, evidence, journal, worker, world>>
    PROVE  ControlInv'
<1>1. worker' \in Worker
  BY DEF ControlInv, TypeOK
<1>2. /\ EvidenceTypeOK'
      /\ \A a \in Actions : Sealed(a)' = Sealed(a)
      /\ \A a \in Actions : IsClosed(a)' = IsClosed(a)
  BY EvidenceKept
<1>3. reconciliations' = reconciliations
  BY DEF ledgerVars
<1>4. WorkerInv'
  BY <1>2, <1>3
  DEF ControlInv, ApprovalsKept, WorkerInv, WorkerJournal, WorkerAction,
      WorkerEvidence, WorkerAssertion, Acting
<1> QED
  BY <1>1, <1>2, <1>4, CallStep, LedgerKept

LEMMA OutsideControl ==
    ASSUME ControlInv, NEW a \in Actions,
           \/ TimePasses(a)
           \/ \E by \in Operators : ExternalApprove(a, by)
    PROVE  ControlInv'
<1>1. CASE TimePasses(a)
  <2>1. ApprovalsKept
    BY <1>1, ReservedNow
    DEF TimePasses, TtlRunsOut, ApprovalTypeOK, ApprovalsKept, Asserted,
        HasApproval
  <2> QED
    BY <1>1, <2>1, ApprovalsDisturbed DEF TimePasses
<1>2. CASE \E by \in Operators : ExternalApprove(a, by)
  <2>1. PICK by \in Operators : ExternalApprove(a, by)
    BY <1>2
  <2>2. ApprovalsKept
    BY <2>1, ReservedNow, DecideTypes DEF ExternalApprove
  <2> QED
    BY <2>1, <2>2, ApprovalsDisturbed DEF ExternalApprove
<1> QED
  BY <1>1, <1>2

\* One stage of the active operation.
LEMMA AdvanceControl == ASSUME ControlInv, Advance PROVE ControlInv'
<1>1. /\ worker.pc \in Stages /\ worker.pc \in StagesOf(journal)
      /\ journal \in Operation /\ worker \in Worker
  BY DEF ControlInv, TypeOK, JournalTypeOK, WorkerInv, WorkerJournal, Advance
<1>2. journal.act \in Actions /\ journal.record \in EvidenceRecord
  BY <1>1 DEF Operation
<1>3. LedgerTypeOK'
  <2>1. CASE worker.pc = "budget"
    <3>1. WriteBudget(journal)
      BY <2>1 DEF Advance, WriteStage
    <3>2. journal.kind = "authorization_reconcile" =>
            journal.record.outcome # "" /\ journal.record.reconciledBy # NULL
      BY <1>1, OperationAssumption DEF ControlInv, JournalAssertion
    <3> QED
      BY <1>1, <1>2, <3>1, <3>2, ReservedNow, WriteBudgetTypes
  <2>2. CASE worker.pc # "budget"
    BY <2>2, LedgerKept DEF Advance, WriteStage
  <2> QED
    BY <2>1, <2>2
<1>4. ApprovalsKept
  <2>1. CASE worker.pc = "approval"
    BY <1>1, <1>2, <2>1, ReservedNow, WriteApprovalTypes DEF Advance, WriteStage
  <2>2. CASE worker.pc # "approval"
    BY <1>2, <2>2, ReservedNow, ApprovalsUnchanged DEF Advance, WriteStage
  <2> QED
    BY <2>1, <2>2
<1>5. EvidenceTypeOK'
  <2>1. CASE worker.pc = "evidence"
    BY <1>2, <2>1, ReservedNow, RecordAppendedOnce DEF Advance, WriteStage
  <2>2. CASE worker.pc # "evidence"
    BY <2>2, EvidenceKept DEF Advance, WriteStage
  <2> QED
    BY <2>1, <2>2
<1>6. UNCHANGED world
  BY DEF Advance
<1>7. CASE worker.pc = "finish"
  <2>1. journal' = NULL
    BY <1>7 DEF Advance, WriteStage, Finish
  <2>2. JournalTypeOK' /\ JournalAssertion'
    BY <2>1 DEF JournalTypeOK, JournalAssertion
  <2>3. worker' = Idle \/ worker' = [Idle EXCEPT !.pc = "entry", !.full = worker.full]
    BY <1>1, <1>7 DEF Advance, Return, Worker
  <2>4. worker' \in Worker /\ worker'.pc \in {"idle", "entry"}
    <3> DEFINE full == worker.full
    <3>1. full \in BOOLEAN
      BY <1>1 DEF Worker
    <3> HIDE DEF full
    <3>2. [Idle EXCEPT !.pc = "entry", !.full = full] \in Worker
      BY <3>1 DEF Idle, Worker, Locations
    <3>3. [Idle EXCEPT !.pc = "entry", !.full = full].pc = "entry"
      BY DEF Idle
    <3>4. Idle \in Worker /\ Idle.pc = "idle"
      BY DEF Idle, Worker, Locations
    <3> QED
      BY <2>3, <3>2, <3>3, <3>4 DEF full
  <2>5. WorkerInv'
    BY <2>4
    DEF Stages, WorkerInv, WorkerJournal, WorkerAction, WorkerEvidence,
        WorkerAssertion, Acting
  <2> QED
    BY <1>3, <1>4, <1>5, <1>6, <2>2, <2>4, <2>5, StoresWritten
<1>8. CASE worker.pc # "finish"
  <2>1. journal' = journal
    BY <1>8 DEF Advance, WriteStage
  <2> DEFINE next == StageAfter(journal.kind, worker.pc)
  <2>2. next \in Stages /\ next \in StagesOf(journal)
    BY <1>1, <1>8, NextStage
  <2>3. worker' = [worker EXCEPT !.pc = next]
    BY <1>8 DEF Advance, GoTo
  <2> HIDE DEF next
  <2>4. worker' \in Worker /\ worker'.pc = next
    BY <1>1, <2>2, <2>3 DEF Worker, Locations
  <2>5. journal' # NULL /\ worker'.pc \in StagesOf(journal')
    BY <1>1, <2>1, <2>2, <2>4, OperationAssumption
  <2>6. WorkerInv'
    BY <2>2, <2>4, <2>5
    DEF Stages, WorkerInv, WorkerJournal, WorkerAction, WorkerEvidence,
        WorkerAssertion, Acting
  <2> QED
    BY <1>3, <1>4, <1>5, <1>6, <2>1, <2>4, <2>6, JournalKept, StoresWritten
<1> QED
  BY <1>7, <1>8

-----------------------------------------------------------------------------
(* The step and the theorem *)

LEMMA NextControl == ASSUME ControlInv, Next PROVE ControlInv'
<1>1. CASE Entering
  BY <1>1, EnterControl, RecoverControl, RefusalControl, ExpireControl,
     AdmitControl
  DEF Entering
<1>2. CASE Applying
  BY <1>2, AdvanceControl, RefusalControl DEF Applying
<1>3. CASE Handling
  BY <1>3, HandleBlockedControl, HandleHoldControl, HandleAllowControl,
     AuthorizeControl, AnswerControl
  DEF Handling
<1>4. CASE Completing
  BY <1>4, ExecuteControl, RefusalControl, CompleteControl,
     CompleteExternalControl
  DEF Completing
<1>5. CASE Resuming
  BY <1>5, ResumePendingControl, ResumeApprovedControl, RejectControl,
     BeginControl, BeginTooLateControl, UnreserveControl,
     RecordBlockedControl, ConsumeControl
  DEF Resuming
<1>6. CASE Reconciling
  BY <1>6, ReconcileExecutionControl, ReconcileAuthorizationControl,
     ChargeAssertedControl, RecordAssertedControl, CloseAssertedControl
  DEF Reconciling
<1>7. CASE Outside
  BY <1>7, OutsideControl, RunnerRunsControl DEF Outside
<1>8. CASE Crash
  BY <1>8, CrashControl
<1> QED
  BY <1>1, <1>2, <1>3, <1>4, <1>5, <1>6, <1>7, <1>8 DEF Next

LEMMA StutterControl == ASSUME ControlInv, UNCHANGED vars PROVE ControlInv'
<1>1. UNCHANGED stores /\ UNCHANGED world /\ worker' = worker
  BY DEF vars, stores, world
<1>2. ApprovalsKept
  BY <1>1 DEF stores, ControlInv, TypeOK, approvalVars, ApprovalTypeOK,
              ApprovalsKept, Asserted, HasApproval
<1> QED
  BY <1>1, <1>2, ApprovalsDisturbed DEF stores

LEMMA ControlInvariant == Spec => []ControlInv
<1>1. ControlInv /\ [Next]_vars => ControlInv'
  BY NextControl, StutterControl
<1> QED
  BY <1>1, InitControl, PTL DEF Spec

\* Whatever calls, crashes, approvals and expiries happen, in whatever order,
\* the stores, the journal and the worker stay well-formed: no path loads a
\* file that its own validators would refuse.
THEOREM TypeCorrect == Spec => []TypeOK
<1>1. ControlInv => TypeOK
  BY DEF ControlInv
<1> QED
  BY <1>1, ControlInvariant, PTL

-----------------------------------------------------------------------------
(***************************************************************************)
(* The control loop implements the lifecycle: whatever crashes, is late or *)
(* is repeated, an action is authorized, runs and ends at most once, in    *)
(* that order.                                                             *)
(*                                                                         *)
(* The inductive invariant.  The gate itself is not inductive: that a tool *)
(* has not run yet, or that an action has not ended yet, is known to the   *)
(* worker from checks it made several writes ago, and to the journal from  *)
(* checks made by a worker that may be dead.                               *)
(***************************************************************************)

Held == {"pending", "approved"}
Early == {"pending", "approved", "rejected", "expired"}
Decided == {"approved", "executing", "consumed"}

WasRefused(a) == With(a, {"blocked", "rejected", "expired"}) # {}

\* A prepared record knows its place.
IdsArePlaces ==
    \A a \in Actions : \A i \in DOMAIN evidence[a] : evidence[a][i].id = i

RefusedUnsealed == \A a \in Actions : WasRefused(a) => ~Sealed(a)

RanSealed ==
    \A a \in Actions :
        /\ executed[a] \in {0, 1}
        /\ executed[a] = 1 => Sealed(a)
        /\ runner[a] # "unknown" => Sealed(a)
        /\ runner[a] = "allowed" => executed[a] = 0
        /\ runner[a] = "ran" => executed[a] = 1

\* Only an approval that was spent has an authorization, and what is held for a
\* decision has not ended.
HeldUnsealed ==
    \A a \in Actions :
        /\ Is(a, Early) => ~Sealed(a)
        /\ Is(a, Held) => ~IsClosed(a)

DecidedBySomeone ==
    \A a \in Actions : Is(a, Decided) => approvals[a].decidedBy # NULL

WorkerLifecycle ==
    /\ worker.pc \in {"authorize", "unreserve", "blocked"} =>
         ~Sealed(worker.act) /\ ~IsClosed(worker.act) /\ ~Is(worker.act, Early)
    /\ worker.pc \in {"answer", "execute"} =>
         runner[worker.act] = "unknown" /\ executed[worker.act] = 0
    /\ worker.pc \in {"answer", "execute", "complete", "assert"} =>
         ~IsClosed(worker.act)
    /\ worker.pc = "complete" => executed[worker.act] = 1
    /\ worker.pc \in {"charge", "assert", "close"} => ~Is(worker.act, Early)

\* The prepared record of an active operation is the last one, or the next.
Appended(op) ==
    /\ Len(evidence[op.act]) = op.record.id
    /\ evidence[op.act][op.record.id] = op.record
Unappended(op) == Len(evidence[op.act]) + 1 = op.record.id

Deciding == {"approval_reject", "approval_expire"}

\* What the kind of an operation says about its record.
RecordOf(op) ==
    /\ op.kind = "approval_create" => op.record.status = "pending_approval"
    /\ op.kind \in Deciding => op.record.status \in {"rejected", "expired"}
    /\ op.kind \in Deciding \cup {"execution_complete"} => op.record.reconciledBy = NULL
    /\ op.kind = "authorization_reconcile" =>
         op.record.status \in Outcomes /\ op.record.reconciledBy # NULL
    /\ op.kind = "execution_complete" =>
         op.record.status \in {"succeeded", "failed"} /\ executed[op.act] = 1

\* Why it may still be appended.
MayEnd(op) ==
    /\ op.kind \in Deciding =>
         /\ ~Sealed(op.act)
         /\ Unappended(op) => ~IsClosed(op.act)
         /\ Appended(op) => ~Is(op.act, Held)
    /\ op.kind = "approval_create" => ~Sealed(op.act) /\ ~IsClosed(op.act)
    /\ op.kind \in {"authorization_reconcile", "execution_complete"} =>
         ~Is(op.act, Early)

\* What the stages so far have established.
StageReached(op) ==
    /\ worker.pc = "evidence" /\ Unappended(op) => ~IsClosed(op.act)
    /\ worker.pc \in {"budget", "evidence"} /\ op.kind \in Deciding =>
         ~Is(op.act, Held)

JournalLifecycle ==
    journal # NULL =>
        /\ RecordOf(journal)
        /\ Appended(journal) \/ Unappended(journal)
        /\ MayEnd(journal)
        /\ StageReached(journal)

LifecycleInv ==
    /\ IdsArePlaces /\ RefusedUnsealed /\ RanSealed
    /\ HeldUnsealed /\ DecidedBySomeone
    /\ WorkerLifecycle /\ JournalLifecycle

\* A step keeps the invariant and is a step of the lifecycle, or none.
LifecycleStep == LifecycleInv' /\ [Lifecycle!Next]_(Lifecycle!vars)

-----------------------------------------------------------------------------
(* The evidence as the lifecycle sees it *)

LEMMA EvidenceRead ==
    ASSUME EvidenceTypeOK, NEW a \in Actions
    PROVE  /\ Len(evidence[a]) \in Nat
           /\ DOMAIN evidence[a] = 1..Len(evidence[a])
           /\ \A i \in 1..Len(evidence[a]) : evidence[a][i] \in EvidenceRecord
BY DEF EvidenceTypeOK

\* The last terminal record is one of the records.
LEMMA TerminalFound ==
    ASSUME EvidenceTypeOK, NEW a \in Actions, IsClosed(a)
    PROVE  \E i \in Terminals(a) : Terminal(a) = evidence[a][i]
<1>1. Len(evidence[a]) \in Nat /\ Terminals(a) \subseteq 1..Len(evidence[a])
  BY EvidenceRead DEF Terminals, With
<1>2. Latest(Terminals(a)) \in Terminals(a)
  BY <1>1, LatestIn DEF IsClosed
<1> QED
  BY <1>2 DEF Terminal

\* What one more record adds to the records with given statuses.
LEMMA AppendedWith ==
    ASSUME EvidenceTypeOK, NEW a \in Actions, NEW record \in EvidenceRecord,
           AppendRecord(a, record), NEW statuses
    PROVE  /\ \A b \in Actions \ {a} :
                With(b, statuses)' = With(b, statuses)
           /\ With(a, statuses)' =
                With(a, statuses)
                \cup (IF record.status \in statuses
                        THEN {Len(evidence[a]) + 1} ELSE {})
<1> DEFINE n == Len(evidence[a])
<1>1. /\ evidence'[a] = Append(evidence[a], record)
      /\ \A b \in Actions \ {a} : evidence'[b] = evidence[b]
  BY DEF EvidenceTypeOK, AppendRecord
<1>2. /\ n \in Nat
      /\ DOMAIN evidence[a] = 1..n
      /\ DOMAIN evidence'[a] = 1..(n + 1)
      /\ \A i \in 1..n : evidence'[a][i] = evidence[a][i]
      /\ evidence'[a][n + 1] = record
  BY <1>1 DEF EvidenceTypeOK
<1>3. 1..(n + 1) = 1..n \cup {n + 1} /\ n + 1 \notin 1..n
  BY <1>2
<1> HIDE DEF n
<1>4. \A b \in Actions \ {a} : With(b, statuses)' = With(b, statuses)
  BY <1>1 DEF With
<1>5. With(a, statuses)' =
        With(a, statuses)
        \cup (IF record.status \in statuses THEN {n + 1} ELSE {})
  BY <1>2, <1>3 DEF With
<1> QED
  BY <1>4, <1>5 DEF n

\* What one more record changes of an action's view.
LEMMA AppendedView ==
    ASSUME EvidenceTypeOK, NEW a \in Actions, NEW record \in EvidenceRecord,
           AppendRecord(a, record)
    PROVE  /\ \A b \in Actions \ {a} :
                /\ Sealed(b)' = Sealed(b)
                /\ IsClosed(b)' = IsClosed(b)
                /\ WasRefused(b)' = WasRefused(b)
                /\ EndingOf(b)' = EndingOf(b)
           /\ Sealed(a)' = (Sealed(a) \/ record.status = "skipped")
           /\ IsClosed(a)' = (IsClosed(a) \/ record.status \in TerminalResults)
           /\ WasRefused(a)' =
                (WasRefused(a) \/ record.status \in {"blocked", "rejected", "expired"})
           /\ record.status \notin TerminalResults => EndingOf(a)' = EndingOf(a)
           /\ record.status \in TerminalResults /\ ~IsClosed(a) =>
                EndingOf(a)' = IF record.reconciledBy # NULL THEN "asserted"
                                                             ELSE record.status
<1> DEFINE n == Len(evidence[a])
<1>1. /\ evidence'[a] = Append(evidence[a], record)
      /\ \A b \in Actions \ {a} : evidence'[b] = evidence[b]
  BY DEF EvidenceTypeOK, AppendRecord
<1>2. /\ n \in Nat
      /\ Terminals(a) \subseteq 1..n
      /\ \A i \in 1..n : evidence'[a][i] = evidence[a][i]
      /\ evidence'[a][n + 1] = record
  BY <1>1 DEF EvidenceTypeOK, Terminals, With
<1> HIDE DEF n
<1>3. /\ \A b \in Actions \ {a} : Sealed(b)' = Sealed(b)
      /\ Sealed(a)' = (Sealed(a) \/ record.status = "skipped")
  BY AppendedWith, ZenonT(60) DEF Sealed
<1>4. /\ \A b \in Actions \ {a} : WasRefused(b)' = WasRefused(b)
      /\ WasRefused(a)' =
           (WasRefused(a) \/ record.status \in {"blocked", "rejected", "expired"})
  <2> DEFINE refusals == {"blocked", "rejected", "expired"}
  <2> HIDE DEF refusals
  <2>1. /\ \A b \in Actions \ {a} : With(b, refusals)' = With(b, refusals)
        /\ With(a, refusals)' =
             With(a, refusals)
             \cup (IF record.status \in refusals THEN {n + 1} ELSE {})
    BY AppendedWith DEF n
  <2> QED
    BY <2>1 DEF WasRefused, refusals
<1>5. /\ \A b \in Actions \ {a} : Terminals(b)' = Terminals(b)
      /\ Terminals(a)' =
           Terminals(a) \cup (IF record.status \in TerminalResults
                                THEN {n + 1} ELSE {})
  BY AppendedWith DEF Terminals, n
<1>6. /\ \A b \in Actions \ {a} : IsClosed(b)' = IsClosed(b)
      /\ IsClosed(a)' = (IsClosed(a) \/ record.status \in TerminalResults)
  BY <1>5 DEF IsClosed
<1>7. ASSUME NEW b \in Actions \ {a}
      PROVE  EndingOf(b)' = EndingOf(b)
  BY <1>1, <1>5, <1>6 DEF EndingOf, Terminal
<1>8. ASSUME record.status \notin TerminalResults
      PROVE  EndingOf(a)' = EndingOf(a)
  <2>1. Terminals(a)' = Terminals(a) /\ IsClosed(a)' = IsClosed(a)
    <3>1. Terminals(a)' = Terminals(a) \cup {}
      BY <1>5, <1>8
    <3> QED
      BY <3>1 DEF IsClosed
  <2>2. IsClosed(a) => Latest(Terminals(a)) \in Terminals(a)
    BY <1>2, LatestIn DEF IsClosed
  <2>3. IsClosed(a) => Terminal(a)' = Terminal(a)
    BY <1>2, <2>1, <2>2 DEF Terminal
  <2> QED
    BY <2>1, <2>3 DEF EndingOf
<1>9. ASSUME record.status \in TerminalResults, ~IsClosed(a)
      PROVE  EndingOf(a)' = IF record.reconciledBy # NULL THEN "asserted"
                                                          ELSE record.status
  <2>1. Terminals(a)' = {n + 1}
    BY <1>5, <1>9 DEF IsClosed
  <2>2. Latest({n + 1}) = n + 1
    BY <1>2 DEF Latest
  <2>3. Terminal(a)' = record /\ IsClosed(a)'
    BY <1>2, <2>1, <2>2 DEF Terminal, IsClosed
  <2> QED
    BY <2>3 DEF EndingOf
<1> QED
  BY <1>3, <1>4, <1>6, <1>7, <1>8, <1>9

LEMMA EvidenceStays ==
    ASSUME UNCHANGED evidence
    PROVE  \A a \in Actions :
             /\ Sealed(a)' = Sealed(a)
             /\ IsClosed(a)' = IsClosed(a)
             /\ WasRefused(a)' = WasRefused(a)
             /\ EndingOf(a)' = EndingOf(a)
BY DEF Sealed, IsClosed, WasRefused, EndingOf, Terminal, Terminals, With

LEMMA ViewKept ==
    ASSUME \A a \in Actions :
             Sealed(a)' = Sealed(a) /\ EndingOf(a)' = EndingOf(a),
           executed' = executed
    PROVE  UNCHANGED Lifecycle!vars
BY DEF Lifecycle!vars, Sealed

\* What happened before an action ended, or was authorized, stands.
LEMMA PlacesKept ==
    ASSUME EvidenceTypeOK, IdsArePlaces, NEW a \in Actions,
           NEW record \in EvidenceRecord, AppendRecord(a, record),
           record.id = Len(evidence[a]) + 1
    PROVE  IdsArePlaces'
<1>1. /\ evidence'[a] = Append(evidence[a], record)
      /\ \A b \in Actions \ {a} : evidence'[b] = evidence[b]
  BY DEF EvidenceTypeOK, AppendRecord
<1>2. \A i \in DOMAIN evidence'[a] : evidence'[a][i].id = i
  BY <1>1 DEF EvidenceTypeOK, IdsArePlaces
<1>3. \A b \in Actions \ {a} : \A i \in DOMAIN evidence'[b] : evidence'[b][i].id = i
  BY <1>1 DEF IdsArePlaces
<1> QED
  BY <1>2, <1>3 DEF IdsArePlaces

\* A terminal record is a step of the lifecycle.
LEMMA EndStep ==
    ASSUME EvidenceTypeOK, NEW a \in Actions, NEW record \in EvidenceRecord,
           AppendRecord(a, record), executed' = executed,
           ~IsClosed(a), record.status \in TerminalResults,
           record.reconciledBy = NULL =>
             \/ record.status \in {"blocked", "rejected", "expired"} /\ ~Sealed(a)
             \/ record.status \in {"succeeded", "failed"} /\ executed[a] = 1
    PROVE  Lifecycle!Next
<1> DEFINE how == IF record.reconciledBy # NULL THEN "asserted" ELSE record.status
<1>1. /\ \A b \in Actions \ {a} :
           Sealed(b)' = Sealed(b) /\ EndingOf(b)' = EndingOf(b)
      /\ Sealed(a)' = Sealed(a)
      /\ EndingOf(a) = "open"
      /\ EndingOf(a)' = how
  BY AppendedView DEF TerminalResults, EndingOf, Sealed
<1>2. how \in Lifecycle!Refusals \cup Lifecycle!Results \cup Lifecycle!Assertions
  BY DEF Lifecycle!Refusals, Lifecycle!Results, Lifecycle!Assertions
<1>3. /\ how \in Lifecycle!Refusals => ~Sealed(a)
      /\ how \in Lifecycle!Results => executed[a] = 1
  BY DEF Lifecycle!Refusals, Lifecycle!Results
<1> HIDE DEF how
<1>4. Lifecycle!End(a, how)
  <2>1. [b \in Actions |-> EndingOf(b)]' =
          [[b \in Actions |-> EndingOf(b)] EXCEPT ![a] = how]
    BY <1>1
  <2>2. [b \in Actions |-> With(b, {"skipped"}) # {}]' =
          [b \in Actions |-> With(b, {"skipped"}) # {}]
    BY <1>1 DEF Sealed
  <2> QED
    BY <1>1, <1>3, <2>1, <2>2 DEF Lifecycle!End, Lifecycle!Open, Sealed
<1> QED
  BY <1>2, <1>4 DEF Lifecycle!Next

\* A sealed authorization is a step of the lifecycle.
LEMMA AuthorizeStep ==
    ASSUME EvidenceTypeOK, NEW a \in Actions, NEW record \in EvidenceRecord,
           AppendRecord(a, record), executed' = executed,
           ~IsClosed(a), ~Sealed(a), record.status = "skipped"
    PROVE  Lifecycle!Next
<1>1. /\ \A b \in Actions \ {a} :
           Sealed(b)' = Sealed(b) /\ EndingOf(b)' = EndingOf(b)
      /\ Sealed(a)'
      /\ EndingOf(a) = "open"
      /\ EndingOf(a)' = EndingOf(a)
  BY AppendedView DEF TerminalResults, EndingOf
<1>2. Lifecycle!Authorize(a)
  <2>1. [b \in Actions |-> EndingOf(b)]' = [b \in Actions |-> EndingOf(b)]
    BY <1>1
  <2>2. [b \in Actions |-> With(b, {"skipped"}) # {}]' =
          [[b \in Actions |-> With(b, {"skipped"}) # {}] EXCEPT ![a] = TRUE]
    BY <1>1, Zenon DEF Sealed
  <2> QED
    BY <1>1, <2>1, <2>2 DEF Lifecycle!Authorize, Lifecycle!Open, Sealed
<1> QED
  BY <1>2 DEF Lifecycle!Next

\* A side effect is a step of the lifecycle.
LEMMA RunStep ==
    ASSUME ControlInv, NEW a \in Actions, UNCHANGED evidence, Sealed(a),
           executed[a] = 0, executed' = [executed EXCEPT ![a] = @ + 1]
    PROVE  Lifecycle!Next
<1>1. executed' = [executed EXCEPT ![a] = 1]
  OBVIOUS
<1>2. /\ [b \in Actions |-> EndingOf(b)]' = [b \in Actions |-> EndingOf(b)]
      /\ [b \in Actions |-> With(b, {"skipped"}) # {}]' =
           [b \in Actions |-> With(b, {"skipped"}) # {}]
  BY EvidenceStays DEF Sealed
<1>3. Lifecycle!Run(a)
  BY <1>1, <1>2 DEF Lifecycle!Run, Sealed
<1> QED
  BY <1>3 DEF Lifecycle!Next

-----------------------------------------------------------------------------
(* The approvals as the lifecycle sees them *)

\* Nothing becomes held or decidable again, and every decision has an author.
ApprovalsLife ==
    /\ \A b \in Actions : Is(b, Early)' => Is(b, Early)
    /\ \A b \in Actions : Is(b, Held)' => Is(b, Held)
    /\ DecidedBySomeone'

LEMMA ApprovalsStay ==
    ASSUME DecidedBySomeone, UNCHANGED approvals
    PROVE  ApprovalsLife
BY DEF ApprovalsLife, DecidedBySomeone, Is, HasApproval

LEMMA PutLife ==
    ASSUME ApprovalTypeOK, DecidedBySomeone, NEW a \in Actions,
           HasApproval(a), NEW approval, Put(a, approval),
           approval.status \in Early => approvals[a].status \in Early,
           approval.status \in Held => approvals[a].status \in Held,
           approval.status \in Decided => approval.decidedBy # NULL
    PROVE  ApprovalsLife
<1>1. /\ approvals'[a] = approval
      /\ \A b \in Actions \ {a} : approvals'[b] = approvals[b]
  BY DEF ApprovalTypeOK, Put
<1>2. /\ \A b \in Actions \ {a} : Is(b, Early)' = Is(b, Early)
      /\ \A b \in Actions \ {a} : Is(b, Held)' = Is(b, Held)
      /\ \A b \in Actions \ {a} : Is(b, Decided)' = Is(b, Decided)
  BY <1>1 DEF Is, HasApproval
<1>3. /\ Is(a, Early)' => Is(a, Early)
      /\ Is(a, Held)' => Is(a, Held)
      /\ Is(a, Decided)' => approvals'[a].decidedBy # NULL
  BY <1>1 DEF Is, HasApproval
<1> QED
  BY <1>1, <1>2, <1>3 DEF ApprovalsLife, DecidedBySomeone

LEMMA DecideLife ==
    ASSUME ApprovalTypeOK, DecidedBySomeone, NEW a \in Actions,
           NEW approved \in BOOLEAN, NEW by,
           approved => by # NULL, Decide(a, approved, by)
    PROVE  ApprovalsLife
<1> DEFINE new == [approvals[a] EXCEPT
                     !.status = IF approved THEN "approved" ELSE "rejected",
                     !.decidedBy = by]
<1>1. HasApproval(a) /\ approvals[a] \in Approval /\ approvals[a].status = "pending"
  BY ApprovalFound DEF Decide, CanDecide, Is
<1>2. /\ new.status = IF approved THEN "approved" ELSE "rejected"
      /\ new.decidedBy = by
  BY <1>1 DEF Approval
<1>3. Put(a, new)
  BY DEF Decide
<1> HIDE DEF new
<1> QED
  BY <1>1, <1>2, <1>3, PutLife DEF Early, Held, Decided

\* The operations that change the status of what is neither lost nor held
\* anew; the decider stays.
LEMMA StatusLife ==
    ASSUME ApprovalTypeOK, DecidedBySomeone, NEW a \in Actions,
           HasApproval(a), NEW status \in ApprovalStatuses,
           NEW approval \in Approval, Put(a, approval),
           approval.status = status,
           approval.decidedBy = approvals[a].decidedBy,
           status \in Early => approvals[a].status \in Early,
           status \in Held => approvals[a].status \in Held,
           status \in Decided => approvals[a].status \in Decided
    PROVE  ApprovalsLife
<1>1. status \in Decided => approval.decidedBy # NULL
  BY DEF DecidedBySomeone, Is
<1> QED
  BY <1>1, PutLife

LEMMA ExpiredLife ==
    ASSUME ApprovalTypeOK, DecidedBySomeone, NEW a \in Actions,
           Is(a, Early),
           Put(a, [approvals[a] EXCEPT !.status = "expired"])
    PROVE  ApprovalsLife
<1> DEFINE new == [approvals[a] EXCEPT !.status = "expired"]
<1>1. HasApproval(a) /\ approvals[a] \in Approval
  BY ApprovalFound DEF Is
<1>2. new \in Approval /\ new.status = "expired"
      /\ new.decidedBy = approvals[a].decidedBy
  BY <1>1 DEF Approval, ApprovalStatuses
<1> QED
  BY <1>1, <1>2, StatusLife DEF Is, Early, Held, Decided, ApprovalStatuses

LEMMA BeginLife ==
    ASSUME ApprovalTypeOK, DecidedBySomeone, NEW a \in Actions,
           BeginExecution(a)
    PROVE  /\ ApprovalsLife
           /\ Is(a, Held) /\ ~Is(a, Early)'
<1> DEFINE new == [approvals[a] EXCEPT !.status = "executing"]
<1>1. HasApproval(a) /\ approvals[a] \in Approval /\ approvals[a].status = "approved"
  BY ApprovalFound DEF BeginExecution, CanBegin, Is
<1>2. new \in Approval /\ new.status = "executing"
      /\ new.decidedBy = approvals[a].decidedBy
  BY <1>1 DEF Approval, ApprovalStatuses
<1>3. Put(a, new)
  BY DEF BeginExecution
<1>4. ApprovalsLife
  BY <1>1, <1>2, <1>3, StatusLife DEF Early, Held, Decided, ApprovalStatuses
<1>5. approvals'[a] = new
  BY <1>3 DEF Put, ApprovalTypeOK
<1> QED
  BY <1>1, <1>2, <1>4, <1>5 DEF Is, Held, Early

LEMMA ConsumedLife ==
    ASSUME ApprovalTypeOK, DecidedBySomeone, NEW a \in Actions,
           Is(a, {"executing", "consumed"}), NEW record \in Nat,
           Put(a, [approvals[a] EXCEPT !.status = "consumed", !.record = record])
    PROVE  ApprovalsLife
<1> DEFINE new == [approvals[a] EXCEPT !.status = "consumed", !.record = record]
<1>1. HasApproval(a) /\ approvals[a] \in Approval
  BY ApprovalFound DEF Is
<1>2. new \in Approval /\ new.status = "consumed"
      /\ new.decidedBy = approvals[a].decidedBy
  BY <1>1 DEF Approval, ApprovalStatuses
<1> QED
  BY <1>1, <1>2, StatusLife DEF Is, Early, Held, Decided, ApprovalStatuses

LEMMA AssertedLife ==
    ASSUME ApprovalTypeOK, DecidedBySomeone, NEW a \in Actions,
           NEW outcome \in Outcomes, NEW by \in Operators,
           BeginReconciliation(a, outcome, by)
    PROVE  ApprovalsLife /\ ~Is(a, Early)'
<1> DEFINE new == [approvals[a] EXCEPT !.outcome = outcome, !.reconciledBy = by]
<1>1. /\ HasApproval(a) /\ approvals[a] \in Approval
      /\ approvals[a].status \in {"executing", "consumed"}
  BY ApprovalFound DEF BeginReconciliation, CanConsume, IsReconciledWith, Is
<1>2. CASE UNCHANGED approvalVars
  BY <1>1, <1>2, ApprovalsStay DEF approvalVars, Is, Early
<1>3. CASE Put(a, new)
  <2>1. /\ new \in Approval /\ new.status = approvals[a].status
        /\ new.decidedBy = approvals[a].decidedBy
    BY <1>1 DEF Approval
  <2>2. ApprovalsLife
    BY <1>1, <1>3, <2>1, StatusLife DEF Early, Held, Decided, ApprovalStatuses
  <2>3. approvals'[a] = new
    BY <1>3 DEF Put, ApprovalTypeOK
  <2> QED
    BY <1>1, <2>1, <2>2, <2>3 DEF Is, Early
<1> QED
  BY <1>2, <1>3 DEF BeginReconciliation

-----------------------------------------------------------------------------
(* Steps that append no record and run no tool *)

LEMMA QuietStep ==
    ASSUME ControlInv, LifecycleInv,
           UNCHANGED <<evidence, executed, runner>>,
           ApprovalsLife, WorkerLifecycle', JournalLifecycle'
    PROVE  LifecycleStep
<1>1. IdsArePlaces' /\ RefusedUnsealed' /\ RanSealed'
  BY EvidenceStays
  DEF LifecycleInv, IdsArePlaces, RefusedUnsealed, RanSealed
<1>2. HeldUnsealed'
  BY EvidenceStays DEF LifecycleInv, HeldUnsealed, ApprovalsLife
<1>3. UNCHANGED Lifecycle!vars
  BY EvidenceStays, ViewKept
<1> QED
  BY <1>1, <1>2, <1>3 DEF LifecycleInv, LifecycleStep, ApprovalsLife

\* Where the worker knows nothing that the lifecycle depends on.
Elsewhere == Locations \
    {"authorize", "unreserve", "blocked", "answer", "execute", "complete",
     "charge", "assert", "close"}

LEMMA WorkerElsewhere ==
    ASSUME worker'.pc \in Elsewhere
    PROVE  WorkerLifecycle'
BY DEF Elsewhere, WorkerLifecycle

LEMMA Idles ==
    ASSUME worker' = Idle
    PROVE  worker'.pc = "idle" /\ worker'.pc \in Elsewhere
BY DEF Idle, Elsewhere, Locations

LEMMA JournalStays ==
    ASSUME ControlInv, LifecycleInv, ApprovalsLife,
           UNCHANGED <<evidence, executed, journal>>,
           journal # NULL => StageReached(journal)'
    PROVE  JournalLifecycle'
<1> SUFFICES ASSUME journal # NULL
             PROVE  JournalLifecycle'
  BY DEF JournalLifecycle
<1>1. journal.act \in Actions
  BY DEF ControlInv, TypeOK, JournalTypeOK, Operation
<1>2. RecordOf(journal)' /\ (Appended(journal) \/ Unappended(journal))'
  BY DEF LifecycleInv, JournalLifecycle, RecordOf, Appended, Unappended
<1>3. MayEnd(journal)'
  BY <1>1, EvidenceStays
  DEF LifecycleInv, JournalLifecycle, ApprovalsLife, MayEnd, Appended, Unappended
<1> QED
  BY <1>2, <1>3 DEF JournalLifecycle

\* A step that moves only the worker, to where it applies nothing.
LEMMA MoveStep ==
    ASSUME ControlInv, LifecycleInv, UNCHANGED <<stores, executed, runner>>,
           worker'.pc \in Elsewhere \ {"budget", "evidence"}
    PROVE  LifecycleStep
<1>1. ApprovalsLife /\ UNCHANGED <<evidence, journal>>
  BY ApprovalsStay DEF LifecycleInv, stores, approvalVars
<1>2. StageReached(journal)'
  BY DEF StageReached
<1>3. JournalLifecycle'
  BY <1>1, <1>2, JournalStays
<1> QED
  BY <1>1, <1>3, QuietStep, WorkerElsewhere

LEMMA EnteringMoves ==
    ASSUME ControlInv, LifecycleInv,
           \/ \E full \in BOOLEAN : Enter(full)
           \/ RefuseUnsafe \/ Admit \/ Leave \/ RefuseRecovery \/ ToolRaises
           \/ Crash
           \/ \E a \in Actions, by \in Operators : ResumeApproved(a, by)
    PROVE  LifecycleStep
<1>1. UNCHANGED <<stores, executed, runner>>
  BY DEF Enter, RefuseUnsafe, Admit, Leave, RefuseRecovery, ToolRaises, Crash,
         ResumeApproved, world
<1>2. worker'.pc \in {"idle", "entry", "ready", "begin"}
  <2>1. ASSUME NEW full \in BOOLEAN, Enter(full)
        PROVE  worker'.pc = "entry"
    BY <2>1 DEF Enter, Idle
  <2>2. CASE RefuseUnsafe \/ Leave \/ RefuseRecovery \/ ToolRaises \/ Crash
    BY <2>2, Idles
    DEF RefuseUnsafe, Leave, RefuseRecovery, ToolRaises, Crash, Return
  <2>3. CASE Admit
    BY <2>3 DEF ControlInv, TypeOK, Worker, Admit, GoTo
  <2>4. CASE \E a \in Actions, by \in Operators : ResumeApproved(a, by)
    BY <2>4 DEF ControlInv, TypeOK, Worker, ResumeApproved
  <2> QED
    BY <2>1, <2>2, <2>3, <2>4
<1>3. worker'.pc \in Elsewhere \ {"budget", "evidence"}
  BY <1>2 DEF Elsewhere, Locations
<1> QED
  BY <1>1, <1>3, MoveStep

\* A decision is applied to the approval before the budget.
LEMMA FirstStages ==
    ASSUME NEW kind \in OperationKinds
    PROVE  /\ FirstStage(kind) \in Elsewhere \ {"evidence"}
           /\ kind \in Deciding => FirstStage(kind) = "approval"
BY DEF OperationKinds, FirstStage, Route, Elsewhere, Locations, Stages, Deciding

LEMMA RecoverLife ==
    ASSUME ControlInv, LifecycleInv, Recover
    PROVE  LifecycleStep
<1>1. journal.kind \in OperationKinds /\ worker \in Worker
  BY DEF ControlInv, TypeOK, JournalTypeOK, Operation, Recover
<1>2. worker'.pc = FirstStage(journal.kind)
  BY <1>1 DEF Recover, Worker
<1>3. ApprovalsLife /\ UNCHANGED <<evidence, journal, executed, runner>>
  BY ApprovalsStay DEF LifecycleInv, Recover, stores, approvalVars, world
<1>4. StageReached(journal)'
  BY <1>1, <1>2, <1>3, FirstStages DEF StageReached
<1>5. JournalLifecycle' /\ WorkerLifecycle'
  BY <1>1, <1>2, <1>3, <1>4, JournalStays, FirstStages, WorkerElsewhere
<1> QED
  BY <1>3, <1>5, QuietStep

\* What the CLI and the clock do.
LEMMA OutsideLife ==
    ASSUME ControlInv, LifecycleInv, NEW a \in Actions,
           \/ TimePasses(a)
           \/ \E by \in Operators : ExternalApprove(a, by)
    PROVE  LifecycleStep
<1>1. ApprovalsLife
  <2>1. CASE TimePasses(a)
    BY <2>1, ApprovalsStay DEF LifecycleInv, TimePasses, TtlRunsOut
  <2>2. CASE \E by \in Operators : ExternalApprove(a, by)
    <3>1. PICK by \in Operators : Decide(a, TRUE, by)
      BY <2>2 DEF ExternalApprove
    <3> QED
      BY <3>1, NullAssumption, DecideLife DEF LifecycleInv, ControlInv, TypeOK
  <2> QED
    BY <2>1, <2>2
<1>2. UNCHANGED <<evidence, journal, worker, executed, runner>>
  BY DEF TimePasses, ExternalApprove, world
<1>3. journal # NULL => journal.act \in Actions
  BY DEF ControlInv, TypeOK, JournalTypeOK, Operation
<1>4. journal # NULL => StageReached(journal)'
  BY <1>1, <1>2, <1>3, EvidenceStays
  DEF LifecycleInv, JournalLifecycle, StageReached, ApprovalsLife, Unappended
<1>5. WorkerLifecycle'
  <2>1. worker.pc \in Acting => worker.act \in Actions
    BY DEF ControlInv, WorkerInv, WorkerAction
  <2> QED
    BY <1>1, <1>2, <2>1, EvidenceStays
    DEF LifecycleInv, WorkerLifecycle, ApprovalsLife, Acting
<1> QED
  BY <1>1, <1>2, <1>4, <1>5, JournalStays, QuietStep

-----------------------------------------------------------------------------
(* Calls *)

\* Past the entry nothing is journaled.
LEMMA CallQuiet ==
    ASSUME ControlInv, LifecycleInv, worker.pc \in Acting \cup {"ready"},
           UNCHANGED <<evidence, journal, world>>,
           ApprovalsLife, WorkerLifecycle'
    PROVE  LifecycleStep
<1>1. journal' = NULL
  BY DEF ControlInv, WorkerInv, WorkerJournal
<1>2. JournalLifecycle'
  BY <1>1 DEF JournalLifecycle
<1> QED
  BY <1>2, QuietStep DEF world

LEMMA FreshLife ==
    ASSUME ControlInv, NEW a \in Actions, Fresh(a)
    PROVE  /\ ~Sealed(a) /\ ~IsClosed(a) /\ ~WasRefused(a)
           /\ ~HasApproval(a)
BY DEF Fresh, Sealed, IsClosed, WasRefused, Terminals, With

LEMMA HandleAllowLife ==
    ASSUME ControlInv, LifecycleInv, NEW a \in Actions, NEW estimate,
           NEW external \in BOOLEAN, HandleAllow(a, estimate, external)
    PROVE  LifecycleStep
<1>1. /\ worker'.pc = "authorize" /\ worker'.act = a
      /\ worker.pc \in Acting \cup {"ready"}
      /\ UNCHANGED <<evidence, approvals, journal, world>>
  BY DEF ControlInv, TypeOK, Worker, HandleAllow, At, approvalVars
<1>2. ~Sealed(a)' /\ ~IsClosed(a)' /\ ~Is(a, Early)'
  BY <1>1, FreshLife, EvidenceStays DEF HandleAllow, Is, HasApproval
<1>3. WorkerLifecycle'
  BY <1>1, <1>2 DEF WorkerLifecycle
<1>4. ApprovalsLife
  BY <1>1, ApprovalsStay DEF LifecycleInv
<1> QED
  BY <1>1, <1>3, <1>4, CallQuiet

LEMMA ResumePendingLife ==
    ASSUME ControlInv, LifecycleInv, NEW a \in Actions, NEW by \in Operators,
           ResumePending(a, by)
    PROVE  LifecycleStep
<1>1. worker'.pc = "begin" /\ worker.pc \in Acting \cup {"ready"}
  BY DEF ControlInv, TypeOK, Worker, ResumePending, At
<1>2. WorkerLifecycle'
  BY <1>1 DEF WorkerLifecycle
<1>3. ApprovalsLife
  BY NullAssumption, DecideLife
  DEF LifecycleInv, ControlInv, TypeOK, ResumePending
<1> QED
  BY <1>1, <1>2, <1>3, CallQuiet DEF ResumePending

LEMMA BeginsLife ==
    ASSUME ControlInv, LifecycleInv,
           (\E allowed \in BOOLEAN : Begin(allowed)) \/ BeginTooLate
    PROVE  LifecycleStep
<1>1. PICK a \in Actions : a = worker.act
  BY DEF ControlInv, WorkerInv, WorkerAction, Acting, Begin, BeginTooLate, At
<1>2. worker.pc \in Acting /\ ApprovalTypeOK /\ DecidedBySomeone
      /\ UNCHANGED <<evidence, journal, world>>
  BY DEF Begin, BeginTooLate, At, Acting, ControlInv, TypeOK, LifecycleInv
<1>3. CASE \E allowed \in BOOLEAN : Begin(allowed)
  <2>1. ApprovalsLife /\ Is(a, Held) /\ ~Is(a, Early)'
    BY <1>1, <1>2, <1>3, BeginLife DEF Begin
  <2>2. ~Sealed(a)' /\ ~IsClosed(a)'
    BY <1>2, <2>1, EvidenceStays DEF LifecycleInv, HeldUnsealed, Is, Held, Early
  <2>3. worker'.pc \in {"authorize", "unreserve"} /\ worker'.act = a
    BY <1>1, <1>3 DEF ControlInv, TypeOK, Worker, Begin, GoTo
  <2>4. WorkerLifecycle'
    BY <2>1, <2>2, <2>3 DEF WorkerLifecycle
  <2> QED
    BY <1>2, <2>1, <2>4, CallQuiet
<1>4. CASE BeginTooLate
  <2>1. ApprovalsLife
    BY <1>1, <1>2, <1>4, ExpiredLife
    DEF BeginTooLate, BeginExecutionTooLate, Is, Early
  <2>2. WorkerLifecycle'
    BY <1>4, Idles, WorkerElsewhere DEF BeginTooLate, Return
  <2> QED
    BY <1>2, <2>1, <2>2, CallQuiet
<1> QED
  BY <1>3, <1>4

LEMMA UnreserveLife ==
    ASSUME ControlInv, LifecycleInv, Unreserve
    PROVE  LifecycleStep
<1>1. /\ worker.pc = "unreserve" /\ worker'.pc = "blocked"
      /\ worker'.act = worker.act
      /\ UNCHANGED <<evidence, approvals, journal, world>>
  BY DEF ControlInv, TypeOK, Worker, Unreserve, At, GoTo, approvalVars
<1>2. worker.act \in Actions
  BY <1>1 DEF ControlInv, WorkerInv, WorkerAction, Acting
<1>3. WorkerLifecycle'
  BY <1>1, <1>2, EvidenceStays
  DEF LifecycleInv, WorkerLifecycle, Is, HasApproval
<1>4. ApprovalsLife
  BY <1>1, ApprovalsStay DEF LifecycleInv
<1> QED
  BY <1>1, <1>3, <1>4, CallQuiet DEF Acting

LEMMA ConsumesLife ==
    ASSUME ControlInv, LifecycleInv, Consume \/ CloseAsserted
    PROVE  LifecycleStep
<1>1. PICK a \in Actions : a = worker.act /\ IsClosed(a)
  BY DEF ControlInv, WorkerInv, WorkerAction, WorkerEvidence, Acting, Consume,
         CloseAsserted, At
<1>2. Terminal(a).id \in Nat
  BY <1>1, ReservedNow, RecordFound DEF EvidenceRecord
<1>3. worker.pc \in Acting /\ ApprovalTypeOK /\ DecidedBySomeone
      /\ UNCHANGED <<evidence, journal, world>>
  BY DEF Consume, CloseAsserted, At, Acting, ControlInv, TypeOK, LifecycleInv
<1>4. /\ Is(a, {"executing", "consumed"})
      /\ Put(a, [approvals[a] EXCEPT !.status = "consumed",
                                     !.record = Terminal(a).id])
  BY <1>1
  DEF Consume, CloseAsserted, MarkConsumed, MarkReconciled, CanConsume,
      CanMarkReconciled, IsConsumedBy, Is
<1>5. ApprovalsLife
  BY <1>2, <1>3, <1>4, ConsumedLife
<1>6. WorkerLifecycle'
  BY Idles, WorkerElsewhere DEF Consume, CloseAsserted, Return
<1> QED
  BY <1>3, <1>5, <1>6, CallQuiet

LEMMA ReconcileExecutionLife ==
    ASSUME ControlInv, LifecycleInv, NEW a \in Actions,
           NEW outcome \in Outcomes, NEW by \in Operators,
           ReconcileExecution(a, outcome, by)
    PROVE  LifecycleStep
<1>1. /\ worker'.pc = "charge" /\ worker'.act = a
      /\ worker.pc \in Acting \cup {"ready"}
  BY DEF ControlInv, TypeOK, Worker, ReconcileExecution, At
<1>2. ApprovalsLife /\ ~Is(a, Early)'
  BY AssertedLife DEF ControlInv, TypeOK, LifecycleInv, ReconcileExecution
<1>3. WorkerLifecycle'
  BY <1>1, <1>2 DEF WorkerLifecycle
<1> QED
  BY <1>1, <1>2, <1>3, CallQuiet DEF ReconcileExecution

LEMMA ChargeAssertedLife ==
    ASSUME ControlInv, LifecycleInv, ChargeAsserted
    PROVE  LifecycleStep
<1>1. PICK a \in Actions : a = worker.act
  BY DEF ControlInv, WorkerInv, WorkerAction, Acting, ChargeAsserted, At
<1>2. /\ worker.pc = "charge" /\ worker'.act = a
      /\ worker'.pc = IF IsClosed(a) THEN "close" ELSE "assert"
      /\ UNCHANGED <<evidence, approvals, journal, world>>
  BY <1>1 DEF ControlInv, TypeOK, Worker, ChargeAsserted, At, GoTo, approvalVars
<1>3. ~Is(a, Early)' /\ IsClosed(a)' = IsClosed(a)
  BY <1>1, <1>2, EvidenceStays
  DEF LifecycleInv, WorkerLifecycle, Is, HasApproval
<1>4. WorkerLifecycle'
  BY <1>2, <1>3 DEF WorkerLifecycle
<1>5. ApprovalsLife
  BY <1>2, ApprovalsStay DEF LifecycleInv
<1> QED
  BY <1>2, <1>4, <1>5, CallQuiet DEF Acting

-----------------------------------------------------------------------------
(* Steps that append a record or run a tool *)

LEMMA RefusedClosed ==
    ASSUME NEW a \in Actions, WasRefused(a)
    PROVE  IsClosed(a)
BY DEF WasRefused, IsClosed, Terminals, With, TerminalResults

LEMMA TerminalAppended ==
    ASSUME ControlInv, LifecycleInv, NEW a \in Actions,
           NEW record \in EvidenceRecord, AppendRecord(a, record),
           record.id = Len(evidence[a]) + 1,
           UNCHANGED <<approvals, executed, runner>>,
           ~IsClosed(a), ~Is(a, Held), record.status \in TerminalResults,
           record.status \in {"blocked", "rejected", "expired"} => ~Sealed(a),
           record.reconciledBy = NULL =>
             \/ record.status \in {"blocked", "rejected", "expired"}
             \/ record.status \in {"succeeded", "failed"} /\ executed[a] = 1
    PROVE  /\ IdsArePlaces' /\ RefusedUnsealed' /\ RanSealed'
           /\ HeldUnsealed' /\ DecidedBySomeone'
           /\ Lifecycle!Next
<1>1. EvidenceTypeOK
  BY ReservedNow
<1>2. /\ \A b \in Actions \ {a} :
           /\ Sealed(b)' = Sealed(b)
           /\ IsClosed(b)' = IsClosed(b)
           /\ WasRefused(b)' = WasRefused(b)
      /\ Sealed(a)' = Sealed(a)
      /\ WasRefused(a)' =
           (WasRefused(a) \/ record.status \in {"blocked", "rejected", "expired"})
  BY <1>1, AppendedView DEF TerminalResults, Sealed
<1>3. IdsArePlaces'
  BY <1>1, PlacesKept DEF LifecycleInv
<1>4. RefusedUnsealed'
  BY <1>2 DEF LifecycleInv, RefusedUnsealed
<1>5. RanSealed'
  BY <1>2 DEF LifecycleInv, RanSealed
<1>6. HeldUnsealed' /\ DecidedBySomeone'
  <2>1. \A b \in Actions : /\ Is(b, Early)' = Is(b, Early)
                           /\ Is(b, Held)' = Is(b, Held)
                           /\ Is(b, Decided)' = Is(b, Decided)
    BY DEF Is, HasApproval
  <2> QED
    BY <1>2, <2>1 DEF LifecycleInv, HeldUnsealed, DecidedBySomeone
<1>7. Lifecycle!Next
  BY <1>1, EndStep
<1> QED
  BY <1>3, <1>4, <1>5, <1>6, <1>7

\* A step that leaves nothing journaled and ends an action.
LEMMA EndingCall ==
    ASSUME ControlInv, LifecycleInv, NEW a \in Actions,
           NEW record \in EvidenceRecord, AppendRecord(a, record),
           record.id = Len(evidence[a]) + 1,
           worker.pc \in Acting \cup {"ready"},
           UNCHANGED <<approvals, journal, world>>,
           ~IsClosed(a), ~Is(a, Held), record.status \in TerminalResults,
           record.status \in {"blocked", "rejected", "expired"} => ~Sealed(a),
           record.reconciledBy = NULL =>
             record.status \in {"blocked", "rejected", "expired"},
           WorkerLifecycle'
    PROVE  LifecycleStep
<1>1. journal' = NULL
  BY DEF ControlInv, WorkerInv, WorkerJournal
<1>2. JournalLifecycle'
  BY <1>1 DEF JournalLifecycle
<1> QED
  BY <1>2, TerminalAppended DEF LifecycleInv, LifecycleStep, world

LEMMA HandleBlockedLife ==
    ASSUME ControlInv, LifecycleInv, NEW a \in Actions, HandleBlocked(a)
    PROVE  LifecycleStep
<1> DEFINE record == Make(a, "blocked", "block", NULL)
<1>1. /\ record \in EvidenceRecord
      /\ record.status = "blocked" /\ record.reconciledBy = NULL
      /\ record.id = Len(evidence[a]) + 1
  BY ReservedNow, MakeTyped DEF ResultStatuses, Decisions, Make
<1>2. AppendRecord(a, record) /\ worker.pc \in Acting \cup {"ready"}
      /\ UNCHANGED <<approvals, journal, world>>
  BY DEF HandleBlocked, At, approvalVars
<1>3. ~Sealed(a) /\ ~IsClosed(a) /\ ~Is(a, Held)
  BY FreshLife DEF HandleBlocked, Is
<1>4. WorkerLifecycle'
  BY Idles, WorkerElsewhere DEF HandleBlocked, Return
<1> HIDE DEF record
<1> QED
  BY <1>1, <1>2, <1>3, <1>4, EndingCall DEF TerminalResults

LEMMA RecordBlockedLife ==
    ASSUME ControlInv, LifecycleInv, RecordBlocked
    PROVE  LifecycleStep
<1>1. PICK a \in Actions : a = worker.act
  BY DEF ControlInv, WorkerInv, WorkerAction, Acting, RecordBlocked, At
<1> DEFINE record == Make(a, "blocked", "block", worker.by)
<1>2. worker.by \in Operators \cup {NULL}
  BY DEF ControlInv, TypeOK, Worker
<1>3. /\ record \in EvidenceRecord
      /\ record.status = "blocked" /\ record.reconciledBy = NULL
      /\ record.id = Len(evidence[a]) + 1
  BY <1>2, ReservedNow, MakeTyped DEF ResultStatuses, Decisions, Make
<1>4. AppendRecord(a, record) /\ worker.pc \in Acting \cup {"ready"}
      /\ UNCHANGED <<approvals, journal, world>>
  BY <1>1 DEF RecordBlocked, At, Acting, approvalVars
<1>5. ~Sealed(a) /\ ~IsClosed(a) /\ ~Is(a, Held)
  BY <1>1 DEF LifecycleInv, WorkerLifecycle, RecordBlocked, At, Is, Held, Early
<1>6. worker'.pc = "consume"
  BY DEF ControlInv, TypeOK, Worker, RecordBlocked, GoTo
<1>7. WorkerLifecycle'
  BY <1>6 DEF WorkerLifecycle
<1> HIDE DEF record
<1> QED
  BY <1>3, <1>4, <1>5, <1>7, EndingCall DEF TerminalResults

LEMMA RecordAssertedLife ==
    ASSUME ControlInv, LifecycleInv, RecordAsserted
    PROVE  LifecycleStep
<1>1. PICK a \in Actions :
         a = worker.act /\ Asserted(a) /\ reconciliations[a] # NULL
  BY DEF ControlInv, WorkerInv, WorkerAction, WorkerAssertion, Acting,
         RecordAsserted, At
<1> DEFINE made == Make(a, approvals[a].outcome, "approval_required",
                        approvals[a].decidedBy)
           record == [made EXCEPT !.cost = reconciliations[a].charged,
                                  !.outcome = approvals[a].outcome,
                                  !.reconciledBy = approvals[a].reconciledBy]
<1>2. /\ approvals[a].outcome \in Outcomes
      /\ approvals[a].decidedBy \in Operators \cup {NULL}
      /\ approvals[a].reconciledBy \in Operators
  BY <1>1, ReservedNow DEF Asserted, Approval
<1>3. reconciliations[a].charged \in Nat
  BY <1>1, ReservedNow DEF LedgerTypeOK, Marker
<1>4. /\ made \in EvidenceRecord /\ made.status = approvals[a].outcome
      /\ made.id = Len(evidence[a]) + 1
  <2>1. approvals[a].outcome \in ResultStatuses
    BY <1>2 DEF Outcomes, ResultStatuses
  <2>2. "approval_required" \in Decisions
    BY DEF Decisions
  <2> QED
    BY <1>2, <2>1, <2>2, ReservedNow, MakeTyped DEF Make
<1> HIDE DEF made
<1>5. /\ record \in EvidenceRecord
      /\ record.id = Len(evidence[a]) + 1
      /\ record.status \in TerminalResults \ {"blocked", "rejected", "expired"}
      /\ record.reconciledBy # NULL
  BY <1>2, <1>3, <1>4, NullAssumption
  DEF EvidenceRecord, Outcomes, TerminalResults
<1>6. AppendRecord(a, record) /\ worker.pc \in Acting \cup {"ready"}
      /\ UNCHANGED <<approvals, journal, world>>
  BY <1>1 DEF RecordAsserted, made, At, Acting, approvalVars
<1>7. ~IsClosed(a) /\ ~Is(a, Early)
  BY <1>1 DEF LifecycleInv, WorkerLifecycle, RecordAsserted, At
<1>8. worker'.pc = "close" /\ worker'.act = a
  BY <1>1 DEF ControlInv, TypeOK, Worker, RecordAsserted, GoTo
<1>9. WorkerLifecycle'
  BY <1>6, <1>7, <1>8 DEF WorkerLifecycle, Is, HasApproval
<1> HIDE DEF record
<1>10. ~Is(a, Held)
  BY <1>7 DEF Is, Held, Early
<1> QED
  BY <1>5, <1>6, <1>7, <1>9, <1>10, EndingCall

LEMMA AuthorizeLife ==
    ASSUME ControlInv, LifecycleInv, Authorize
    PROVE  LifecycleStep
<1>1. PICK a \in Actions : a = worker.act
  BY DEF ControlInv, WorkerInv, WorkerAction, Acting, Authorize, At
<1> DEFINE record == Make(a, "skipped", DecisionFor(a), worker.by)
<1>2. worker.by \in Operators \cup {NULL}
  BY DEF ControlInv, TypeOK, Worker
<1>3. /\ record \in EvidenceRecord /\ record.status = "skipped"
      /\ record.id = Len(evidence[a]) + 1
  BY <1>2, ReservedNow, MakeTyped, ZenonT(60)
  DEF ResultStatuses, Decisions, DecisionFor, Make
<1>4. AppendRecord(a, record) /\ EvidenceTypeOK
      /\ UNCHANGED <<approvals, journal, executed, runner>>
  BY <1>1, ReservedNow DEF Authorize, approvalVars, world
<1> HIDE DEF record
<1>5. ~Sealed(a) /\ ~IsClosed(a) /\ ~Is(a, Early) /\ ~WasRefused(a)
  BY <1>1, RefusedClosed DEF LifecycleInv, WorkerLifecycle, Authorize, At
<1>6. /\ \A b \in Actions \ {a} :
           /\ Sealed(b)' = Sealed(b)
           /\ IsClosed(b)' = IsClosed(b)
           /\ WasRefused(b)' = WasRefused(b)
      /\ Sealed(a)' /\ ~WasRefused(a)' /\ ~IsClosed(a)'
  BY <1>3, <1>4, <1>5, AppendedView DEF TerminalResults
<1>7. IdsArePlaces' /\ RefusedUnsealed'
  BY <1>3, <1>4, <1>6, PlacesKept DEF LifecycleInv, RefusedUnsealed
<1>8. RanSealed'
  BY <1>4, <1>6 DEF LifecycleInv, RanSealed
<1>9. HeldUnsealed' /\ DecidedBySomeone'
  <2>1. \A b \in Actions : /\ Is(b, Early)' = Is(b, Early)
                           /\ Is(b, Held)' = Is(b, Held)
                           /\ Is(b, Decided)' = Is(b, Decided)
    BY <1>4 DEF Is, HasApproval
  <2> QED
    BY <1>4, <1>5, <1>6, <2>1 DEF LifecycleInv, HeldUnsealed, DecidedBySomeone
<1>10. WorkerLifecycle'
  <2>1. worker'.pc \in {"answer", "execute"} /\ worker'.act = a
    BY <1>1 DEF ControlInv, TypeOK, Worker, Authorize, GoTo
  <2>2. runner[a] = "unknown" /\ executed[a] = 0
    BY <1>5 DEF LifecycleInv, RanSealed
  <2> QED
    BY <1>4, <1>6, <2>1, <2>2 DEF WorkerLifecycle
<1>11. JournalLifecycle'
  BY <1>4
  DEF ControlInv, WorkerInv, WorkerJournal, Authorize, At, Acting,
      JournalLifecycle
<1>12. Lifecycle!Next
  BY <1>3, <1>4, <1>5, AuthorizeStep
<1> QED
  BY <1>7, <1>8, <1>9, <1>10, <1>11, <1>12 DEF LifecycleInv, LifecycleStep

\* A step that runs or releases a tool, and leaves the stores alone.
LEMMA RunnerStep ==
    ASSUME ControlInv, LifecycleInv, UNCHANGED stores,
           RanSealed', WorkerLifecycle', JournalLifecycle',
           [Lifecycle!Next]_(Lifecycle!vars)
    PROVE  LifecycleStep
<1>1. UNCHANGED <<evidence, approvals>>
  BY DEF stores, approvalVars
<1>2. ApprovalsLife
  BY <1>1, ApprovalsStay DEF LifecycleInv
<1>3. IdsArePlaces' /\ RefusedUnsealed'
  BY <1>1, EvidenceStays DEF LifecycleInv, IdsArePlaces, RefusedUnsealed
<1>4. HeldUnsealed'
  BY <1>1, <1>2, EvidenceStays DEF LifecycleInv, HeldUnsealed, ApprovalsLife
<1> QED
  BY <1>2, <1>3, <1>4 DEF LifecycleInv, LifecycleStep, ApprovalsLife

LEMMA AnswerLife == ASSUME ControlInv, LifecycleInv, Answer PROVE LifecycleStep
<1>1. PICK a \in Actions : a = worker.act /\ Sealed(a)
  BY DEF ControlInv, WorkerInv, WorkerAction, WorkerEvidence, Acting, Answer, At
<1>2. /\ executed[a] = 0 /\ worker.pc = "answer"
      /\ runner' = [runner EXCEPT ![a] = "allowed"]
      /\ UNCHANGED <<evidence, journal, executed>>
  BY <1>1 DEF LifecycleInv, WorkerLifecycle, Answer, At, stores
<1>3. RanSealed'
  BY <1>1, <1>2, EvidenceStays
  DEF ControlInv, TypeOK, RunnerStates, LifecycleInv, RanSealed
<1>4. WorkerLifecycle'
  BY Idles, WorkerElsewhere DEF Answer, Return
<1>5. JournalLifecycle'
  BY <1>2
  DEF ControlInv, WorkerInv, WorkerJournal, Acting, JournalLifecycle
<1>6. UNCHANGED Lifecycle!vars
  BY <1>2, EvidenceStays, ViewKept
<1> QED
  BY <1>3, <1>4, <1>5, <1>6, RunnerStep DEF Answer

LEMMA ExecuteLife == ASSUME ControlInv, LifecycleInv, Execute PROVE LifecycleStep
<1>1. PICK a \in Actions : a = worker.act /\ Sealed(a)
  BY DEF ControlInv, WorkerInv, WorkerAction, WorkerEvidence, Acting, Execute, At
<1>2. /\ executed[a] = 0 /\ runner[a] = "unknown" /\ ~IsClosed(a)
      /\ worker.pc = "execute"
      /\ executed' = [executed EXCEPT ![a] = @ + 1]
      /\ UNCHANGED <<evidence, journal, runner>>
  BY <1>1 DEF LifecycleInv, WorkerLifecycle, Execute, At, stores
<1>3. executed'[a] = 1 /\ \A b \in Actions \ {a} : executed'[b] = executed[b]
  BY <1>2 DEF ControlInv, TypeOK
<1>4. RanSealed'
  BY <1>1, <1>2, <1>3, EvidenceStays DEF LifecycleInv, RanSealed
<1>5. worker'.pc = "complete" /\ worker'.act = a
  BY <1>1 DEF ControlInv, TypeOK, Worker, Execute, GoTo
<1>6. WorkerLifecycle'
  BY <1>2, <1>3, <1>5, EvidenceStays DEF WorkerLifecycle
<1>7. JournalLifecycle'
  BY <1>2
  DEF ControlInv, WorkerInv, WorkerJournal, Acting, JournalLifecycle
<1>8. Lifecycle!Next
  BY <1>1, <1>2, RunStep
<1> QED
  BY <1>4, <1>6, <1>7, <1>8, RunnerStep DEF Execute

LEMMA RunnerRunsLife ==
    ASSUME ControlInv, LifecycleInv, NEW a \in Actions, RunnerRuns(a)
    PROVE  LifecycleStep
<1>1. /\ executed[a] = 0 /\ runner[a] = "allowed" /\ Sealed(a)
      /\ executed' = [executed EXCEPT ![a] = @ + 1]
      /\ runner' = [runner EXCEPT ![a] = "ran"]
      /\ UNCHANGED <<evidence, journal, approvals, worker>>
  BY DEF LifecycleInv, RanSealed, RunnerRuns, stores, approvalVars
<1>2. /\ executed'[a] = 1 /\ runner'[a] = "ran"
      /\ \A b \in Actions \ {a} :
           executed'[b] = executed[b] /\ runner'[b] = runner[b]
  BY <1>1 DEF ControlInv, TypeOK
<1>3. RanSealed'
  BY <1>1, <1>2, EvidenceStays DEF LifecycleInv, RanSealed
<1>4. WorkerLifecycle'
  <2>1. worker.pc \in Acting => worker.act \in Actions
    BY DEF ControlInv, WorkerInv, WorkerAction
  <2>2. worker.pc \in {"answer", "execute"} => worker.act # a
    BY <1>1 DEF LifecycleInv, WorkerLifecycle
  <2> QED
    BY <1>1, <1>2, <2>1, <2>2, EvidenceStays
    DEF LifecycleInv, WorkerLifecycle, Is, HasApproval, Acting
<1>5. JournalLifecycle'
  <2>1. SUFFICES ASSUME journal # NULL
                 PROVE  JournalLifecycle'
    BY <1>1 DEF JournalLifecycle
  <2>2. journal.act \in Actions
    BY <2>1 DEF ControlInv, TypeOK, JournalTypeOK, Operation
  <2>3. executed[journal.act] = 1 => executed'[journal.act] = 1
    BY <1>1, <1>2, <2>2
  <2>4. RecordOf(journal)'
    BY <1>1, <2>1, <2>3 DEF LifecycleInv, JournalLifecycle, RecordOf
  <2>5. /\ (Appended(journal) \/ Unappended(journal))'
        /\ MayEnd(journal)' /\ StageReached(journal)'
    BY <1>1, <2>1, <2>2, EvidenceStays
    DEF LifecycleInv, JournalLifecycle, Appended, Unappended, MayEnd,
        StageReached, Is, HasApproval
  <2> QED
    BY <2>4, <2>5 DEF JournalLifecycle
<1>6. Lifecycle!Next
  BY <1>1, RunStep
<1> QED
  BY <1>3, <1>4, <1>5, <1>6, RunnerStep DEF RunnerRuns

-----------------------------------------------------------------------------
(* Preparing an operation *)

\* What must be known when an operation of each kind is prepared.
MayPrepare(kind, a, record) ==
    /\ record.id = Len(evidence[a]) + 1
    /\ kind = "approval_create" =>
         record.status = "pending_approval" /\ ~Sealed(a) /\ ~IsClosed(a)
    /\ kind \in Deciding =>
         /\ record.status \in {"rejected", "expired"}
         /\ record.reconciledBy = NULL
         /\ ~Sealed(a) /\ ~IsClosed(a)
    /\ kind = "authorization_reconcile" =>
         /\ record.status \in Outcomes /\ record.reconciledBy # NULL
         /\ ~Is(a, Early)
    /\ kind = "execution_complete" =>
         /\ record.status \in {"succeeded", "failed"}
         /\ record.reconciledBy = NULL
         /\ executed[a] = 1 /\ ~Is(a, Early)

LEMMA PreparedLife ==
    ASSUME ControlInv, LifecycleInv, NEW kind \in OperationKinds,
           NEW a \in Actions, NEW record, NEW reserved, NEW owner,
           NEW authority, NEW approved, NEW back \in {"idle", "entry"},
           MayPrepare(kind, a, record),
           Prepare(kind, a, record, reserved, owner, authority, approved),
           Apply(kind, a, back),
           UNCHANGED <<approvalVars, evidence, world>>
    PROVE  LifecycleStep
<1> DEFINE op == [kind |-> kind, act |-> a, record |-> record,
                  reserved |-> reserved, owner |-> owner,
                  authority |-> authority, approved |-> approved]
<1>1. /\ journal' = op
      /\ op.kind = kind /\ op.act = a /\ op.record = record
  BY DEF Prepare
<1> HIDE DEF op
<1>2. worker'.pc = FirstStage(kind)
  BY DEF ControlInv, TypeOK, Worker, Apply
<1>3. UNCHANGED <<evidence, approvals, executed, runner>>
  BY DEF approvalVars, world
<1>4. RecordOf(journal)'
  BY <1>1, <1>3 DEF MayPrepare, RecordOf, Deciding
<1>5. Unappended(journal)' /\ ~Appended(journal)'
  <2>1. Len(evidence[a]) \in Nat
    BY EvidenceRead, ReservedNow
  <2> QED
    BY <1>1, <1>3, <2>1 DEF MayPrepare, Unappended, Appended
<1>6. MayEnd(journal)'
  BY <1>1, <1>3, <1>5, EvidenceStays
  DEF MayPrepare, MayEnd, Deciding, Is, HasApproval
<1>7. StageReached(journal)'
  BY <1>1, <1>2, FirstStages DEF StageReached
<1>8. JournalLifecycle'
  BY <1>4, <1>5, <1>6, <1>7 DEF JournalLifecycle
<1>9. WorkerLifecycle'
  BY <1>2, FirstStages, WorkerElsewhere
<1>10. ApprovalsLife
  BY <1>3, ApprovalsStay DEF LifecycleInv
<1> QED
  BY <1>3, <1>8, <1>9, <1>10, QuietStep

LEMMA DecisionsPrepared ==
    ASSUME ControlInv, LifecycleInv, NEW a \in Actions,
           Expire(a) \/ \E by \in Operators : Reject(a, by)
    PROVE  LifecycleStep
<1>1. Is(a, Held) /\ UNCHANGED <<approvalVars, evidence, world>>
  BY DEF Expire, Reject, Due, CanDecide, Is, Held
<1>2. ~Sealed(a) /\ ~IsClosed(a)
  BY <1>1 DEF LifecycleInv, HeldUnsealed, Is, Held, Early
<1>3. CASE Expire(a)
  <2> DEFINE record == Make(a, "expired", "approval_required", NULL)
  <2>1. MayPrepare("approval_expire", a, record)
    BY <1>2 DEF MayPrepare, Make, Deciding
  <2>2. /\ Prepare("approval_expire", a, record, approvals[a].reserved,
                   "local", 0, TRUE)
        /\ Apply("approval_expire", a, "entry")
    BY <1>3 DEF Expire
  <2> HIDE DEF record
  <2> QED
    BY <1>1, <2>1, <2>2, PreparedLife DEF OperationKinds
<1>4. CASE \E by \in Operators : Reject(a, by)
  <2>1. PICK by \in Operators : Reject(a, by)
    BY <1>4
  <2> DEFINE record == Make(a, "rejected", "approval_required", by)
  <2>2. MayPrepare("approval_reject", a, record)
    BY <1>2 DEF MayPrepare, Make, Deciding
  <2>3. /\ Prepare("approval_reject", a, record, approvals[a].reserved,
                   "local", 0, TRUE)
        /\ Apply("approval_reject", a, "idle")
    BY <2>1 DEF Reject
  <2> HIDE DEF record
  <2> QED
    BY <1>1, <2>2, <2>3, PreparedLife DEF OperationKinds
<1> QED
  BY <1>3, <1>4

LEMMA HoldPrepared ==
    ASSUME ControlInv, LifecycleInv, NEW a \in Actions, NEW estimate,
           NEW owner, HandleHold(a, estimate, owner)
    PROVE  LifecycleStep
<1> DEFINE record == Make(a, "pending_approval", "approval_required", NULL)
<1>1. ~Sealed(a) /\ ~IsClosed(a)
  BY FreshLife DEF HandleHold
<1>2. MayPrepare("approval_create", a, record)
  BY <1>1 DEF MayPrepare, Make, Deciding
<1>3. /\ Prepare("approval_create", a, record, estimate, owner, 0, TRUE)
      /\ Apply("approval_create", a, "idle")
      /\ UNCHANGED <<approvalVars, evidence, world>>
  BY DEF HandleHold
<1> HIDE DEF record
<1> QED
  BY <1>2, <1>3, PreparedLife DEF OperationKinds

LEMMA CompletionPrepared ==
    ASSUME ControlInv, LifecycleInv, NEW a \in Actions,
           NEW status \in {"succeeded", "failed"}, NEW cost, NEW by,
           Sealed(a), executed[a] = 1,
           CompleteKnownResult(a, status, cost, by),
           UNCHANGED <<approvalVars, evidence, world>>
    PROVE  LifecycleStep
<1> DEFINE remaining ==
             IF ReservationFor(a) > 0 \/ cost > 0
               THEN PreviewSettlement(a, ReservationFor(a), cost)
               ELSE Available
           made == Make(a, status, DecisionFor(a), by)
           record == [made EXCEPT !.cost = cost, !.remaining = remaining]
<1>1. /\ Prepare("execution_complete", a, record, ReservationFor(a), "local",
                 Authorization(a).id, HasApproval(a))
      /\ Apply("execution_complete", a, "idle")
  BY DEF CompleteKnownResult
<1> HIDE DEF remaining
<1>2. /\ record.id = Len(evidence[a]) + 1 /\ record.status = status
      /\ record.reconciledBy = NULL
  BY DEF Make
<1>3. ~Is(a, Early)
  BY DEF LifecycleInv, HeldUnsealed
<1> HIDE DEF record
<1>4. MayPrepare("execution_complete", a, record)
  BY <1>2, <1>3 DEF MayPrepare, Deciding
<1> QED
  BY <1>1, <1>4, PreparedLife DEF OperationKinds

LEMMA CompletionsPrepared ==
    ASSUME ControlInv, LifecycleInv,
           \/ \E status \in {"succeeded", "failed"}, cost \in Costs,
                 dryRun \in BOOLEAN : Complete(status, cost, dryRun)
           \/ \E a \in Actions : CompleteExternal(a)
    PROVE  LifecycleStep
<1>1. ASSUME NEW status \in {"succeeded", "failed"}, NEW cost \in Costs,
             NEW dryRun \in BOOLEAN, Complete(status, cost, dryRun)
      PROVE  LifecycleStep
  <2>1. /\ worker.act \in Actions /\ Sealed(worker.act)
        /\ executed[worker.act] = 1
    BY <1>1
    DEF ControlInv, WorkerInv, WorkerAction, WorkerEvidence, Acting, Complete,
        At, LifecycleInv, WorkerLifecycle
  <2> QED
    BY <1>1, <2>1, CompletionPrepared DEF Complete
<1>2. ASSUME NEW a \in Actions, CompleteExternal(a)
      PROVE  LifecycleStep
  <2>1. Sealed(a) /\ executed[a] = 1
    BY <1>2 DEF CompleteExternal, Sealed, LifecycleInv, RanSealed
  <2> QED
    BY <1>2, <2>1, CompletionPrepared DEF CompleteExternal
<1> QED
  BY <1>1, <1>2

LEMMA AssertionPrepared ==
    ASSUME ControlInv, LifecycleInv, NEW a \in Actions,
           NEW outcome \in Outcomes, NEW by \in Operators,
           ReconcileAuthorization(a, outcome, by)
    PROVE  LifecycleStep
<1> DEFINE cost == CASE HasPriorDebit(a) -> PriorDebit(a)
                     [] ~HasPriorDebit(a) /\ outcome = "not_executed" -> 0
                     [] OTHER -> ExposureFor(a)
           record == [Make(a, outcome, "allow", NULL) EXCEPT
                        !.cost = cost, !.outcome = outcome, !.reconciledBy = by]
<1>1. /\ Prepare("authorization_reconcile", a, record, ExposureFor(a), "local",
                 Authorization(a).id, FALSE)
      /\ Apply("authorization_reconcile", a, "idle")
      /\ UNCHANGED <<approvalVars, evidence, world>>
  BY DEF ReconcileAuthorization
<1> HIDE DEF cost
<1>2. /\ record.id = Len(evidence[a]) + 1 /\ record.status = outcome
      /\ record.reconciledBy # NULL
  BY NullAssumption DEF Make
<1>3. ~Is(a, Early)
  BY DEF ReconcileAuthorization, Is
<1> HIDE DEF record
<1>4. MayPrepare("authorization_reconcile", a, record)
  BY <1>2, <1>3 DEF MayPrepare, Deciding
<1> QED
  BY <1>1, <1>4, PreparedLife DEF OperationKinds

-----------------------------------------------------------------------------
(* The stages of an operation *)

LEMMA StageAfterIs ==
    ASSUME NEW kind \in OperationKinds, NEW i \in DOMAIN Route[kind], i > 1
    PROVE  StageAfter(kind, Route[kind][i - 1]) = Route[kind][i]
<1> DEFINE stage == Route[kind][i - 1]
           P(j) == j > 1 /\ Route[kind][j - 1] = stage
<1>1. \A j \in DOMAIN Route[kind] : P(j) => j = i
  <2>1. CASE kind = "approval_create"
    BY <2>1 DEF Route
  <2>2. CASE kind \in Deciding
    BY <2>2 DEF Route, Deciding
  <2>3. CASE kind = "authorization_reconcile"
    BY <2>3 DEF Route
  <2>4. CASE kind = "execution_complete"
    BY <2>4 DEF Route
  <2> QED
    BY <2>1, <2>2, <2>3, <2>4 DEF OperationKinds, Deciding
<1>2. P(i)
  OBVIOUS
<1>3. (CHOOSE j \in DOMAIN Route[kind] : P(j)) = i
  <2>1. (CHOOSE j \in DOMAIN Route[kind] : P(j)) \in DOMAIN Route[kind]
        /\ P(CHOOSE j \in DOMAIN Route[kind] : P(j))
    BY <1>2
  <2> QED
    BY <1>1, <2>1
<1> QED
  BY <1>3 DEF StageAfter

LEMMA StageOrder ==
    /\ StageAfter("approval_create", "budget") = "approval"
    /\ StageAfter("approval_create", "approval") = "evidence"
    /\ StageAfter("approval_create", "evidence") = "finish"
    /\ \A kind \in Deciding :
         /\ StageAfter(kind, "approval") = "budget"
         /\ StageAfter(kind, "budget") = "evidence"
         /\ StageAfter(kind, "evidence") = "finish"
    /\ StageAfter("authorization_reconcile", "budget") = "evidence"
    /\ StageAfter("authorization_reconcile", "evidence") = "finish"
    /\ StageAfter("execution_complete", "budget") = "evidence"
    /\ StageAfter("execution_complete", "evidence") = "approval"
    /\ StageAfter("execution_complete", "approval") = "finish"
<1>1. ASSUME NEW kind \in OperationKinds, DOMAIN Route[kind] = 1..4
      PROVE  /\ StageAfter(kind, Route[kind][1]) = Route[kind][2]
             /\ StageAfter(kind, Route[kind][2]) = Route[kind][3]
             /\ StageAfter(kind, Route[kind][3]) = Route[kind][4]
  <2>1. 2 \in 1..4 /\ 3 \in 1..4 /\ 4 \in 1..4
    OBVIOUS
  <2>2. StageAfter(kind, Route[kind][2 - 1]) = Route[kind][2]
    BY <1>1, <2>1, StageAfterIs
  <2>3. StageAfter(kind, Route[kind][3 - 1]) = Route[kind][3]
    BY <1>1, <2>1, StageAfterIs
  <2>4. StageAfter(kind, Route[kind][4 - 1]) = Route[kind][4]
    BY <1>1, <2>1, StageAfterIs
  <2>5. 2 - 1 = 1 /\ 3 - 1 = 2 /\ 4 - 1 = 3
    OBVIOUS
  <2> QED
    BY <2>2, <2>3, <2>4, <2>5
<1>2. /\ StageAfter("authorization_reconcile", "budget") = "evidence"
      /\ StageAfter("authorization_reconcile", "evidence") = "finish"
  <2>1. /\ "authorization_reconcile" \in OperationKinds
        /\ Route["authorization_reconcile"] = <<"budget", "evidence", "finish">>
    BY DEF OperationKinds, Route
  <2>2. /\ 2 \in DOMAIN Route["authorization_reconcile"]
        /\ 3 \in DOMAIN Route["authorization_reconcile"]
        /\ Route["authorization_reconcile"][2 - 1] = "budget"
        /\ Route["authorization_reconcile"][2] = "evidence"
        /\ Route["authorization_reconcile"][3 - 1] = "evidence"
        /\ Route["authorization_reconcile"][3] = "finish"
    BY <2>1
  <2>3. /\ StageAfter("authorization_reconcile", Route["authorization_reconcile"][2 - 1])
             = Route["authorization_reconcile"][2]
        /\ StageAfter("authorization_reconcile", Route["authorization_reconcile"][3 - 1])
             = Route["authorization_reconcile"][3]
    BY <2>1, <2>2, StageAfterIs
  <2> QED
    BY <2>2, <2>3
<1>3. /\ "approval_create" \in OperationKinds
      /\ "execution_complete" \in OperationKinds
      /\ Deciding \subseteq OperationKinds
      /\ \A kind \in OperationKinds \ {"authorization_reconcile"} :
           DOMAIN Route[kind] = 1..4
  BY DEF OperationKinds, Deciding, Route
<1>4. /\ Route["approval_create"][1] = "budget"
      /\ Route["approval_create"][2] = "approval"
      /\ Route["approval_create"][3] = "evidence"
      /\ Route["approval_create"][4] = "finish"
      /\ Route["execution_complete"][1] = "budget"
      /\ Route["execution_complete"][2] = "evidence"
      /\ Route["execution_complete"][3] = "approval"
      /\ Route["execution_complete"][4] = "finish"
  BY DEF Route
<1>5. \A kind \in Deciding :
        /\ kind # "authorization_reconcile"
        /\ Route[kind][1] = "approval"
        /\ Route[kind][2] = "budget"
        /\ Route[kind][3] = "evidence"
        /\ Route[kind][4] = "finish"
  BY DEF Route, Deciding
<1> QED
  BY <1>1, <1>2, <1>3, <1>4, <1>5

\* What the worker knows of the operation it applies.
LEMMA Applied ==
    ASSUME ControlInv, LifecycleInv, Advance
    PROVE  /\ journal \in Operation /\ journal # NULL
           /\ journal.act \in Actions /\ journal.kind \in OperationKinds
           /\ journal.record \in EvidenceRecord
           /\ worker.pc \in StagesOf(journal)
           /\ RecordOf(journal) /\ MayEnd(journal) /\ StageReached(journal)
           /\ Appended(journal) \/ Unappended(journal)
           /\ UNCHANGED <<executed, runner>>
<1>1. worker.pc \in StagesOf(journal) /\ journal \in Operation /\ journal # NULL
  BY OperationAssumption
  DEF ControlInv, TypeOK, JournalTypeOK, WorkerInv, WorkerJournal, Advance
<1>2. /\ journal.act \in Actions /\ journal.kind \in OperationKinds
      /\ journal.record \in EvidenceRecord
  BY <1>1 DEF Operation
<1>3. /\ RecordOf(journal) /\ MayEnd(journal) /\ StageReached(journal)
      /\ Appended(journal) \/ Unappended(journal)
  BY <1>1 DEF LifecycleInv, JournalLifecycle
<1> QED
  BY <1>1, <1>2, <1>3 DEF Advance, world

\* A stage before the last leaves the operation active and moves on.
LEMMA StageMoves ==
    ASSUME ControlInv, Advance, worker.pc # "finish"
    PROVE  /\ journal' = journal
           /\ worker'.pc = StageAfter(journal.kind, worker.pc)
<1>1. journal' = journal /\ worker \in Worker
  BY DEF ControlInv, TypeOK, Advance, WriteStage
<1> DEFINE next == StageAfter(journal.kind, worker.pc)
<1>2. worker' = [worker EXCEPT !.pc = next]
  BY DEF Advance, GoTo
<1> HIDE DEF next
<1>3. worker'.pc = next
  BY <1>1, <1>2 DEF Worker
<1> QED
  BY <1>1, <1>3 DEF next

\* A terminal record that no check has found conflicting is the prepared one.
LEMMA NoConflict ==
    ASSUME ControlInv, LifecycleInv, NEW op \in Operation,
           ~ConflictingTerminal(op), Unappended(op)
    PROVE  ~IsClosed(op.act)
<1> SUFFICES ASSUME IsClosed(op.act) PROVE FALSE
  OBVIOUS
<1>1. op.act \in Actions /\ op.record \in EvidenceRecord
  BY DEF Operation
<1>2. EvidenceTypeOK
  BY DEF ControlInv, TypeOK
<1>3. PICK i \in Terminals(op.act) : Terminal(op.act) = evidence[op.act][i]
  BY <1>1, <1>2, TerminalFound
<1>4. i \in 1..Len(evidence[op.act]) /\ Len(evidence[op.act]) \in Nat
  BY <1>1, <1>2, <1>3, EvidenceRead DEF Terminals, With
<1>5. Terminal(op.act).id = i
  <2>1. i \in DOMAIN evidence[op.act]
    BY <1>3 DEF Terminals, With
  <2> QED
    BY <1>1, <1>3, <2>1 DEF LifecycleInv, IdsArePlaces
<1>6. i = op.record.id
  BY <1>5 DEF ConflictingTerminal
<1> QED
  BY <1>4, <1>6 DEF Unappended

LEMMA AdvanceBudget ==
    ASSUME ControlInv, LifecycleInv, Advance, worker.pc = "budget"
    PROVE  LifecycleStep
<1>1. UNCHANGED <<evidence, approvals, executed, runner, journal>>
  BY Applied, StageMoves DEF Advance, WriteStage, approvalVars
<1>2. worker'.pc = StageAfter(journal.kind, "budget")
  BY StageMoves
<1>3. IF journal.kind = "approval_create" THEN worker'.pc = "approval"
                                          ELSE worker'.pc = "evidence"
  BY <1>2, Applied, StageOrder DEF OperationKinds, Deciding
<1>4. ApprovalsLife
  BY <1>1, ApprovalsStay DEF LifecycleInv
<1>5. Unappended(journal) /\ journal.kind # "approval_create"
        => ~IsClosed(journal.act)
  <2>1. CASE journal.kind \in Deciding
    BY <2>1, Applied DEF MayEnd
  <2>2. CASE journal.kind \in {"authorization_reconcile", "execution_complete"}
    <3>1. ~ConflictingTerminal(journal)
      BY <2>2 DEF Advance, CanWrite, CanWriteBudget
    <3> QED
      BY <3>1, Applied, NoConflict
  <2> QED
    BY <2>1, <2>2, Applied DEF OperationKinds, Deciding
<1>6. journal.kind \in Deciding => ~Is(journal.act, Held)
  BY Applied DEF StageReached
<1>7. StageReached(journal)'
  <2>1. (~IsClosed(journal.act))' = ~IsClosed(journal.act)
    BY <1>1, Applied, EvidenceStays
  <2>2. Unappended(journal)' = Unappended(journal)
    BY <1>1 DEF Unappended
  <2>3. Is(journal.act, Held)' = Is(journal.act, Held)
    BY <1>1 DEF Is, HasApproval
  <2> QED
    BY <1>1, <1>3, <1>5, <1>6, <2>1, <2>2, <2>3 DEF StageReached, Deciding
<1>8. JournalLifecycle'
  BY <1>1, <1>4, <1>7, JournalStays
<1>9. WorkerLifecycle'
  BY <1>3, WorkerElsewhere DEF Elsewhere, Locations, Stages
<1> QED
  BY <1>1, <1>4, <1>8, <1>9, QuietStep

\* A call is held: its approval appears, with its authorization still to come.
LEMMA CreationApplied ==
    ASSUME ControlInv, LifecycleInv, Advance, worker.pc = "approval",
           journal.kind = "approval_create"
    PROVE  LifecycleStep
<1>0. PICK a \in Actions : a = journal.act
  BY Applied
<1> DEFINE new == Prepared(journal.owner, journal.reserved)
<1>1. UNCHANGED <<evidence, executed, runner, journal>>
  BY Applied, StageMoves DEF Advance, WriteStage
<1>2. worker'.pc = "evidence"
  BY StageMoves, StageOrder
<1>3. Put(a, new)
  BY <1>0 DEF Advance, WriteStage, WriteApproval, CreatePrepared
<1>4. ~Sealed(a) /\ ~IsClosed(a)
  BY <1>0, Applied DEF MayEnd
<1>5. new.status = "pending"
  BY DEF Prepared
<1> HIDE DEF new
<1>6. /\ approvals'[a] = new
      /\ \A b \in Actions \ {a} : approvals'[b] = approvals[b]
  BY <1>3 DEF ControlInv, TypeOK, ApprovalTypeOK, Put
<1>7. ~Is(a, Decided)' /\ \A b \in Actions \ {a} : /\ Is(b, Early)' = Is(b, Early)
                                                   /\ Is(b, Held)' = Is(b, Held)
                                                   /\ Is(b, Decided)' = Is(b, Decided)
  BY <1>5, <1>6 DEF Is, HasApproval, Decided
<1>8. HeldUnsealed'
  BY <1>1, <1>4, <1>7, EvidenceStays DEF LifecycleInv, HeldUnsealed
<1>9. DecidedBySomeone'
  BY <1>6, <1>7 DEF LifecycleInv, DecidedBySomeone
<1>10. IdsArePlaces' /\ RefusedUnsealed' /\ RanSealed'
  BY <1>1, EvidenceStays DEF LifecycleInv, IdsArePlaces, RefusedUnsealed, RanSealed
<1>11. WorkerLifecycle'
  BY <1>2, WorkerElsewhere DEF Elsewhere, Locations, Stages
<1>12. JournalLifecycle'
  <2>1. RecordOf(journal)' /\ (Appended(journal) \/ Unappended(journal))'
    BY <1>1, Applied DEF RecordOf, Appended, Unappended
  <2>2. ~Sealed(journal.act)' /\ ~IsClosed(journal.act)'
    BY <1>0, <1>1, <1>4, EvidenceStays
  <2>3. MayEnd(journal)' /\ StageReached(journal)'
    BY <1>1, <2>2 DEF MayEnd, StageReached, Deciding
  <2> QED
    BY <2>1, <2>3 DEF JournalLifecycle
<1>13. UNCHANGED Lifecycle!vars
  BY <1>1, EvidenceStays, ViewKept
<1> QED
  BY <1>8, <1>9, <1>10, <1>11, <1>12, <1>13 DEF LifecycleInv, LifecycleStep

\* A held call is rejected or expires, here or before a crash.
LEMMA DecisionApplied ==
    ASSUME ControlInv, LifecycleInv, Advance, worker.pc = "approval",
           journal.kind \in Deciding
    PROVE  ApprovalsLife /\ ~Is(journal.act, Held)'
<1>1. PICK a \in Actions : a = journal.act
  BY Applied
<1>2. ApprovalTypeOK /\ DecidedBySomeone
  BY DEF ControlInv, TypeOK, LifecycleInv
<1>3. \/ \E by \in Operators \cup {NULL} : EnsureRejected(a, by)
      \/ ExpireOne(a)
  <2>1. journal.record.by \in Operators \cup {NULL}
    BY Applied DEF EvidenceRecord
  <2> QED
    BY <1>1, <2>1 DEF Advance, WriteStage, WriteApproval, Deciding
<1>4. CASE \E by \in Operators \cup {NULL} : EnsureRejected(a, by)
  <2>1. PICK by \in Operators \cup {NULL} : EnsureRejected(a, by)
    BY <1>4
  <2>2. CASE Decide(a, FALSE, by)
    <3>1. ApprovalsLife
      BY <1>2, <2>2, DecideLife
    <3> DEFINE new == [approvals[a] EXCEPT !.status = "rejected",
                                           !.decidedBy = by]
    <3>2. approvals'[a] = new
      BY <1>2, <2>2 DEF Decide, Put, ApprovalTypeOK
    <3>3. approvals[a] \in Approval
      BY <1>2, <2>2, ApprovalFound DEF Decide, CanDecide, Is
    <3>4. new.status = "rejected"
      BY <3>3 DEF Approval
    <3> QED
      BY <1>1, <3>1, <3>2, <3>4, StageMoves DEF Is, Held
  <2>3. CASE IsRejectedBy(a, by) /\ UNCHANGED approvalVars
    BY <1>1, <1>2, <2>3, ApprovalsStay, StageMoves
    DEF approvalVars, IsRejectedBy, Is, HasApproval, Held
  <2> QED
    BY <2>1, <2>2, <2>3 DEF EnsureRejected
<1>5. CASE ExpireOne(a)
  <2> DEFINE new == [approvals[a] EXCEPT !.status = "expired"]
  <2>1. Put(a, new) /\ Is(a, Early)
    BY <1>5 DEF ExpireOne, CanExpire, Due, Is, Early
  <2>2. ApprovalsLife
    BY <1>2, <2>1, ExpiredLife
  <2>3. approvals'[a] = new
    BY <1>2, <2>1 DEF Put, ApprovalTypeOK
  <2>4. approvals[a] \in Approval
    BY <1>2, <2>1, ApprovalFound DEF Is
  <2>5. new.status = "expired"
    BY <2>4 DEF Approval
  <2> QED
    BY <1>1, <2>2, <2>3, <2>5, StageMoves DEF Is, Held
<1> QED
  BY <1>3, <1>4, <1>5

\* The approval of a completed call is consumed, here or before a crash.
LEMMA CompletionApplied ==
    ASSUME ControlInv, LifecycleInv, Advance, worker.pc = "approval",
           journal.kind = "execution_complete"
    PROVE  ApprovalsLife
<1>1. PICK a \in Actions : a = journal.act
  BY Applied
<1>2. ApprovalTypeOK /\ DecidedBySomeone
  BY DEF ControlInv, TypeOK, LifecycleInv
<1>3. journal.record.id \in Nat
  BY Applied DEF EvidenceRecord
<1>4. UNCHANGED approvalVars \/ MarkConsumed(a, journal.record.id)
  BY <1>1 DEF Advance, WriteStage, WriteApproval, EnsureConsumed
<1>5. CASE UNCHANGED approvalVars
  BY <1>2, <1>5, ApprovalsStay DEF approvalVars
<1>6. CASE MarkConsumed(a, journal.record.id)
  <2> DEFINE record == journal.record.id
  <2>1. /\ Put(a, [approvals[a] EXCEPT !.status = "consumed", !.record = record])
        /\ Is(a, {"executing", "consumed"})
    BY <1>6 DEF MarkConsumed, CanConsume, Is
  <2> HIDE DEF record
  <2> QED
    BY <1>2, <1>3, <2>1, ConsumedLife DEF record
<1> QED
  BY <1>4, <1>5, <1>6

LEMMA AdvanceApproval ==
    ASSUME ControlInv, LifecycleInv, Advance, worker.pc = "approval"
    PROVE  LifecycleStep
<1>1. UNCHANGED <<evidence, executed, runner, journal>>
  BY Applied, StageMoves DEF Advance, WriteStage
<1>2. CASE journal.kind = "approval_create"
  BY <1>2, CreationApplied
<1>3. CASE journal.kind \in Deciding
  <2>1. ApprovalsLife /\ ~Is(journal.act, Held)'
    BY <1>3, DecisionApplied
  <2>2. worker'.pc = "budget"
    BY <1>3, StageMoves, StageOrder
  <2>3. StageReached(journal)' /\ WorkerLifecycle'
    BY <2>1, <2>2, WorkerElsewhere
    DEF StageReached, Elsewhere, Locations, Stages
  <2> QED
    BY <1>1, <2>1, <2>3, JournalStays, QuietStep
<1>4. CASE journal.kind = "execution_complete"
  <2>1. worker'.pc = "finish"
    BY <1>4, StageMoves, StageOrder
  <2>2. StageReached(journal)' /\ WorkerLifecycle'
    BY <2>1, WorkerElsewhere DEF StageReached, Elsewhere, Locations, Stages
  <2> QED
    BY <1>1, <1>4, <2>2, CompletionApplied, JournalStays, QuietStep
<1>5. journal.kind # "authorization_reconcile"
  BY Applied DEF StagesOf, Route
<1> QED
  BY <1>2, <1>3, <1>4, <1>5, Applied DEF OperationKinds, Deciding

\* The record of an operation that was appended already is recognised.
LEMMA EvidenceRecognised ==
    ASSUME ControlInv, LifecycleInv, Advance, worker.pc = "evidence",
           Appended(journal)
    PROVE  LifecycleStep
<1>1. PICK a \in Actions : a = journal.act
  BY Applied
<1> DEFINE record == journal.record
<1>2. record.id \in Nat \ {0} /\ EvidenceTypeOK
  BY Applied DEF EvidenceRecord, ControlInv, TypeOK
<1>3. /\ Len(evidence[a]) = record.id /\ evidence[a][record.id] = record
      /\ AppendOnce(a, record)
  BY <1>1 DEF Appended, Advance, WriteStage
<1> HIDE DEF record
<1>4. record.id \in DOMAIN evidence[a]
  BY <1>2, <1>3, EvidenceRead
<1>5. HasRecord(a, record.id)
  BY <1>3, <1>4 DEF HasRecord
<1>6. UNCHANGED evidence
  BY <1>3, <1>5 DEF AppendOnce
<1>7. UNCHANGED <<stores, executed, runner>>
  BY <1>6, Applied, StageMoves DEF Advance, WriteStage, stores
<1>8. worker'.pc \in {"approval", "finish"}
  BY Applied, StageMoves, StageOrder DEF OperationKinds, Deciding
<1> QED
  BY <1>7, <1>8, MoveStep DEF Elsewhere, Locations, Stages

\* Otherwise it is appended.
LEMMA EvidenceAppended ==
    ASSUME ControlInv, LifecycleInv, Advance, worker.pc = "evidence",
           Unappended(journal)
    PROVE  /\ AppendRecord(journal.act, journal.record)
           /\ Appended(journal)' /\ ~Unappended(journal)'
           /\ UNCHANGED <<approvals, executed, runner, journal>>
           /\ worker'.pc \in {"approval", "finish"}
<1>1. PICK a \in Actions : a = journal.act
  BY Applied
<1>2. PICK record \in EvidenceRecord : record = journal.record
  BY Applied
<1>3. EvidenceTypeOK /\ Len(evidence[a]) \in Nat
  BY EvidenceRead DEF ControlInv, TypeOK
<1>4. Len(evidence[a]) + 1 = record.id /\ AppendOnce(a, record)
  BY <1>1, <1>2 DEF Unappended, Advance, WriteStage
<1>5. ~HasRecord(a, record.id)
  <2> SUFFICES ASSUME NEW i \in DOMAIN evidence[a], evidence[a][i].id = record.id
               PROVE  FALSE
    BY DEF HasRecord
  <2>1. evidence[a][i].id = i
    BY DEF LifecycleInv, IdsArePlaces
  <2>2. i \in 1..Len(evidence[a])
    BY <1>3, EvidenceRead
  <2> QED
    BY <1>3, <1>4, <2>1, <2>2
<1>6. AppendRecord(a, record)
  BY <1>4, <1>5 DEF AppendOnce
<1>7. evidence'[a] = Append(evidence[a], record)
  BY <1>3, <1>6 DEF EvidenceTypeOK, AppendRecord
<1>8. /\ Len(evidence'[a]) = Len(evidence[a]) + 1
      /\ evidence'[a][Len(evidence[a]) + 1] = record
  BY <1>3, <1>7 DEF EvidenceTypeOK
<1>9. UNCHANGED <<approvals, executed, runner, journal>>
  BY Applied, StageMoves DEF Advance, WriteStage, approvalVars
<1>10. Appended(journal)' /\ ~Unappended(journal)'
  BY <1>1, <1>2, <1>3, <1>4, <1>8, <1>9 DEF Appended, Unappended
<1>11. worker'.pc \in {"approval", "finish"}
  BY Applied, StageMoves, StageOrder DEF OperationKinds, Deciding
<1> QED
  BY <1>1, <1>2, <1>6, <1>9, <1>10, <1>11

\* The record of a call that is held ends nothing and authorizes nothing.
LEMMA CreationRecorded ==
    ASSUME ControlInv, LifecycleInv, Advance, worker.pc = "evidence",
           Unappended(journal), journal.kind = "approval_create"
    PROVE  LifecycleStep
<1>1. PICK a \in Actions : a = journal.act
  BY Applied
<1>2. PICK record \in EvidenceRecord : record = journal.record
  BY Applied
<1>3. /\ AppendRecord(a, record) /\ EvidenceTypeOK
      /\ UNCHANGED <<approvals, executed, runner, journal>>
      /\ record.status = "pending_approval"
      /\ record.id = Len(evidence[a]) + 1
  BY <1>1, <1>2, Applied, EvidenceAppended
  DEF RecordOf, Unappended, ControlInv, TypeOK
<1>4. \A b \in Actions : /\ Sealed(b)' = Sealed(b)
                         /\ IsClosed(b)' = IsClosed(b)
                         /\ WasRefused(b)' = WasRefused(b)
                         /\ EndingOf(b)' = EndingOf(b)
  <2>1. /\ Sealed(a)' = Sealed(a)
        /\ IsClosed(a)' = IsClosed(a)
        /\ WasRefused(a)' = WasRefused(a)
        /\ EndingOf(a)' = EndingOf(a)
    BY <1>3, AppendedView
    DEF TerminalResults, Sealed, IsClosed, WasRefused
  <2> QED
    BY <1>3, <2>1, AppendedView
<1>5. IdsArePlaces'
  BY <1>3, PlacesKept DEF LifecycleInv
<1>6. RefusedUnsealed' /\ RanSealed'
  BY <1>3, <1>4 DEF LifecycleInv, RefusedUnsealed, RanSealed
<1>7. HeldUnsealed' /\ DecidedBySomeone'
  <2>1. \A b \in Actions : /\ Is(b, Early)' = Is(b, Early)
                           /\ Is(b, Held)' = Is(b, Held)
                           /\ Is(b, Decided)' = Is(b, Decided)
    BY <1>3 DEF Is, HasApproval
  <2> QED
    BY <1>3, <1>4, <2>1 DEF LifecycleInv, HeldUnsealed, DecidedBySomeone
<1>8. WorkerLifecycle'
  BY EvidenceAppended, WorkerElsewhere DEF Elsewhere, Locations, Stages
<1>9. JournalLifecycle'
  <2>1. RecordOf(journal)' /\ Appended(journal)'
    BY <1>3, Applied, EvidenceAppended DEF RecordOf, Deciding
  <2>2. ~Sealed(journal.act)' /\ ~IsClosed(journal.act)'
    BY <1>1, <1>3, <1>4, Applied DEF MayEnd
  <2>3. MayEnd(journal)' /\ StageReached(journal)'
    BY <1>3, <2>2, EvidenceAppended DEF MayEnd, StageReached, Deciding
  <2> QED
    BY <2>1, <2>3 DEF JournalLifecycle
<1>10. UNCHANGED Lifecycle!vars
  BY <1>3, <1>4, ViewKept
<1> QED
  BY <1>5, <1>6, <1>7, <1>8, <1>9, <1>10 DEF LifecycleInv, LifecycleStep

\* The records of all other operations end their action.
LEMMA EndingRecorded ==
    ASSUME ControlInv, LifecycleInv, Advance, worker.pc = "evidence",
           Unappended(journal), journal.kind # "approval_create"
    PROVE  LifecycleStep
<1>1. PICK a \in Actions : a = journal.act
  BY Applied
<1>2. PICK record \in EvidenceRecord : record = journal.record
  BY Applied
<1>3. /\ AppendRecord(a, record) /\ EvidenceTypeOK
      /\ UNCHANGED <<approvals, executed, runner, journal>>
      /\ record.id = Len(evidence[a]) + 1
  BY <1>1, <1>2, EvidenceAppended DEF Unappended, ControlInv, TypeOK
<1>4. ~IsClosed(a)
  BY <1>1, Applied DEF StageReached
<1>5. journal.kind \in Deciding =>
        /\ ~Is(a, Held) /\ ~Sealed(a)
        /\ record.status \in {"rejected", "expired"}
        /\ record.reconciledBy = NULL
  BY <1>1, <1>2, Applied DEF StageReached, MayEnd, RecordOf
<1>6. journal.kind = "authorization_reconcile" =>
        /\ ~Is(a, Early) /\ record.status \in Outcomes
        /\ record.reconciledBy # NULL
  BY <1>1, <1>2, Applied DEF MayEnd, RecordOf
<1>7. journal.kind = "execution_complete" =>
        /\ ~Is(a, Early) /\ record.status \in {"succeeded", "failed"}
        /\ record.reconciledBy = NULL /\ executed[a] = 1
  BY <1>1, <1>2, Applied DEF MayEnd, RecordOf
<1>8. journal.kind \in Deciding \cup {"authorization_reconcile", "execution_complete"}
  BY Applied DEF OperationKinds, Deciding
<1>9. ~Is(a, Held)
  BY <1>5, <1>6, <1>7, <1>8 DEF Is, Held, Early
<1>10. /\ record.status \in TerminalResults
       /\ record.status \in {"blocked", "rejected", "expired"} => ~Sealed(a)
       /\ record.reconciledBy = NULL =>
            \/ record.status \in {"blocked", "rejected", "expired"}
            \/ record.status \in {"succeeded", "failed"} /\ executed[a] = 1
  BY <1>5, <1>6, <1>7, <1>8 DEF TerminalResults, Outcomes
<1>11. /\ IdsArePlaces' /\ RefusedUnsealed' /\ RanSealed'
       /\ HeldUnsealed' /\ DecidedBySomeone'
       /\ Lifecycle!Next
  BY <1>3, <1>4, <1>9, <1>10, TerminalAppended
<1>12. Sealed(a)' = Sealed(a)
  BY <1>3, <1>10, AppendedView DEF TerminalResults, Sealed
<1>13. WorkerLifecycle'
  BY EvidenceAppended, WorkerElsewhere DEF Elsewhere, Locations, Stages
<1>14. JournalLifecycle'
  <2>1. RecordOf(journal)' /\ Appended(journal)' /\ ~Unappended(journal)'
    BY <1>3, Applied, EvidenceAppended DEF RecordOf, Deciding
  <2>2. /\ Is(a, Held)' = Is(a, Held)
        /\ Is(a, Early)' = Is(a, Early)
    BY <1>3 DEF Is, HasApproval
  <2>3. MayEnd(journal)'
    BY <1>1, <1>3, <1>5, <1>6, <1>7, <1>12, <2>1, <2>2 DEF MayEnd, Deciding
  <2>4. StageReached(journal)'
    BY EvidenceAppended DEF StageReached
  <2> QED
    BY <2>1, <2>3, <2>4 DEF JournalLifecycle
<1> QED
  BY <1>11, <1>13, <1>14 DEF LifecycleInv, LifecycleStep

\* The operation is over.
LEMMA AdvanceFinish ==
    ASSUME ControlInv, LifecycleInv, Advance, worker.pc = "finish"
    PROVE  LifecycleStep
<1>1. /\ journal' = NULL
      /\ UNCHANGED <<evidence, approvals, executed, runner>>
  BY Applied DEF Advance, WriteStage, Finish, approvalVars
<1>2. worker'.pc \in {"idle", "entry"}
  <2> DEFINE full == worker.full
  <2>1. worker' = Idle \/ worker' = [Idle EXCEPT !.pc = "entry", !.full = full]
    BY DEF ControlInv, TypeOK, Worker, Advance, Return
  <2> HIDE DEF full
  <2>2. Idle.pc = "idle" /\ [Idle EXCEPT !.pc = "entry", !.full = full].pc = "entry"
    BY DEF Idle
  <2> QED
    BY <2>1, <2>2
<1>3. JournalLifecycle' /\ WorkerLifecycle'
  BY <1>1, <1>2, WorkerElsewhere DEF JournalLifecycle, Elsewhere, Locations
<1>4. ApprovalsLife
  BY <1>1, ApprovalsStay DEF LifecycleInv
<1> QED
  BY <1>1, <1>3, <1>4, QuietStep

LEMMA AdvanceLife ==
    ASSUME ControlInv, LifecycleInv, Advance
    PROVE  LifecycleStep
<1>1. worker.pc \in {"budget", "approval", "evidence", "finish"}
  BY DEF Advance, Stages
<1>2. Appended(journal) \/ Unappended(journal)
  BY Applied
<1> QED
  BY <1>1, <1>2, AdvanceBudget, AdvanceApproval, EvidenceRecognised,
     CreationRecorded, EndingRecorded, AdvanceFinish

-----------------------------------------------------------------------------
(* The start, the step and the theorems *)

LEMMA InitLife == Init => LifecycleInv /\ Lifecycle!Init
<1> SUFFICES ASSUME Init PROVE LifecycleInv /\ Lifecycle!Init
  OBVIOUS
<1>1. /\ evidence = [a \in Actions |-> << >>]
      /\ approvals = [a \in Actions |-> NULL]
      /\ journal = NULL /\ worker = Idle
      /\ runner = [a \in Actions |-> "unknown"]
      /\ executed = [a \in Actions |-> 0]
  BY DEF Init, EvidenceInit, ApprovalInit, JournalInit
<1>2. \A a \in Actions : \A statuses : With(a, statuses) = {}
  BY <1>1 DEF With
<1>3. \A a \in Actions : ~Sealed(a) /\ ~IsClosed(a) /\ ~WasRefused(a)
  BY <1>2 DEF Sealed, IsClosed, Terminals, WasRefused
<1>4. \A a \in Actions : ~HasApproval(a)
  BY <1>1 DEF HasApproval
<1>5. IdsArePlaces /\ RefusedUnsealed /\ RanSealed
  BY <1>1, <1>3 DEF IdsArePlaces, RefusedUnsealed, RanSealed
<1>6. HeldUnsealed /\ DecidedBySomeone
  BY <1>4 DEF HeldUnsealed, DecidedBySomeone, Is
<1>7. WorkerLifecycle /\ JournalLifecycle
  BY <1>1 DEF WorkerLifecycle, JournalLifecycle, Idle
<1>8. Lifecycle!Init
  <2>1. \A a \in Actions : EndingOf(a) = "open" /\ With(a, {"skipped"}) = {}
    BY <1>2, <1>3 DEF EndingOf
  <2> QED
    BY <1>1, <2>1 DEF Lifecycle!Init, Lifecycle!Open
<1> QED
  BY <1>5, <1>6, <1>7, <1>8 DEF LifecycleInv

LEMMA NextLife ==
    ASSUME ControlInv, LifecycleInv, Next
    PROVE  LifecycleStep
<1>1. CASE Entering
  BY <1>1, EnteringMoves, RecoverLife, DecisionsPrepared DEF Entering
<1>2. CASE Applying
  BY <1>2, AdvanceLife, EnteringMoves DEF Applying
<1>3. CASE Handling
  BY <1>3, HandleBlockedLife, HoldPrepared, HandleAllowLife, AuthorizeLife,
     AnswerLife
  DEF Handling
<1>4. CASE Completing
  BY <1>4, ExecuteLife, EnteringMoves, CompletionsPrepared DEF Completing
<1>5. CASE Resuming
  BY <1>5, ResumePendingLife, EnteringMoves, DecisionsPrepared, BeginsLife,
     UnreserveLife, RecordBlockedLife, ConsumesLife
  DEF Resuming
<1>6. CASE Reconciling
  BY <1>6, ReconcileExecutionLife, AssertionPrepared, ChargeAssertedLife,
     RecordAssertedLife, ConsumesLife
  DEF Reconciling
<1>7. CASE Outside
  BY <1>7, OutsideLife, RunnerRunsLife DEF Outside
<1>8. CASE Crash
  BY <1>8, EnteringMoves
<1> QED
  BY <1>1, <1>2, <1>3, <1>4, <1>5, <1>6, <1>7, <1>8 DEF Next

LEMMA StutterLife ==
    ASSUME ControlInv, LifecycleInv, UNCHANGED vars
    PROVE  LifecycleStep
<1>1. /\ UNCHANGED <<evidence, approvals, executed, runner, journal>>
      /\ worker' = worker
  BY DEF vars, approvalVars
<1>2. ApprovalsLife
  BY <1>1, ApprovalsStay DEF LifecycleInv
<1>3. journal # NULL => journal.act \in Actions
  BY DEF ControlInv, TypeOK, JournalTypeOK, Operation
<1>4. journal # NULL => StageReached(journal)'
  BY <1>1, <1>3, EvidenceStays
  DEF LifecycleInv, JournalLifecycle, StageReached, Unappended, Is, HasApproval
<1>5. WorkerLifecycle'
  <2>1. worker.pc \in Acting => worker.act \in Actions
    BY DEF ControlInv, WorkerInv, WorkerAction
  <2> QED
    BY <1>1, <2>1, EvidenceStays
    DEF LifecycleInv, WorkerLifecycle, Is, HasApproval, Acting
<1> QED
  BY <1>1, <1>2, <1>4, <1>5, JournalStays, QuietStep

LEMMA LifecycleInvariant == Spec => []LifecycleInv
<1>1. ControlInv /\ LifecycleInv /\ [Next]_vars => LifecycleInv'
  BY NextLife, StutterLife DEF LifecycleStep
<1>2. Init => LifecycleInv
  BY InitLife
<1> QED
  BY <1>1, <1>2, ControlInvariant, PTL DEF Spec

\* No call is executed twice: not by a crash and a retry, not by a recovery and
\* not by a runtime whose answer came late.
THEOREM EffectOnce == Spec => []EffectAtMostOnce
<1>1. LifecycleInv => EffectAtMostOnce
  BY DEF LifecycleInv, RanSealed, EffectAtMostOnce
<1> QED
  BY <1>1, LifecycleInvariant, PTL

\* No tool runs before its authorization is sealed, nor on an approval that
\* nobody granted or that is not spent yet.
THEOREM Gate == Spec => []GateBeforeEffect
<1>1. ControlInv /\ LifecycleInv => GateBeforeEffect
  <2> SUFFICES ASSUME ControlInv, LifecycleInv, NEW a \in Actions,
                      executed[a] > 0
               PROVE  /\ With(a, {"skipped"}) # {}
                      /\ HasApproval(a) =>
                           /\ Is(a, {"executing", "consumed"})
                           /\ approvals[a].decidedBy # NULL
    BY DEF GateBeforeEffect
  <2>1. Sealed(a)
    BY DEF LifecycleInv, RanSealed
  <2>2. ASSUME HasApproval(a)
        PROVE  Is(a, {"executing", "consumed"})
    <3>1. approvals[a].status \in ApprovalStatuses
      BY <2>2, ReservedNow DEF Approval
    <3>2. ~Is(a, Early)
      BY <2>1 DEF LifecycleInv, HeldUnsealed
    <3> QED
      BY <2>2, <3>1, <3>2 DEF Is, Early, ApprovalStatuses
  <2>3. Is(a, {"executing", "consumed"}) => approvals[a].decidedBy # NULL
    BY DEF LifecycleInv, DecidedBySomeone, Is, Decided
  <2> QED
    BY <2>1, <2>2, <2>3 DEF Sealed
<1> QED
  BY <1>1, ControlInvariant, LifecycleInvariant, PTL

\* A call whose evidence says blocked, rejected or expired never ran.
THEOREM Refused == Spec => []RefusedNeverRuns
<1>1. LifecycleInv => RefusedNeverRuns
  BY DEF LifecycleInv, RefusedUnsealed, RanSealed, WasRefused, RefusedNeverRuns
<1> QED
  BY <1>1, LifecycleInvariant, PTL

\* With all its stores, crashes, retries and recoveries the control loop does
\* nothing that the abstract lifecycle of an action does not allow.
THEOREM Implements == Spec => ImplementsLifecycle
<1>1. ControlInv /\ LifecycleInv /\ [Next]_vars
        => [Lifecycle!Next]_(Lifecycle!vars)
  BY NextLife, StutterLife DEF LifecycleStep
<1>2. Init => Lifecycle!Init
  BY InitLife
<1> QED
  BY <1>1, <1>2, ControlInvariant, LifecycleInvariant, PTL
  DEF Spec, ImplementsLifecycle, Lifecycle!Spec

=============================================================================
