---------------------------- MODULE ReplanProofs ----------------------------
(***************************************************************************)
(* What Replan promises for any names, layer files, contents and numbers   *)
(* of actors, edits and replans: the plan is what all its layers say, the  *)
(* actors at work are those of the plan, a snapshot is that of the actor   *)
(* that has the name, replies come from actors that will give them, and no *)
(* process is left behind by a replan.                                     *)
(***************************************************************************)
EXTENDS Replan, FiniteSetTheorems, SequenceTheorems, WellFoundedInduction, TLAPS

States == {"Inactive", "Starting", "Active", "Stopping", "Backoff", "Error"}
Phases == {"unborn", "run", "cleanup", "gone"}
Commands == {"Start", "Stop", "Shutdown"}
Event == [by : Actors, state : States]

ServiceFields == {"command", "startup", "requires", "override_mode"}

\* What a plan has, at least.
WholePlan(p) ==
  /\ {"layers", "autostarted", "merged"} \subseteq DOMAIN p
  /\ {"services", "checks", "alerts", "queueDepth"} \subseteq DOMAIN p.merged
  /\ \A n \in DOMAIN p.merged.services : ServiceFields \subseteq DOMAIN p.merged.services[n]

\* The types, as far as the steps depend on them.  What is left to read and what
\* was read are never more than there are layer files.
ReplanTypeOK ==
  /\ files \in [Range(Files) -> Contents \cup {Missing, Broken}]
  /\ booted \in BOOLEAN
  /\ reading \in [busy : BOOLEAN, todo : Seq(Range(Files)), got : Seq(Contents), merged : BOOLEAN]
  /\ Len(reading.todo) + Len(reading.got) <= Len(Files)
  /\ WholePlan(plan) /\ Planned \subseteq Names
  /\ table \in [Names -> Actors \cup {NoActor}]
  /\ snap \in [Names -> States]
  /\ pending \subseteq Names
  /\ script \in Seq({"Start", "Stop"} \X Names)
  /\ events \in Seq(Event)
  /\ st \in [Actors -> States]
  /\ phase \in [Actors -> Phases]
  /\ mailbox \in [Actors -> Seq(Commands)]

\* The plan is that of some layer files, but for what was autostarted.
Loaded == plan.layers \in Seq(Contents) /\ PlanIsMerge

-----------------------------------------------------------------------------
(* Induction.  A statement about every natural number is one about the set *)
(* of the numbers it is true of.                                           *)

LEMMA SetInduction ==
  ASSUME NEW T \in SUBSET Nat, 0 \in T, \A n \in T : n + 1 \in T
  PROVE  T = Nat
<1> DEFINE R == OpToRel(<, Nat)
           L == Nat \ T
<1>1. IsWellFoundedOn(R, Nat)
  BY NatLessThanWellFounded
<1>2. \A i, j \in Nat : i < j => <<i, j>> \in R
  BY DEF OpToRel
<1> HIDE DEF R
<1>3. SUFFICES ASSUME L # {} PROVE FALSE
  OBVIOUS
<1>4. PICK m \in L : \A y \in L : <<y, m>> \notin R
  <2>1. L \subseteq Nat
    OBVIOUS
  <2> HIDE DEF L
  <2> QED
    BY <1>1, <1>3, <2>1, WFMin
<1>5. m \in Nat /\ m # 0 /\ m - 1 \in Nat
  BY <1>4
<1>6. m - 1 \in T
  <2>1. m - 1 < m
    BY <1>5
  <2>2. <<m - 1, m>> \in R
    BY <1>2, <1>5, <2>1
  <2> QED
    BY <1>4, <1>5, <2>2
<1> QED
  BY <1>4, <1>5, <1>6

\* A set of numbers that has a bound has a greatest member.
LEMMA MaxIsMember ==
  ASSUME NEW k \in Nat, NEW S \in SUBSET (1 .. k), S # {}
  PROVE  Max(S) \in S /\ \A i \in S : i <= Max(S)
<1> DEFINE Great(B) == \E x \in B : \A y \in B : x >= y
           T == {i \in Nat : \A B \in SUBSET (1 .. i) : B # {} => Great(B)}
<1>1. 0 \in T
  <2>1. 1 .. 0 = {}
    OBVIOUS
  <2> QED
    BY <2>1
<1>2. ASSUME NEW i \in T PROVE i + 1 \in T
  <2> SUFFICES ASSUME NEW B \in SUBSET (1 .. i + 1), B # {} PROVE Great(B)
    BY <1>2
  <2>1. CASE i + 1 \in B
    BY <2>1, <1>2
  <2>2. CASE i + 1 \notin B
    <3>1. B \subseteq 1 .. i
      BY <2>2, <1>2
    <3> QED
      BY <3>1, <1>2
  <2> QED
    BY <2>1, <2>2
<1>3. T = Nat
  <2> HIDE DEF T
  <2>1. T \subseteq Nat
    BY DEF T
  <2> QED
    BY <1>1, <1>2, <2>1, SetInduction
<1>4. Great(S)
  BY <1>3
<1> QED
  BY <1>4 DEF Max

\* The greatest of a set and one above it.
LEMMA MaxOfMore ==
  ASSUME NEW k \in Nat, NEW S \in SUBSET (1 .. k)
  PROVE  Max(S \cup {k + 1}) = k + 1
<1> DEFINE more == S \cup {k + 1}
<1>1. \A y \in more : y \in Int /\ y <= k + 1
  OBVIOUS
<1>2. k + 1 \in more
  OBVIOUS
<1> HIDE DEF more
<1>3. \A x \in more : (\A y \in more : x >= y) => x = k + 1
  BY <1>1, <1>2
<1>4. \A y \in more : k + 1 >= y
  BY <1>1
<1>5. Max(more) \in more /\ \A y \in more : Max(more) >= y
  BY <1>2, <1>4 DEF Max
<1> QED
  BY <1>3, <1>5 DEF more

-----------------------------------------------------------------------------
(* What the layers say of a name.                                          *)

\* The tables `new' are `old' and one more, l.
MoreAt(old, l, new, k) ==
  /\ DOMAIN old = 1 .. k /\ DOMAIN new = 1 .. k + 1
  /\ \A i \in 1 .. k : new[i] = old[i]
  /\ new[k + 1] = l

OneMore(old, l, new) == \E k \in Nat : MoreAt(old, l, new, k)

Replaces(l, n) == n \in DOMAIN l /\ l[n].override_mode = "replace"

Only(S, j) == \A i : i \in S <=> i = j
Joins(S, j, T) == \A i : i \in T <=> i \in S \/ i = j

LEMMA SaysIt ==
  ASSUME NEW tables, NEW n, NEW k
  PROVE  k \in Say(tables, n) <=>
           /\ k \in DOMAIN tables /\ n \in DOMAIN tables[k]
           /\ \A w \in DOMAIN tables : Replaces(tables[w], n) => w <= k
BY DEF Say, Replaces

\* One more layer: what was said stands, unless the layer replaces the entry.
LEMMA SayMore ==
  ASSUME NEW old, NEW l, NEW new, NEW n, NEW k \in Nat,
         MoreAt(old, l, new, k)
  PROVE  /\ Say(old, n) \subseteq 1 .. k
         /\ n \notin DOMAIN l => Say(new, n) = Say(old, n)
         /\ Replaces(l, n) => Only(Say(new, n), k + 1)
         /\ n \in DOMAIN l /\ ~ Replaces(l, n) => Joins(Say(old, n), k + 1, Say(new, n))
<1> DEFINE In(i) == n \in DOMAIN new[i]
           Resets(i) == Replaces(new[i], n)
<1>1. \A i : i \in Say(old, n) <=>
              i \in 1 .. k /\ In(i) /\ \A w \in 1 .. k : Resets(w) => w <= i
  BY SaysIt DEF MoreAt
<1>2. \A i : i \in Say(new, n) <=>
              i \in 1 .. k + 1 /\ In(i) /\ \A w \in 1 .. k + 1 : Resets(w) => w <= i
  BY SaysIt DEF MoreAt
<1>3. \A i : i \in 1 .. k + 1 <=> i \in 1 .. k \/ i = k + 1
  OBVIOUS
<1>4. \A i \in 1 .. k + 1 : i <= k + 1 /\ (k + 1 <= i => i = k + 1)
  OBVIOUS
<1>5. /\ In(k + 1) <=> n \in DOMAIN l
      /\ Resets(k + 1) <=> Replaces(l, n)
      /\ Resets(k + 1) => In(k + 1)
  BY DEF Replaces, MoreAt
<1> HIDE DEF In, Resets
<1>6. CASE ~ In(k + 1)
  <2>1. \A i : i \in Say(new, n) <=> i \in Say(old, n)
    BY <1>1, <1>2, <1>3, <1>5, <1>6
  <2> QED
    BY <1>1, <1>5, <1>6, <2>1
<1>7. CASE Resets(k + 1)
  <2>1. \A i : i \in Say(new, n) <=> i = k + 1
    BY <1>2, <1>3, <1>4, <1>5, <1>7
  <2> QED
    BY <1>1, <1>5, <1>7, <2>1 DEF Only
<1>8. CASE In(k + 1) /\ ~ Resets(k + 1)
  <2>1. \A i : i \in Say(new, n) <=> i \in Say(old, n) \/ i = k + 1
    BY <1>1, <1>2, <1>3, <1>4, <1>8
  <2> QED
    BY <1>1, <1>5, <1>8, <2>1 DEF Joins
<1> QED
  BY <1>6, <1>7, <1>8

\* A layer without the name leaves what is said of it.
LEMMA NotNamed ==
  ASSUME NEW old, NEW l, NEW new, OneMore(old, l, new), NEW n, NEW field,
         n \notin DOMAIN l, Say(old, n) # {}
  PROVE  /\ Say(new, n) # {}
         /\ LastSet(new, n, field) = LastSet(old, n, field)
         /\ LastSaid(new, n, field) = LastSaid(old, n, field)
         /\ AllOf(new, n, field) = AllOf(old, n, field)
<1> DEFINE S == Say(old, n)
           set(t) == {i \in S : t[i][n][field] # Unset}
<1>0. PICK k \in Nat : MoreAt(old, l, new, k)
  BY DEF OneMore
<1>1. /\ DOMAIN old = 1 .. k /\ DOMAIN new = 1 .. k + 1
      /\ \A i \in 1 .. k : new[i] = old[i]
      /\ new[k + 1] = l
  BY <1>0 DEF MoreAt
<1>2. S \subseteq 1 .. k /\ Say(new, n) = S /\ S # {}
  <2>1. S \subseteq 1 .. k
    BY <1>0, SayMore
  <2>2. Say(new, n) = S
    BY <1>0, SayMore
  <2> QED
    BY <2>1, <2>2
<1>3. \A i \in S : new[i] = old[i]
  BY <1>1, <1>2
<1> HIDE DEF S
<1>4. Max(S) \in S
  BY <1>2, MaxIsMember
<1>5. set(new) = set(old)
  BY <1>3
<1>6. set(old) # {} => Max(set(old)) \in S
  <2>1. set(old) \in SUBSET (1 .. k)
    BY <1>2
  <2> QED
    BY <2>1, MaxIsMember
<1>7. LastSet(new, n, field) = LastSet(old, n, field)
  <2>1. LastSet(old, n, field) = IF set(old) = {} THEN Unset ELSE old[Max(set(old))][n][field]
    BY DEF LastSet, S
  <2>2. LastSet(new, n, field) = IF set(new) = {} THEN Unset ELSE new[Max(set(new))][n][field]
    BY <1>2 DEF LastSet
  <2> HIDE DEF set
  <2> QED
    BY <1>3, <1>5, <1>6, <2>1, <2>2
<1>8. LastSaid(new, n, field) = LastSaid(old, n, field)
  BY <1>2, <1>3, <1>4 DEF LastSaid, S
<1>9. AllOf(new, n, field) = AllOf(old, n, field)
  <2>1. {new[i][n][field] : i \in S} = {old[i][n][field] : i \in S}
    BY <1>3
  <2> QED
    BY <1>2, <2>1 DEF AllOf, S
<1> QED
  BY <1>2, <1>7, <1>8, <1>9

\* The first layer with the name, or one that replaces it, says it all.
LEMMA SaidAnew ==
  ASSUME NEW old, NEW l, NEW new, OneMore(old, l, new), NEW n, NEW field,
         n \in DOMAIN l, Say(old, n) = {} \/ Replaces(l, n)
  PROVE  /\ Say(new, n) # {}
         /\ LastSet(new, n, field) = l[n][field]
         /\ LastSaid(new, n, field) = l[n][field]
         /\ AllOf(new, n, field) = l[n][field]
<1> DEFINE set == {i \in Say(new, n) : new[i][n][field] # Unset}
           value == l[n][field]
<1>0. PICK k \in Nat : MoreAt(old, l, new, k)
  BY DEF OneMore
<1>1. /\ DOMAIN old = 1 .. k /\ DOMAIN new = 1 .. k + 1
      /\ \A i \in 1 .. k : new[i] = old[i]
      /\ new[k + 1] = l
  BY <1>0 DEF MoreAt
<1>2. Say(new, n) = {k + 1}
  <2>1. CASE Replaces(l, n)
    <3>1. Only(Say(new, n), k + 1)
      BY <1>0, <2>1, SayMore
    <3> QED
      BY <3>1 DEF Only
  <2>2. CASE ~ Replaces(l, n)
    <3>1. Say(old, n) = {}
      BY <2>2
    <3>2. Joins(Say(old, n), k + 1, Say(new, n))
      BY <1>0, <2>2, SayMore
    <3> QED
      BY <3>1, <3>2 DEF Joins
  <2> QED
    BY <2>1, <2>2
<1>3. Max({k + 1}) = k + 1
  <2>1. {} \in SUBSET (1 .. k) /\ {} \cup {k + 1} = {k + 1}
    OBVIOUS
  <2> QED
    BY <2>1, MaxOfMore
<1>4. set = IF value = Unset THEN {} ELSE {k + 1}
  BY <1>1, <1>2
<1>5. LastSet(new, n, field) = IF set = {} THEN Unset ELSE new[Max(set)][n][field]
  BY DEF LastSet
<1>6. LastSaid(new, n, field) = new[Max({k + 1})][n][field]
  BY <1>2 DEF LastSaid
<1>7. AllOf(new, n, field) = UNION {new[i][n][field] : i \in {k + 1}}
  BY <1>2 DEF AllOf
<1> HIDE DEF set
<1>8. LastSet(new, n, field) = value
  BY <1>1, <1>3, <1>4, <1>5
<1>9. LastSaid(new, n, field) = value
  BY <1>1, <1>3, <1>6
<1>10. AllOf(new, n, field) = value
  <2>1. \A x : x \in AllOf(new, n, field) <=> x \in value
    BY <1>1, <1>7
  <2> QED
    BY <1>7, <2>1
<1>11. Say(new, n) # {}
  BY <1>2
<1> QED
  BY <1>8, <1>9, <1>10, <1>11

\* A layer that merges its entry with the one there is.
LEMMA SaidToo ==
  ASSUME NEW old, NEW l, NEW new, OneMore(old, l, new), NEW n, NEW field,
         n \in DOMAIN l, ~ Replaces(l, n)
  PROVE  /\ Say(new, n) # {}
         /\ LastSet(new, n, field) = Given(LastSet(old, n, field), l[n][field])
         /\ LastSaid(new, n, field) = l[n][field]
         /\ AllOf(new, n, field) = AllOf(old, n, field) \cup l[n][field]
<1> DEFINE S == Say(old, n)
           was == {i \in S : old[i][n][field] # Unset}
           set == {i \in Say(new, n) : new[i][n][field] # Unset}
           value == l[n][field]
<1>0. PICK k \in Nat : MoreAt(old, l, new, k)
  BY DEF OneMore
<1>1. /\ DOMAIN old = 1 .. k /\ DOMAIN new = 1 .. k + 1
      /\ \A i \in 1 .. k : new[i] = old[i]
      /\ new[k + 1] = l
  BY <1>0 DEF MoreAt
<1>2. S \in SUBSET (1 .. k) /\ Say(new, n) = S \cup {k + 1}
  <2>1. S \subseteq 1 .. k
    BY <1>0, SayMore
  <2>2. Joins(S, k + 1, Say(new, n))
    BY <1>0, SayMore
  <2> QED
    BY <2>1, <2>2 DEF Joins
<1>3. \A i \in S : new[i] = old[i]
  BY <1>1, <1>2
<1>4. /\ LastSet(old, n, field) = IF was = {} THEN Unset ELSE old[Max(was)][n][field]
      /\ LastSet(new, n, field) = IF set = {} THEN Unset ELSE new[Max(set)][n][field]
  BY DEF LastSet
<1>5. LastSaid(new, n, field) = new[Max(S \cup {k + 1})][n][field]
  BY <1>2 DEF LastSaid
<1>6. /\ AllOf(old, n, field) = UNION {old[i][n][field] : i \in S}
      /\ AllOf(new, n, field) = UNION {new[i][n][field] : i \in S \cup {k + 1}}
  BY <1>2 DEF AllOf
<1> HIDE DEF S
<1>7. was \in SUBSET (1 .. k) /\ was \subseteq S
  BY <1>2
<1>8. set = IF value = Unset THEN was ELSE was \cup {k + 1}
  <2>1. \A i : i \in set <=> (i \in S \/ i = k + 1) /\ new[i][n][field] # Unset
    BY <1>2
  <2>2. \A i : i \in set <=> i \in was \/ (i = k + 1 /\ value # Unset)
    BY <1>1, <1>3, <2>1
  <2> HIDE DEF was, set, value
  <2> QED
    BY <2>2
<1>9. Max(S \cup {k + 1}) = k + 1 /\ Max(was \cup {k + 1}) = k + 1
  BY <1>2, <1>7, MaxOfMore
<1>10. was # {} => Max(was) \in S
  BY <1>7, MaxIsMember
<1>11. LastSet(new, n, field) = Given(LastSet(old, n, field), value)
  <2> HIDE DEF was, set
  <2>1. CASE value = Unset
    BY <1>3, <1>4, <1>8, <1>10, <2>1 DEF Given
  <2>2. CASE value # Unset
    BY <1>1, <1>4, <1>8, <1>9, <2>2 DEF Given
  <2> QED
    BY <2>1, <2>2
<1>12. LastSaid(new, n, field) = value
  BY <1>1, <1>5, <1>9
<1>13. AllOf(new, n, field) = AllOf(old, n, field) \cup value
  <2>1. \A x : x \in AllOf(new, n, field) <=> \E i \in S \cup {k + 1} : x \in new[i][n][field]
    BY <1>6
  <2>2. \A x : x \in AllOf(old, n, field) <=> \E i \in S : x \in old[i][n][field]
    BY <1>6
  <2>3. \A x : x \in AllOf(new, n, field) <=> x \in AllOf(old, n, field) \/ x \in value
    BY <1>1, <1>3, <2>1, <2>2
  <2> QED
    BY <1>6, <2>3
<1>14. Say(new, n) # {}
  BY <1>2
<1> QED
  BY <1>11, <1>12, <1>13, <1>14

-----------------------------------------------------------------------------
(* The merge of one more layer.                                            *)

\* The names are those of some layer, and their entries have all the fields.
Whole(entries, tables, fields) ==
  /\ DOMAIN entries = AllNames(tables)
  /\ \A n \in DOMAIN entries : Say(tables, n) # {} /\ fields \subseteq DOMAIN entries[n]

HasAll(l, fields) == \A n \in DOMAIN l : fields \subseteq DOMAIN l[n]

LEMMA NamesMore ==
  ASSUME NEW old, NEW l, NEW new, OneMore(old, l, new)
  PROVE  AllNames(new) = AllNames(old) \cup DOMAIN l
<1>0. PICK k \in Nat : MoreAt(old, l, new, k)
  BY DEF OneMore
<1>1. /\ DOMAIN old = 1 .. k /\ DOMAIN new = 1 .. k + 1
      /\ \A i \in 1 .. k : new[i] = old[i]
      /\ new[k + 1] = l
  BY <1>0 DEF MoreAt
<1>2. \A n : n \in AllNames(old) <=> \E i \in 1 .. k : n \in DOMAIN new[i]
  BY <1>1 DEF AllNames
<1>3. \A n : n \in AllNames(new) <=> \E i \in 1 .. k + 1 : n \in DOMAIN new[i]
  BY <1>1 DEF AllNames
<1>4. \A i : i \in 1 .. k + 1 <=> i \in 1 .. k \/ i = k + 1
  OBVIOUS
<1>5. \A n : n \in AllNames(new) <=> n \in AllNames(old) \/ n \in DOMAIN l
  BY <1>1, <1>2, <1>3, <1>4
<1> QED
  BY <1>5

LEMMA NobodySays ==
  ASSUME NEW tables, NEW n, n \notin AllNames(tables)
  PROVE  Say(tables, n) = {}
<1>1. \A i : i \notin Say(tables, n)
  BY SaysIt DEF AllNames
<1> QED
  BY <1>1

\* What becomes of the entry of a name: it is as it was, as the layer has it, or
\* the two are merged.
Kept(entries, l, e, n) == n \notin DOMAIN l /\ n \in DOMAIN entries /\ e[n] = entries[n]
Anew(old, l, e, n) == n \in DOMAIN l /\ e[n] = l[n] /\ (Say(old, n) = {} \/ Replaces(l, n))
Mixed(entries, l, e, both, n) == n \in Both(entries, l) /\ e[n] = both[n] /\ ~ Replaces(l, n)

LEMMA MergedMore ==
  ASSUME NEW old, NEW l, NEW new, OneMore(old, l, new), NEW entries, NEW both, NEW fields,
         Whole(entries, old, fields), HasAll(l, fields),
         \A n \in Both(entries, l) : fields \subseteq DOMAIN both[n],
         NEW e, e = Merged(entries, l, both)
  PROVE  /\ Whole(e, new, fields)
         /\ \A n \in DOMAIN e : \/ Kept(entries, l, e, n) /\ Say(old, n) # {}
                               \/ Anew(old, l, e, n)
                               \/ Mixed(entries, l, e, both, n)
<1>1. /\ DOMAIN entries = AllNames(old)
      /\ \A n \in DOMAIN entries : Say(old, n) # {} /\ fields \subseteq DOMAIN entries[n]
      /\ \A n \in DOMAIN l : fields \subseteq DOMAIN l[n]
      /\ \A n \in DOMAIN entries \cap DOMAIN l : fields \subseteq DOMAIN both[n]
  BY DEF Whole, Both, HasAll
<1>2. DOMAIN e = DOMAIN entries \cup DOMAIN l
  BY DEF Merged
<1>3. DOMAIN e = AllNames(new)
  BY <1>1, <1>2, NamesMore
<1>4. \A n : n \notin DOMAIN entries => Say(old, n) = {}
  BY <1>1, NobodySays
<1>5. ASSUME NEW n \in DOMAIN e
      PROVE  \/ Kept(entries, l, e, n) /\ Say(old, n) # {}
             \/ Anew(old, l, e, n)
             \/ Mixed(entries, l, e, both, n)
  <2>1. CASE n \notin DOMAIN l
    BY <1>1, <1>2, <2>1 DEF Merged, Kept
  <2>2. CASE n \in DOMAIN l /\ (n \notin DOMAIN entries \/ Replaces(l, n))
    BY <1>2, <1>4, <2>2 DEF Merged, Anew, Replaces
  <2>3. CASE n \in DOMAIN l /\ n \in DOMAIN entries /\ ~ Replaces(l, n)
    BY <1>2, <2>3 DEF Merged, Mixed, Both, Replaces
  <2> QED
    BY <2>1, <2>2, <2>3
<1>6. ASSUME NEW n \in DOMAIN e
      PROVE  Say(new, n) # {} /\ fields \subseteq DOMAIN e[n]
  <2>1. CASE Kept(entries, l, e, n) /\ Say(old, n) # {}
    BY <1>1, <2>1, NotNamed DEF Kept
  <2>2. CASE Anew(old, l, e, n)
    BY <1>1, <2>2, SaidAnew DEF Anew
  <2>3. CASE Mixed(entries, l, e, both, n)
    BY <1>1, <2>3, SaidToo DEF Mixed, Both
  <2> QED
    BY <1>5, <2>1, <2>2, <2>3
<1> QED
  BY <1>3, <1>5, <1>6 DEF Whole

\* A field of an entry: an optional one, one that is not, and a list.
LEMMA FieldMore ==
  ASSUME NEW old, NEW l, NEW new, OneMore(old, l, new), NEW entries, NEW both, NEW fields,
         Whole(entries, old, fields), HasAll(l, fields),
         \A n \in Both(entries, l) : fields \subseteq DOMAIN both[n],
         NEW e, e = Merged(entries, l, both), NEW n \in DOMAIN e, NEW field
  PROVE  /\ /\ n \in DOMAIN entries => entries[n][field] = LastSet(old, n, field)
            /\ n \in Both(entries, l) => both[n][field] = Given(entries[n][field], l[n][field])
            => e[n][field] = LastSet(new, n, field)
         /\ /\ n \in DOMAIN entries => entries[n][field] = LastSaid(old, n, field)
            /\ n \in Both(entries, l) => both[n][field] = l[n][field]
            => e[n][field] = LastSaid(new, n, field)
         /\ /\ n \in DOMAIN entries => entries[n][field] = AllOf(old, n, field)
            /\ n \in Both(entries, l) => both[n][field] = entries[n][field] \cup l[n][field]
            => e[n][field] = AllOf(new, n, field)
<1>1. \/ Kept(entries, l, e, n) /\ Say(old, n) # {}
      \/ Anew(old, l, e, n)
      \/ Mixed(entries, l, e, both, n)
  BY MergedMore
<1>2. CASE Kept(entries, l, e, n) /\ Say(old, n) # {}
  <2>1. n \notin DOMAIN l /\ n \in DOMAIN entries /\ e[n] = entries[n]
    BY <1>2 DEF Kept
  <2>2. /\ LastSet(new, n, field) = LastSet(old, n, field)
        /\ LastSaid(new, n, field) = LastSaid(old, n, field)
        /\ AllOf(new, n, field) = AllOf(old, n, field)
    BY <1>2, <2>1, NotNamed
  <2> QED
    BY <2>1, <2>2
<1>3. CASE Anew(old, l, e, n)
  <2>1. n \in DOMAIN l /\ e[n] = l[n] /\ (Say(old, n) = {} \/ Replaces(l, n))
    BY <1>3 DEF Anew
  <2>2. /\ LastSet(new, n, field) = l[n][field]
        /\ LastSaid(new, n, field) = l[n][field]
        /\ AllOf(new, n, field) = l[n][field]
    BY <2>1, SaidAnew
  <2> QED
    BY <2>1, <2>2
<1>4. CASE Mixed(entries, l, e, both, n)
  <2>1. /\ n \in DOMAIN l /\ n \in DOMAIN entries /\ n \in Both(entries, l)
        /\ e[n] = both[n] /\ ~ Replaces(l, n)
    BY <1>4 DEF Mixed, Both
  <2>2. /\ LastSet(new, n, field) = Given(LastSet(old, n, field), l[n][field])
        /\ LastSaid(new, n, field) = l[n][field]
        /\ AllOf(new, n, field) = AllOf(old, n, field) \cup l[n][field]
    BY <2>1, SaidToo
  <2> QED
    BY <2>1, <2>2
<1> QED
  BY <1>1, <1>2, <1>3, <1>4

CheckFields == {"http", "exec", "startup", "override_mode"}
AlertFields == {"url", "format", "onCheck", "override_mode"}

LEMMA ServicesMore ==
  ASSUME NEW old, NEW l, NEW new, OneMore(old, l, new), NEW entries,
         ServicesMerged(entries, old, {}), Whole(entries, old, ServiceFields), HasAll(l, ServiceFields),
         NEW both, both = [n \in Both(entries, l) |-> merge_service(entries[n], l[n])],
         NEW e, e = Merged(entries, l, both)
  PROVE  ServicesMerged(e, new, {}) /\ Whole(e, new, ServiceFields)
<1>1. ASSUME NEW n \in Both(entries, l)
      PROVE  /\ ServiceFields \subseteq DOMAIN both[n]
             /\ both[n].command = Given(entries[n].command, l[n].command)
             /\ both[n].startup = l[n].startup
             /\ both[n].requires = entries[n].requires \cup l[n].requires
  <2>1. ServiceFields \subseteq DOMAIN entries[n]
    BY DEF Both, Whole
  <2>2. both[n] = merge_service(entries[n], l[n])
    OBVIOUS
  <2> QED
    BY <2>1, <2>2 DEF merge_service, ServiceFields
<1>2. \A n \in Both(entries, l) : ServiceFields \subseteq DOMAIN both[n]
  BY <1>1
<1>3. Whole(e, new, ServiceFields)
  BY <1>2, MergedMore
<1>4. ASSUME NEW n \in DOMAIN e
      PROVE  /\ e[n].command = LastSet(new, n, "command")
             /\ e[n].startup = LastSaid(new, n, "startup")
             /\ e[n].requires = AllOf(new, n, "requires")
  <2>1. e[n].command = LastSet(new, n, "command")
    <3>1. n \in DOMAIN entries => entries[n].command = LastSet(old, n, "command")
      BY DEF ServicesMerged
    <3>2. n \in Both(entries, l) => both[n].command = Given(entries[n].command, l[n].command)
      BY <1>1
    <3> QED
      BY <1>2, <3>1, <3>2, FieldMore
  <2>2. e[n].startup = LastSaid(new, n, "startup")
    <3>1. n \in DOMAIN entries => entries[n].startup = LastSaid(old, n, "startup")
      BY DEF ServicesMerged
    <3>2. n \in Both(entries, l) => both[n].startup = l[n].startup
      BY <1>1
    <3> QED
      BY <1>2, <3>1, <3>2, FieldMore
  <2>3. e[n].requires = AllOf(new, n, "requires")
    <3>1. n \in DOMAIN entries => entries[n].requires = AllOf(old, n, "requires")
      BY DEF ServicesMerged
    <3>2. n \in Both(entries, l) => both[n].requires = entries[n].requires \cup l[n].requires
      BY <1>1
    <3> QED
      BY <1>2, <3>1, <3>2, FieldMore
  <2> QED
    BY <2>1, <2>2, <2>3
<1> QED
  BY <1>3, <1>4 DEF ServicesMerged, Whole

LEMMA ChecksMore ==
  ASSUME NEW old, NEW l, NEW new, OneMore(old, l, new), NEW entries,
         ChecksMerged(entries, old), Whole(entries, old, CheckFields), HasAll(l, CheckFields),
         NEW both, both = [n \in Both(entries, l) |-> merge_check(entries[n], l[n])],
         NEW e, e = Merged(entries, l, both)
  PROVE  ChecksMerged(e, new) /\ Whole(e, new, CheckFields)
<1>1. ASSUME NEW n \in Both(entries, l)
      PROVE  /\ CheckFields \subseteq DOMAIN both[n]
             /\ both[n].http = Given(entries[n].http, l[n].http)
             /\ both[n].exec = Given(entries[n].exec, l[n].exec)
             /\ both[n].startup = l[n].startup
  <2>1. CheckFields \subseteq DOMAIN entries[n]
    BY DEF Both, Whole
  <2>2. both[n] = merge_check(entries[n], l[n])
    OBVIOUS
  <2> QED
    BY <2>1, <2>2 DEF merge_check, CheckFields
<1>2. \A n \in Both(entries, l) : CheckFields \subseteq DOMAIN both[n]
  BY <1>1
<1>3. Whole(e, new, CheckFields)
  BY <1>2, MergedMore
<1>4. ASSUME NEW n \in DOMAIN e
      PROVE  /\ e[n].http = LastSet(new, n, "http")
             /\ e[n].exec = LastSet(new, n, "exec")
             /\ e[n].startup = LastSaid(new, n, "startup")
  <2>1. e[n].http = LastSet(new, n, "http")
    <3>1. n \in DOMAIN entries => entries[n].http = LastSet(old, n, "http")
      BY DEF ChecksMerged
    <3>2. n \in Both(entries, l) => both[n].http = Given(entries[n].http, l[n].http)
      BY <1>1
    <3> QED
      BY <1>2, <3>1, <3>2, FieldMore
  <2>2. e[n].exec = LastSet(new, n, "exec")
    <3>1. n \in DOMAIN entries => entries[n].exec = LastSet(old, n, "exec")
      BY DEF ChecksMerged
    <3>2. n \in Both(entries, l) => both[n].exec = Given(entries[n].exec, l[n].exec)
      BY <1>1
    <3> QED
      BY <1>2, <3>1, <3>2, FieldMore
  <2>3. e[n].startup = LastSaid(new, n, "startup")
    <3>1. n \in DOMAIN entries => entries[n].startup = LastSaid(old, n, "startup")
      BY DEF ChecksMerged
    <3>2. n \in Both(entries, l) => both[n].startup = l[n].startup
      BY <1>1
    <3> QED
      BY <1>2, <3>1, <3>2, FieldMore
  <2> QED
    BY <2>1, <2>2, <2>3
<1> QED
  BY <1>3, <1>4 DEF ChecksMerged, Whole

LEMMA AlertsMore ==
  ASSUME NEW old, NEW l, NEW new, OneMore(old, l, new), NEW entries,
         AlertsMerged(entries, old), Whole(entries, old, AlertFields), HasAll(l, AlertFields),
         NEW both, both = [n \in Both(entries, l) |-> merge_alert(entries[n], l[n])],
         NEW e, e = Merged(entries, l, both)
  PROVE  AlertsMerged(e, new) /\ Whole(e, new, AlertFields)
<1>1. ASSUME NEW n \in Both(entries, l)
      PROVE  /\ AlertFields \subseteq DOMAIN both[n]
             /\ both[n].url = Given(entries[n].url, l[n].url)
             /\ both[n].format = l[n].format
             /\ both[n].onCheck = entries[n].onCheck \cup l[n].onCheck
  <2>1. AlertFields \subseteq DOMAIN entries[n]
    BY DEF Both, Whole
  <2>2. both[n] = merge_alert(entries[n], l[n])
    OBVIOUS
  <2> QED
    BY <2>1, <2>2 DEF merge_alert, AlertFields
<1>2. \A n \in Both(entries, l) : AlertFields \subseteq DOMAIN both[n]
  BY <1>1
<1>3. Whole(e, new, AlertFields)
  BY <1>2, MergedMore
<1>4. ASSUME NEW n \in DOMAIN e
      PROVE  /\ e[n].url = LastSet(new, n, "url")
             /\ e[n].format = LastSaid(new, n, "format")
             /\ e[n].onCheck = AllOf(new, n, "onCheck")
  <2>1. e[n].url = LastSet(new, n, "url")
    <3>1. n \in DOMAIN entries => entries[n].url = LastSet(old, n, "url")
      BY DEF AlertsMerged
    <3>2. n \in Both(entries, l) => both[n].url = Given(entries[n].url, l[n].url)
      BY <1>1
    <3> QED
      BY <1>2, <3>1, <3>2, FieldMore
  <2>2. e[n].format = LastSaid(new, n, "format")
    <3>1. n \in DOMAIN entries => entries[n].format = LastSaid(old, n, "format")
      BY DEF AlertsMerged
    <3>2. n \in Both(entries, l) => both[n].format = l[n].format
      BY <1>1
    <3> QED
      BY <1>2, <3>1, <3>2, FieldMore
  <2>3. e[n].onCheck = AllOf(new, n, "onCheck")
    <3>1. n \in DOMAIN entries => entries[n].onCheck = AllOf(old, n, "onCheck")
      BY DEF AlertsMerged
    <3>2. n \in Both(entries, l) => both[n].onCheck = entries[n].onCheck \cup l[n].onCheck
      BY <1>1
    <3> QED
      BY <1>2, <3>1, <3>2, FieldMore
  <2> QED
    BY <2>1, <2>2, <2>3
<1> QED
  BY <1>3, <1>4 DEF AlertsMerged, Whole

\* The last depth any layer sets.
LEMMA DepthMore ==
  ASSUME NEW old, NEW l, NEW new, OneMore(old, l, new)
  PROVE  LastDepth(new) = Given(LastDepth(old), l.queueDepth)
<1> DEFINE was == {i \in DOMAIN old : old[i].queueDepth # Unset}
           set == {i \in DOMAIN new : new[i].queueDepth # Unset}
           value == l.queueDepth
<1>1. PICK k \in Nat : MoreAt(old, l, new, k)
  BY DEF OneMore
<1>2. /\ DOMAIN old = 1 .. k /\ DOMAIN new = 1 .. k + 1
      /\ \A i \in 1 .. k : new[i] = old[i]
      /\ new[k + 1] = l
  BY <1>1 DEF MoreAt
<1>3. was \in SUBSET (1 .. k)
  BY <1>2
<1>4. set = IF value = Unset THEN was ELSE was \cup {k + 1}
  <2>1. \A i : i \in 1 .. k + 1 <=> i \in 1 .. k \/ i = k + 1
    OBVIOUS
  <2>2. \A i : i \in set <=> i \in was \/ (i = k + 1 /\ value # Unset)
    BY <1>2, <2>1
  <2> HIDE DEF was, set, value
  <2> QED
    BY <2>2
<1>5. /\ LastDepth(old) = IF was = {} THEN Unset ELSE old[Max(was)].queueDepth
      /\ LastDepth(new) = IF set = {} THEN Unset ELSE new[Max(set)].queueDepth
  BY DEF LastDepth
<1>6. Max(was \cup {k + 1}) = k + 1 /\ (was # {} => Max(was) \in was)
  BY <1>3, MaxOfMore, MaxIsMember
<1> HIDE DEF was, set
<1>7. was # {} => Max(was) \in 1 .. k
  BY <1>3, <1>6
<1>8. CASE value = Unset
  BY <1>2, <1>4, <1>5, <1>7, <1>8 DEF Given
<1>9. CASE value # Unset
  BY <1>2, <1>4, <1>5, <1>6, <1>9 DEF Given
<1> QED
  BY <1>8, <1>9

-----------------------------------------------------------------------------
(* The merge of all of them.                                               *)

\* What is true of the merge of the first layers.
MergedSoFar(p, layers) ==
  /\ {"services", "checks", "alerts", "queueDepth"} \subseteq DOMAIN p
  /\ IsMergeOf(p, layers, {})
  /\ Whole(p.services, Tables(layers, "services"), ServiceFields)
  /\ Whole(p.checks, Tables(layers, "checks"), CheckFields)
  /\ Whole(p.alerts, Tables(layers, "alerts"), AlertFields)

LayerOK(l) ==
  HasAll(l.services, ServiceFields) /\ HasAll(l.checks, CheckFields) /\ HasAll(l.alerts, AlertFields)

LEMMA TablesMore ==
  ASSUME NEW old, NEW l, NEW new, OneMore(old, l, new), NEW kind
  PROVE  OneMore(Tables(old, kind), l[kind], Tables(new, kind))
<1>1. PICK k \in Nat : MoreAt(old, l, new, k)
  BY DEF OneMore
<1>2. /\ DOMAIN old = 1 .. k /\ DOMAIN new = 1 .. k + 1
      /\ \A i \in 1 .. k : new[i] = old[i]
      /\ new[k + 1] = l
  BY <1>1 DEF MoreAt
<1>3. k + 1 \in 1 .. k + 1 /\ \A i \in 1 .. k : i \in 1 .. k + 1
  OBVIOUS
<1>4. MoreAt(Tables(old, kind), l[kind], Tables(new, kind), k)
  BY <1>2, <1>3 DEF MoreAt, Tables
<1> QED
  BY <1>4 DEF OneMore

LEMMA MergeLayerMore ==
  ASSUME NEW old, NEW l, NEW new, OneMore(old, l, new), NEW p, MergedSoFar(p, old), LayerOK(l)
  PROVE  MergedSoFar(MergeLayer(p, l), new)
<1> DEFINE q == MergeLayer(p, l)
<1>1. /\ ServicesMerged(p.services, Tables(old, "services"), {})
      /\ ChecksMerged(p.checks, Tables(old, "checks"))
      /\ AlertsMerged(p.alerts, Tables(old, "alerts"))
      /\ p.queueDepth = LastDepth(old)
      /\ Whole(p.services, Tables(old, "services"), ServiceFields)
      /\ Whole(p.checks, Tables(old, "checks"), CheckFields)
      /\ Whole(p.alerts, Tables(old, "alerts"), AlertFields)
  BY DEF MergedSoFar, IsMergeOf
<1>2. /\ HasAll(l.services, ServiceFields) /\ HasAll(l.checks, CheckFields)
      /\ HasAll(l.alerts, AlertFields)
  BY DEF LayerOK
<1>3. /\ OneMore(Tables(old, "services"), l.services, Tables(new, "services"))
      /\ OneMore(Tables(old, "checks"), l.checks, Tables(new, "checks"))
      /\ OneMore(Tables(old, "alerts"), l.alerts, Tables(new, "alerts"))
  BY TablesMore
<1>4. /\ q.services = Merged(p.services, l.services,
                             [n \in Both(p.services, l.services) |->
                                merge_service(p.services[n], l.services[n])])
      /\ q.checks = Merged(p.checks, l.checks,
                           [n \in Both(p.checks, l.checks) |->
                              merge_check(p.checks[n], l.checks[n])])
      /\ q.alerts = Merged(p.alerts, l.alerts,
                           [n \in Both(p.alerts, l.alerts) |->
                              merge_alert(p.alerts[n], l.alerts[n])])
      /\ q.queueDepth = Given(p.queueDepth, l.queueDepth)
  BY DEF MergeLayer
<1>9. {"services", "checks", "alerts", "queueDepth"} \subseteq DOMAIN q
  BY DEF MergeLayer
<1> HIDE DEF q
<1>5. /\ ServicesMerged(q.services, Tables(new, "services"), {})
      /\ Whole(q.services, Tables(new, "services"), ServiceFields)
  BY <1>1, <1>2, <1>3, <1>4, ServicesMore
<1>6. /\ ChecksMerged(q.checks, Tables(new, "checks"))
      /\ Whole(q.checks, Tables(new, "checks"), CheckFields)
  BY <1>1, <1>2, <1>3, <1>4, ChecksMore
<1>7. /\ AlertsMerged(q.alerts, Tables(new, "alerts"))
      /\ Whole(q.alerts, Tables(new, "alerts"), AlertFields)
  BY <1>1, <1>2, <1>3, <1>4, AlertsMore
<1>8. q.queueDepth = LastDepth(new)
  BY <1>1, <1>4, DepthMore
<1> QED
  BY <1>5, <1>6, <1>7, <1>8, <1>9 DEF MergedSoFar, IsMergeOf, q

\* No layer.
LEMMA NothingMerged ==
  ASSUME NEW layers, DOMAIN layers = {}
  PROVE  MergedSoFar(EmptyPlan, layers)
<1>1. DOMAIN <<>> = {}
  OBVIOUS
<1>2. \A kind : DOMAIN Tables(layers, kind) = {}
  BY DEF Tables
<1>3. \A kind : AllNames(Tables(layers, kind)) = {}
  BY <1>2 DEF AllNames
<1>4. LastDepth(layers) = Unset
  BY DEF LastDepth
<1> QED
  BY <1>1, <1>3, <1>4 DEF MergedSoFar, IsMergeOf, EmptyPlan, Whole, ServicesMerged, ChecksMerged,
                          AlertsMerged

\* The merges of the first layers, up to n of them.
IsRun(merged, layers, n) ==
  merged = [k \in 0 .. n |-> IF k = 0 THEN EmptyPlan ELSE MergeLayer(merged[k - 1], layers[k])]

\* There is one for every n.
LEMMA RunExists ==
  ASSUME NEW layers, NEW n \in Nat
  PROVE  \E merged : IsRun(merged, layers, n)
<1> DEFINE T == {m \in Nat : \E merged : IsRun(merged, layers, m)}
<1>1. 0 \in T
  <2>1. IsRun([k \in 0 .. 0 |-> EmptyPlan], layers, 0)
    BY DEF IsRun
  <2> QED
    BY <2>1
<1>2. ASSUME NEW m \in T PROVE m + 1 \in T
  <2>1. PICK merged : IsRun(merged, layers, m)
    BY <1>2
  <2> DEFINE more == [k \in 0 .. m + 1 |-> IF k = m + 1 THEN MergeLayer(merged[m], layers[k])
                                                      ELSE merged[k]]
  <2>2. m \in Nat
    BY <1>2
  <2>3. \A k \in 0 .. m : merged[k] = IF k = 0 THEN EmptyPlan ELSE MergeLayer(merged[k - 1], layers[k])
    BY <2>1 DEF IsRun
  <2>4. \A k \in 0 .. m + 1 :
          more[k] = IF k = 0 THEN EmptyPlan ELSE MergeLayer(more[k - 1], layers[k])
    <3> SUFFICES ASSUME NEW k \in 0 .. m + 1
                 PROVE  more[k] = IF k = 0 THEN EmptyPlan ELSE MergeLayer(more[k - 1], layers[k])
      OBVIOUS
    <3>1. CASE k = m + 1
      <4>1. k # 0 /\ k - 1 = m /\ m \in 0 .. m + 1 /\ m # m + 1
        BY <2>2, <3>1
      <4> QED
        BY <3>1, <4>1
    <3>2. CASE k # m + 1
      <4>1. k \in 0 .. m
        BY <2>2, <3>2
      <4>2. k # 0 => k - 1 \in 0 .. m + 1 /\ k - 1 # m + 1
        BY <2>2, <4>1
      <4> QED
        BY <2>3, <3>2, <4>1, <4>2
    <3> QED
      BY <3>1, <3>2
  <2>5. more = [k \in 0 .. m + 1 |->
                  IF k = 0 THEN EmptyPlan ELSE MergeLayer(more[k - 1], layers[k])]
    <3>1. more = [k \in 0 .. m + 1 |-> more[k]]
      OBVIOUS
    <3> HIDE DEF more
    <3> QED
      BY <2>4, <3>1
  <2> HIDE DEF more
  <2>6. IsRun(more, layers, m + 1)
    BY <2>5 DEF IsRun
  <2> QED
    BY <2>2, <2>6
<1>3. T = Nat
  <2>1. T \subseteq Nat
    OBVIOUS
  <2> HIDE DEF T
  <2> QED
    BY <1>1, <1>2, <2>1, SetInduction
<1> QED
  BY <1>3

\* The merge of all layers is what a reader of all of them would say.
LEMMA MergeOfAll ==
  ASSUME NEW S, NEW layers \in Seq(S), \A k \in 1 .. Len(layers) : LayerOK(layers[k])
  PROVE  MergedSoFar(from_layers(layers), layers)
<1> DEFINE n == Len(layers)
           merged == CHOOSE m : IsRun(m, layers, n)
           Upto(k) == [i \in 1 .. k |-> layers[i]]
           T == {k \in Nat : k <= n => MergedSoFar(merged[k], Upto(k))}
<1>1. n \in Nat /\ layers \in [1 .. n -> S]
  BY LenProperties
<1>2. from_layers(layers) = merged[n]
  BY DEF from_layers, IsRun
<1>3. IsRun(merged, layers, n)
  BY <1>1, RunExists
<1> HIDE DEF merged
<1>4. \A k \in 0 .. n : merged[k] = IF k = 0 THEN EmptyPlan ELSE MergeLayer(merged[k - 1], layers[k])
  BY <1>3 DEF IsRun
<1> HIDE DEF n
<1>5. 0 \in T
  <2>1. DOMAIN Upto(0) = {}
    OBVIOUS
  <2>2. merged[0] = EmptyPlan
    BY <1>1, <1>4
  <2> HIDE DEF Upto
  <2>3. MergedSoFar(merged[0], Upto(0))
    BY <2>1, <2>2, NothingMerged
  <2> QED
    BY <2>3
<1>6. ASSUME NEW k \in T PROVE k + 1 \in T
  <2> SUFFICES ASSUME k + 1 <= n PROVE MergedSoFar(merged[k + 1], Upto(k + 1))
    BY <1>6
  <2>1. k \in Nat /\ k <= n /\ MergedSoFar(merged[k], Upto(k))
    BY <1>1, <1>6
  <2>2. merged[k + 1] = MergeLayer(merged[k], layers[k + 1])
    <3>1. k + 1 \in 0 .. n /\ k + 1 # 0 /\ (k + 1) - 1 = k
      BY <1>1, <2>1
    <3> QED
      BY <1>4, <3>1
  <2>3. LayerOK(layers[k + 1])
    <3>1. k + 1 \in 1 .. n
      BY <1>1, <2>1
    <3> QED
      BY <3>1 DEF n
  <2>4. OneMore(Upto(k), layers[k + 1], Upto(k + 1))
    <3>1. k + 1 \in 1 .. k + 1 /\ \A i \in 1 .. k : i \in 1 .. k + 1
      BY <2>1
    <3>2. MoreAt(Upto(k), layers[k + 1], Upto(k + 1), k)
      BY <3>1 DEF MoreAt
    <3> QED
      BY <2>1, <3>2 DEF OneMore
  <2> HIDE DEF Upto
  <2> QED
    BY <2>1, <2>2, <2>3, <2>4, MergeLayerMore
<1>7. T = Nat
  <2>1. T \subseteq Nat
    OBVIOUS
  <2> HIDE DEF T
  <2> QED
    BY <1>5, <1>6, <2>1, SetInduction
<1>8. MergedSoFar(merged[n], Upto(n))
  <2>1. n \in T
    <3> HIDE DEF T
    <3> QED
      BY <1>1, <1>7
  <2>2. n <= n
    BY <1>1
  <2> HIDE DEF Upto
  <2> QED
    BY <2>1, <2>2
<1>9. Upto(n) = layers
  BY <1>1
<1> QED
  BY <1>2, <1>8, <1>9

\* What a layer file says, as it is parsed.
LEMMA ParsedOK ==
  ASSUME NEW c \in Contents
  PROVE  LayerOK(Parsed[c]) /\ DOMAIN Parsed[c].services \subseteq Names
<1> DEFINE t == Text[c]
           known == [n \in DOMAIN t.services |->
                       [k \in DOMAIN t.services[n] \ {"override"} |-> t.services[n][k]]]
<1>1. /\ {"services", "checks", "alerts", "queueDepth"} \subseteq DOMAIN t
      /\ DOMAIN t.services \subseteq Names
      /\ \A n \in DOMAIN t.services :
           {"command", "startup", "requires", "override_mode"} \subseteq DOMAIN t.services[n]
      /\ \A n \in DOMAIN t.checks :
           {"http", "exec", "startup", "override_mode"} \subseteq DOMAIN t.checks[n]
      /\ \A n \in DOMAIN t.alerts :
           {"url", "format", "onCheck", "override_mode"} \subseteq DOMAIN t.alerts[n]
  BY TextAssumption
<1>2. Parsed[c] = [t EXCEPT !.services = known]
  BY DEF Parsed, parse
<1>3. \A n \in DOMAIN known : ServiceFields \subseteq DOMAIN known[n]
  BY <1>1 DEF ServiceFields
<1>4. DOMAIN known \subseteq Names
  BY <1>1
<1> HIDE DEF t, known
<1>5. /\ Parsed[c].services = known /\ Parsed[c].checks = t.checks /\ Parsed[c].alerts = t.alerts
  BY <1>1, <1>2
<1> QED
  BY <1>1, <1>3, <1>4, <1>5 DEF LayerOK, HasAll, CheckFields, AlertFields

\* The plan of some layer files.
LEMMA PlanOfLayers ==
  ASSUME NEW contents \in Seq(Contents)
  PROVE  /\ Plan(contents).layers = contents
         /\ Plan(contents).autostarted = {} /\ WholePlan(Plan(contents))
         /\ IsMergeOf(Plan(contents).merged, [k \in DOMAIN contents |-> Parsed[contents[k]]], {})
         /\ DOMAIN Plan(contents).merged.services \subseteq Names
<1> DEFINE layers == [k \in DOMAIN contents |-> Parsed[contents[k]]]
           S == {Parsed[c] : c \in Contents}
           n == Len(contents)
<1>1. n \in Nat /\ contents \in [1 .. n -> Contents]
  BY LenProperties
<1>2. layers \in [1 .. n -> S]
  BY <1>1
<1>3. layers \in Seq(S) /\ Len(layers) = n
  <2> HIDE DEF layers, n, S
  <2>1. layers \in Seq(S)
    BY <1>1, <1>2, SeqDef
  <2> QED
    BY <1>1, <1>2, <2>1, LenProperties
<1>4. \A k \in 1 .. n : layers[k] = Parsed[contents[k]] /\ contents[k] \in Contents
  BY <1>1
<1> HIDE DEF layers, n, S
<1>5. \A k \in 1 .. n : LayerOK(layers[k]) /\ DOMAIN layers[k].services \subseteq Names
  BY <1>4, ParsedOK
<1>6. MergedSoFar(from_layers(layers), layers)
  BY <1>3, <1>5, MergeOfAll
<1>7. Plan(contents) = [layers |-> contents, autostarted |-> {}, merged |-> from_layers(layers)]
  BY DEF Plan, layers
<1>8. DOMAIN from_layers(layers).services \subseteq Names
  <2>1. DOMAIN from_layers(layers).services = AllNames(Tables(layers, "services"))
    BY <1>6 DEF MergedSoFar, Whole
  <2>2. DOMAIN layers = 1 .. n
    BY <1>2
  <2>3. AllNames(Tables(layers, "services")) \subseteq Names
    BY <1>5, <2>2 DEF AllNames, Tables
  <2> QED
    BY <2>1, <2>3
<1>9. WholePlan(Plan(contents))
  BY <1>6, <1>7 DEF MergedSoFar, Whole, WholePlan
<1> QED
  BY <1>6, <1>7, <1>8, <1>9 DEF MergedSoFar, layers

-----------------------------------------------------------------------------
(* Mailboxes.                                                              *)

\* The commands that wait for an actor: no Shutdown if a name leads to it, and a
\* Shutdown at the end if none does.
MailOK(q, listed) ==
  IF listed THEN \A k \in 1 .. Len(q) : q[k] # "Shutdown"
            ELSE q # <<>> /\ q[Len(q)] = "Shutdown"

\* One command is taken.
LEMMA MailTaken ==
  ASSUME NEW q \in Seq(Commands), NEW listed \in BOOLEAN, MailOK(q, listed), q # <<>>
  PROVE  /\ Tail(q) \in Seq(Commands)
         /\ listed => Head(q) # "Shutdown"
         /\ Head(q) # "Shutdown" => MailOK(Tail(q), listed)
<1>1. /\ Len(q) \in Nat /\ Len(q) # 0 /\ Head(q) = q[1] /\ Tail(q) \in Seq(Commands)
      /\ Len(Tail(q)) = Len(q) - 1
      /\ \A k \in 1 .. Len(Tail(q)) : Tail(q)[k] = q[k + 1]
  BY LenProperties, EmptySeq, HeadTailProperties
<1> DEFINE t == Tail(q)
           m == Len(q)
<1>2. /\ m \in Nat /\ m # 0 /\ t \in Seq(Commands) /\ Len(t) = m - 1
      /\ \A k \in 1 .. m - 1 : t[k] = q[k + 1]
  BY <1>1
<1> HIDE DEF t, m
<1>3. CASE listed
  <2>1. \A k \in 1 .. m : q[k] # "Shutdown"
    BY <1>3 DEF MailOK, m
  <2>2. \A k \in 1 .. m - 1 : t[k] # "Shutdown"
    <3>1. \A k \in 1 .. m - 1 : k + 1 \in 1 .. m
      BY <1>2
    <3> QED
      BY <1>2, <2>1, <3>1
  <2>3. q[1] # "Shutdown"
    BY <1>2, <2>1
  <2> QED
    BY <1>1, <1>2, <1>3, <2>2, <2>3 DEF MailOK, t
<1>4. CASE ~ listed
  <2>1. q[m] = "Shutdown"
    BY <1>4 DEF MailOK, m
  <2>2. q[1] # "Shutdown" => m # 1 /\ t[m - 1] = "Shutdown"
    <3> HAVE q[1] # "Shutdown"
    <3>1. m # 1
      BY <2>1
    <3>2. m - 1 \in 1 .. m - 1 /\ (m - 1) + 1 = m
      BY <1>2, <3>1
    <3> QED
      BY <1>2, <2>1, <3>1, <3>2
  <2>3. m # 1 => t # <<>>
    <3>1. m # 1 => Len(t) # 0
      BY <1>2
    <3> QED
      BY <3>1, EmptySeq
  <2> QED
    BY <1>1, <1>2, <1>4, <2>2, <2>3 DEF MailOK, t
<1> QED
  BY <1>3, <1>4

\* One command is sent.
LEMMA MailSent ==
  ASSUME NEW q \in Seq(Commands), NEW cmd \in Commands
  PROVE  /\ Append(q, cmd) \in Seq(Commands)
         /\ MailOK(q, TRUE) /\ cmd # "Shutdown" => MailOK(Append(q, cmd), TRUE)
         /\ cmd = "Shutdown" => MailOK(Append(q, cmd), FALSE)
<1> DEFINE a == Append(q, cmd)
           m == Len(q)
<1>1. /\ m \in Nat /\ a \in Seq(Commands) /\ Len(a) = m + 1 /\ a[m + 1] = cmd
      /\ \A k \in 1 .. m : a[k] = q[k]
  BY AppendProperties, LenProperties
<1> HIDE DEF a, m
<1>2. MailOK(q, TRUE) /\ cmd # "Shutdown" => MailOK(a, TRUE)
  <2>1. \A k \in 1 .. m + 1 : k \in 1 .. m \/ k = m + 1
    BY <1>1
  <2>2. MailOK(q, TRUE) => \A k \in 1 .. m : q[k] # "Shutdown"
    BY DEF MailOK, m
  <2> QED
    BY <1>1, <2>1, <2>2 DEF MailOK
<1>3. cmd = "Shutdown" => MailOK(a, FALSE)
  <2>1. a # <<>>
    BY <1>1, EmptySeq
  <2> QED
    BY <1>1, <2>1 DEF MailOK
<1> QED
  BY <1>1, <1>2, <1>3 DEF a

LEMMA MailEmpty == MailOK(<<>>, TRUE)
BY EmptySeq DEF MailOK

-----------------------------------------------------------------------------
(* What the events that wait say of an actor.                              *)

\* The latest event of actor i among q says state s, or there is none and s is
\* what was seen before.
Agrees(q, i, seen, s) ==
  LET own == {k \in DOMAIN q : q[k].by = i}
  IN  /\ own = {} => s = seen
      /\ \A k \in own : (\A j \in own : j <= k) => s = q[k].state

LEMMA EventAt ==
  ASSUME NEW q \in Seq(Event)
  PROVE  \A k \in DOMAIN q : q[k].by \in Actors
<1>1. q \in [1 .. Len(q) -> Event]
  BY LenProperties
<1>2. \A k \in DOMAIN q : q[k] \in Event
  BY <1>1
<1> QED
  BY <1>2 DEF Event

\* An event that is sent.
LEMMA AgreesSent ==
  ASSUME NEW q \in Seq(Event), NEW e \in Event, NEW i \in Actors, NEW seen, NEW s
  PROVE  /\ Append(q, e) \in Seq(Event)
         /\ e.by = i => Agrees(Append(q, e), i, seen, e.state)
         /\ e.by # i /\ Agrees(q, i, seen, s) => Agrees(Append(q, e), i, seen, s)
<1> DEFINE a == Append(q, e)
           m == Len(q)
<1>1. /\ m \in Nat /\ a \in Seq(Event) /\ Len(a) = m + 1 /\ a[m + 1] = e
      /\ \A k \in 1 .. m : a[k] = q[k]
      /\ DOMAIN q = 1 .. m
  BY AppendProperties, LenProperties
<1>2. DOMAIN a = 1 .. m + 1
  BY <1>1, LenProperties
<1> HIDE DEF a, m
<1>3. m + 1 \in 1 .. m + 1 /\ \A k \in 1 .. m + 1 : k \in 1 .. m \/ k = m + 1
  BY <1>1
<1>4. ASSUME e.by = i PROVE Agrees(a, i, seen, e.state)
  <2> DEFINE own == {k \in DOMAIN a : a[k].by = i}
  <2>1. m + 1 \in own
    BY <1>1, <1>2, <1>3, <1>4
  <2>2. ASSUME NEW k \in own, \A j \in own : j <= k PROVE a[k] = e
    <3>1. k \in 1 .. m + 1 /\ m + 1 <= k
      BY <1>2, <2>1, <2>2
    <3>2. k = m + 1
      BY <1>1, <3>1
    <3> QED
      BY <1>1, <3>2
  <2> QED
    BY <2>1, <2>2 DEF Agrees
<1>5. ASSUME e.by # i, Agrees(q, i, seen, s) PROVE Agrees(a, i, seen, s)
  <2>1. {k \in DOMAIN a : a[k].by = i} = {k \in DOMAIN q : q[k].by = i}
    <3>1. 1 .. m \subseteq 1 .. m + 1
      BY <1>1
    <3> QED
      BY <1>1, <1>2, <1>3, <1>5, <3>1
  <2>2. \A k \in DOMAIN q : a[k] = q[k]
    BY <1>1
  <2> QED
    BY <1>5, <2>1, <2>2 DEF Agrees
<1> QED
  BY <1>1, <1>4, <1>5 DEF a

\* An event that is taken.
LEMMA AgreesTaken ==
  ASSUME NEW q \in Seq(Event), q # <<>>, NEW i \in Actors, NEW seen, NEW s, Agrees(q, i, seen, s)
  PROVE  /\ Tail(q) \in Seq(Event) /\ Head(q) \in Event /\ Head(q) = q[1] /\ 1 \in DOMAIN q
         /\ \A k \in DOMAIN Tail(q) : k + 1 \in DOMAIN q /\ Tail(q)[k] = q[k + 1]
         /\ Agrees(Tail(q), i, IF Head(q).by = i THEN Head(q).state ELSE seen, s)
<1> DEFINE t == Tail(q)
           m == Len(q) - 1
           h == Head(q)
<1>1. /\ Len(q) \in Nat /\ Len(q) # 0 /\ DOMAIN q = 1 .. Len(q) /\ h = q[1] /\ h \in Event
      /\ t \in Seq(Event) /\ Len(t) = m
      /\ \A k \in 1 .. Len(t) : t[k] = q[k + 1]
  BY LenProperties, EmptySeq, HeadTailProperties
<1>2. m \in Nat /\ DOMAIN q = 1 .. m + 1 /\ DOMAIN t = 1 .. m
  BY <1>1, LenProperties
<1>3. \A k \in 1 .. m : t[k] = q[k + 1] /\ k + 1 \in 1 .. m + 1
  BY <1>1, <1>2
<1> HIDE DEF t, m, h
<1>4. \A k \in 1 .. m + 1 : k = 1 \/ (k - 1 \in 1 .. m /\ (k - 1) + 1 = k)
  BY <1>2
<1> DEFINE own == {k \in DOMAIN q : q[k].by = i}
           left == {k \in DOMAIN t : t[k].by = i}
<1>5. \A k \in 1 .. m : k \in left <=> k + 1 \in own
  BY <1>2, <1>3
<1>6. left \subseteq 1 .. m /\ own \subseteq 1 .. m + 1 /\ (1 \in own <=> h.by = i)
  BY <1>1, <1>2
<1>7. /\ own = {} => s = seen
      /\ \A k \in own : (\A j \in own : j <= k) => s = q[k].state
  BY DEF Agrees
<1> HIDE DEF own, left
<1>8. ASSUME NEW k \in left, \A j \in left : j <= k PROVE s = t[k].state
  <2>1. k \in 1 .. m /\ k + 1 \in own
    BY <1>5, <1>6
  <2>2. ASSUME NEW j \in own PROVE j <= k + 1
    <3>1. j \in 1 .. m + 1
      BY <1>6
    <3>2. CASE j = 1
      BY <1>2, <2>1, <3>2
    <3>3. CASE j # 1
      <4>1. j - 1 \in 1 .. m /\ (j - 1) + 1 = j
        BY <1>4, <3>1, <3>3
      <4>2. j - 1 \in left
        BY <1>5, <4>1
      <4>3. j - 1 <= k
        BY <1>8, <4>2
      <4> QED
        BY <1>2, <2>1, <4>1, <4>3
    <3> QED
      BY <3>2, <3>3
  <2> QED
    BY <1>3, <1>7, <2>1, <2>2
<1>9. ASSUME left = {} PROVE s = IF h.by = i THEN h.state ELSE seen
  <2>1. own \subseteq {1}
    BY <1>4, <1>5, <1>6, <1>9
  <2>2. CASE h.by = i
    <3>1. own = {1}
      BY <1>6, <2>1, <2>2
    <3> QED
      BY <1>1, <1>7, <2>2, <3>1
  <2>3. CASE h.by # i
    <3>1. own = {}
      BY <1>6, <2>1, <2>3
    <3> QED
      BY <1>7, <2>3, <3>1
  <2> QED
    BY <2>2, <2>3
<1>10. Agrees(t, i, IF h.by = i THEN h.state ELSE seen, s)
  BY <1>8, <1>9 DEF Agrees, left
<1>11. \A k \in DOMAIN t : k + 1 \in DOMAIN q /\ t[k] = q[k + 1]
  BY <1>2, <1>3
<1>12. 1 \in DOMAIN q /\ t \in Seq(Event) /\ h \in Event /\ h = q[1]
  BY <1>1, <1>2
<1> QED
  BY <1>10, <1>11, <1>12 DEF t, h

-----------------------------------------------------------------------------
(* The invariant of the table, and the steps of the actors.                *)

\* Does a name lead to actor i?
Named(i) == table[configOf[i][1]] = i

\* With ActorsFollowPlan, what it takes to be inductive: a load is merged when all is
\* read, an actor that is not there yet is as it will begin, and one that is there
\* has a name.
Tabled ==
  /\ (reading.merged => reading.busy /\ reading.todo = <<>>) /\ (reading.busy => booted)
  /\ \A i \in Actors : phase[i] = "unborn" => mailbox[i] = <<>> /\ st[i] = "Inactive"
  /\ \A i \in Actors : phase[i] # "unborn" => configOf[i][1] \in Names
  /\ \A i \in Actors : phase[i] = "run" => MailOK(mailbox[i], Named(i))
  /\ \A n \in Names : table[n] # NoActor => phase[table[n]] = "run" /\ configOf[table[n]][1] = n
  /\ (booted /\ ~ reading.merged => {n \in Names : table[n] # NoActor} = Planned)
  /\ ConfigOfThePlan

\* What the step of an actor may do to its phase and its mailbox.
Moves(i) ==
  \/ phase'[i] = phase[i] /\ mailbox'[i] = mailbox[i]
  \/ /\ phase[i] = "run" /\ phase'[i] = "run" /\ mailbox[i] # <<>>
     /\ Head(mailbox[i]) # "Shutdown" /\ mailbox'[i] = Tail(mailbox[i])
  \/ /\ phase'[i] \in {"cleanup", "gone"}
     /\ \/ phase[i] = "cleanup"
        \/ phase[i] = "run" /\ mailbox[i] # <<>> /\ Head(mailbox[i]) = "Shutdown"

\* The parts of the state that an actor writes to.
LEMMA ActorFacts ==
  ASSUME ReplanTypeOK, Tabled, NEW i \in Actors, ActorStep(i) \/ ProcessExits(i)
  PROVE  /\ UNCHANGED <<files, booted, reading, plan, table, snap, pending, script, configOf,
                        changed, mixed>>
         /\ st' \in [Actors -> States] /\ \A j \in Actors \ {i} : st'[j] = st[j]
         /\ phase' \in [Actors -> Phases] /\ \A j \in Actors \ {i} : phase'[j] = phase[j]
         /\ mailbox' \in [Actors -> Seq(Commands)]
         /\ \A j \in Actors \ {i} : mailbox'[j] = mailbox[j]
         /\ events' = IF st'[i] # st[i] THEN Append(events, [by |-> i, state |-> st'[i]]) ELSE events
         /\ Moves(i)
         /\ phase[i] = "unborn" => st'[i] = st[i] /\ phase'[i] = "unborn"
<1>1. /\ st \in [Actors -> States] /\ phase \in [Actors -> Phases]
      /\ mailbox \in [Actors -> Seq(Commands)]
      /\ phase[i] = "unborn" => st[i] = "Inactive"
  BY DEF ReplanTypeOK, Tabled
<1>2. \A q \in Seq(Commands) : q # <<>> => Tail(q) \in Seq(Commands)
  BY HeadTailProperties
<1>3. ASSUME NEW cmd, Takes(i, cmd)
      PROVE  /\ mailbox' \in [Actors -> Seq(Commands)]
             /\ \A j \in Actors \ {i} : mailbox'[j] = mailbox[j]
             /\ phase[i] = "run" /\ mailbox[i] # <<>> /\ Head(mailbox[i]) = cmd
             /\ mailbox'[i] = Tail(mailbox[i])
  <2>1. mailbox' = [mailbox EXCEPT ![i] = Tail(mailbox[i])] /\ mailbox[i] # <<>>
    BY <1>3 DEF Takes
  <2>2. Tail(mailbox[i]) \in Seq(Commands)
    BY <1>1, <1>2, <2>1
  <2> QED
    BY <1>1, <1>3, <2>1, <2>2 DEF Takes
<1>4. CASE TakesStart(i)
  <2>1. Takes(i, "Start") /\ UNCHANGED phase /\ Leaves(i)
    BY <1>4 DEF TakesStart
  <2>2. st' = st \/ st' = [st EXCEPT ![i] = "Starting"]
    BY <1>4 DEF TakesStart, Life!Launch
  <2> QED
    BY <1>1, <1>3, <2>1, <2>2 DEF Leaves, Moves, States
<1>5. CASE Launched(i)
  <2>1. UNCHANGED <<phase, mailbox>> /\ Leaves(i)
    BY <1>5 DEF Launched
  <2>2. /\ st[i] = "Starting"
        /\ st' = [st EXCEPT ![i] = "Active"] \/ st' = [st EXCEPT ![i] = "Error"]
    BY <1>5 DEF Launched, Life!Up, Life!LaunchFails
  <2> QED
    BY <1>1, <2>1, <2>2 DEF Leaves, Moves, States
<1>6. CASE TakesStop(i)
  <2>1. Takes(i, "Stop") /\ UNCHANGED phase /\ Leaves(i)
    BY <1>6 DEF TakesStop
  <2>2. st' = st \/ st' = [st EXCEPT ![i] = "Stopping"]
    BY <1>6 DEF TakesStop, Life!AskToStop
  <2>3. st' \in [Actors -> States] /\ \A j \in Actors \ {i} : st'[j] = st[j]
    BY <1>1, <2>2 DEF States
  <2>4. phase[i] = "run" /\ Moves(i)
    BY <1>3, <2>1 DEF Moves
  <2> QED
    BY <1>1, <1>3, <2>1, <2>3, <2>4 DEF Leaves
<1>7. CASE TakesShutdown(i)
  <2>1. Takes(i, "Shutdown") /\ UNCHANGED st /\ Leaves(i)
    BY <1>7 DEF TakesShutdown
  <2>2. phase' = [phase EXCEPT ![i] = "cleanup"] \/ phase' = [phase EXCEPT ![i] = "gone"]
    BY <1>7 DEF TakesShutdown
  <2> QED
    BY <1>1, <1>3, <2>1, <2>2 DEF Leaves, Moves, Phases
<1>8. CASE Reacts(i)
  <2>1. UNCHANGED <<phase, mailbox>> /\ Leaves(i)
    BY <1>8 DEF Reacts
  <2>2. phase[i] = "run" /\ st' = [st EXCEPT ![i] = "Inactive"]
    BY <1>8 DEF Reacts, Life!Stopped
  <2> QED
    BY <1>1, <2>1, <2>2 DEF Leaves, Moves, States
<1>9. CASE CleanupEnds(i)
  BY <1>1, <1>9 DEF CleanupEnds, Leaves, Moves, Phases
<1>10. CASE ProcessExits(i)
  BY <1>1, <1>10 DEF ProcessExits, Life!Exit, overlordVars, Moves
<1> QED
  BY <1>4, <1>5, <1>6, <1>7, <1>8, <1>9, <1>10 DEF ActorStep

\* Steps that change neither the table nor the plan, the boot or the load, and of
\* the actors only i.
LEMMA TabledKept ==
  ASSUME ReplanTypeOK, Tabled, NEW i \in Actors,
         UNCHANGED <<booted, reading, plan, table, configOf, changed>>,
         \A j \in Actors \ {i} :
           phase'[j] = phase[j] /\ mailbox'[j] = mailbox[j] /\ st'[j] = st[j],
         phase[i] = "unborn" =>
           phase'[i] = "unborn" /\ mailbox'[i] = mailbox[i] /\ st'[i] = st[i],
         phase[i] # "unborn" => phase'[i] # "unborn",
         phase'[i] = "run" => phase[i] = "run" /\ MailOK(mailbox'[i], Named(i)),
         \A n \in Names : table[n] = i => phase'[i] = "run"
  PROVE  Tabled'
<1>1. \A j \in Actors : Named(j)' = Named(j)
  BY DEF Named
<1>2. \A j \in Actors : phase'[j] = "unborn" => mailbox'[j] = <<>> /\ st'[j] = "Inactive"
  BY DEF Tabled
<1>3. \A j \in Actors : phase'[j] # "unborn" => configOf'[j][1] \in Names
  BY DEF Tabled
<1>4. \A j \in Actors : phase'[j] = "run" => MailOK(mailbox'[j], Named(j)')
  BY <1>1 DEF Tabled
<1>5. \A n \in Names : table'[n] # NoActor =>
        phase'[table'[n]] = "run" /\ configOf'[table'[n]][1] = n
  <2> SUFFICES ASSUME NEW n \in Names, table[n] # NoActor
               PROVE  phase'[table[n]] = "run" /\ configOf[table[n]][1] = n
    OBVIOUS
  <2>1. table[n] \in Actors /\ phase[table[n]] = "run" /\ configOf[table[n]][1] = n
    BY DEF Tabled, ReplanTypeOK
  <2> QED
    BY <2>1
<1>6. Planned' = Planned
  BY DEF Planned
<1>7. ConfigOfThePlan'
  BY <1>6 DEF Tabled, ConfigOfThePlan
<1> QED
  BY <1>2, <1>3, <1>4, <1>5, <1>6, <1>7 DEF Tabled

\* The actors keep the table as it should be.
LEMMA ActorTabled ==
  ASSUME ReplanTypeOK, Tabled, NEW i \in Actors, ActorStep(i) \/ ProcessExits(i)
  PROVE  Tabled'
<1>1. /\ UNCHANGED <<booted, reading, plan, table, configOf, changed>>
      /\ \A j \in Actors \ {i} :
           phase'[j] = phase[j] /\ mailbox'[j] = mailbox[j] /\ st'[j] = st[j]
      /\ Moves(i)
      /\ phase[i] = "unborn" => st'[i] = st[i] /\ phase'[i] = "unborn"
  BY ActorFacts
<1>2. /\ mailbox[i] \in Seq(Commands) /\ phase[i] \in Phases
      /\ phase[i] = "run" => MailOK(mailbox[i], Named(i))
  BY DEF ReplanTypeOK, Tabled
<1>3. Named(i) \in BOOLEAN
  BY DEF Named
<1>4. phase[i] = "unborn" => mailbox'[i] = mailbox[i]
  BY <1>1 DEF Moves
<1>5. phase[i] # "unborn" => phase'[i] # "unborn"
  BY <1>1 DEF Moves
<1>6. phase'[i] = "run" => phase[i] = "run" /\ MailOK(mailbox'[i], Named(i))
  BY <1>1, <1>2, <1>3, MailTaken DEF Moves
<1>7. ASSUME NEW n \in Names, table[n] = i PROVE phase'[i] = "run"
  <2>1. i # NoActor
    BY NamesAssumption
  <2>2. phase[i] = "run" /\ configOf[i][1] = n
    BY <1>7, <2>1 DEF Tabled
  <2>3. Named(i)
    BY <1>7, <2>2 DEF Named
  <2>4. mailbox[i] # <<>> => Head(mailbox[i]) # "Shutdown"
    BY <1>2, <1>3, <2>2, <2>3, MailTaken
  <2> QED
    BY <1>1, <2>2, <2>4 DEF Moves
<1> QED
  BY <1>1, <1>4, <1>5, <1>6, <1>7, TabledKept

-----------------------------------------------------------------------------
(* The plan is applied.                                                    *)

\* The commands to each name of a set are to names of that set.
LEMMA ScriptNames ==
  ASSUME NEW cmd \in {"Start", "Stop"}, NEW T \in SUBSET Names, NEW S \in SUBSET T,
         NEW commands \in ToEach(cmd, S)
  PROVE  commands \in Seq({"Start", "Stop"} \X T)
<1>1. IsFiniteSet(S)
  <2>1. S \subseteq Names
    OBVIOUS
  <2> QED
    BY <2>1, NamesAssumption, FS_Subset
<1>2. Cardinality(S) \in Nat
  BY <1>1, FS_CardinalityType
<1>3. PICK order \in SetToSeqs(S) : commands = [i \in DOMAIN order |-> <<cmd, order[i]>>]
  BY DEF ToEach
<1>4. order \in [1 .. Cardinality(S) -> S]
  BY DEF SetToSeqs
<1>5. commands \in [1 .. Cardinality(S) -> {"Start", "Stop"} \X T]
  BY <1>3, <1>4
<1> QED
  BY <1>2, <1>5, SeqDef

LEMMA ScriptTypes ==
  ASSUME NEW cmd \in {"Start", "Stop"}, NEW S \in SUBSET Names, NEW commands \in ToEach(cmd, S)
  PROVE  commands \in Seq({"Start", "Stop"} \X Names)
BY ScriptNames

\* What becomes of the table, the actors and the snapshots.
LEMMA ApplyFacts ==
  ASSUME ReplanTypeOK, Tabled, Apply
  PROVE  /\ UNCHANGED <<files, plan, events, st, changed>> /\ booted' = TRUE /\ reading' = Idle
         /\ table' \in [Names -> Actors \cup {NoActor}]
         /\ \A n \in Planned : table[n] = NoActor =>
              /\ table'[n] \in Actors /\ phase[table'[n]] = "unborn" /\ phase'[table'[n]] = "run"
              /\ configOf'[table'[n]] = <<n, plan.merged.services[n]>>
              /\ snap'[n] = "Inactive"
         /\ \A n \in Planned : table[n] # NoActor => table'[n] = table[n] /\ snap'[n] = snap[n]
         /\ \A n \in Names \ Planned : table'[n] = NoActor
         /\ phase' \in [Actors -> Phases]
         /\ \A i \in Actors : phase[i] = "unborn" =>
              \/ phase'[i] = "unborn"
              \/ phase'[i] = "run" /\ \E n \in Planned : table[n] = NoActor /\ table'[n] = i
         /\ \A i \in Actors : phase[i] # "unborn" =>
              phase'[i] = phase[i] /\ configOf'[i] = configOf[i]
         /\ mailbox' = [i \in Actors |->
                          IF \E n \in Names \ Planned : table[n] = i
                            THEN Append(mailbox[i], "Shutdown") ELSE mailbox[i]]
         /\ snap' \in [Names -> States] /\ pending' \subseteq Names
         /\ script' \in Seq({"Start", "Stop"} \X Names)
         /\ \A n \in Planned : table[n] # NoActor /\ n \in mixed => n \in mixed'
<1> DEFINE new == {n \in Planned : table[n] = NoActor}
           f == Fresh(new)
           enabled == {n \in Planned : plan.merged.services[n].startup = "enabled"}
           ready(tb, sn) == {n \in enabled : after_deps_running(tb, sn, n)}
<1>1. /\ ExistsInjection(new, Unborn)
      /\ table' = [n \in Names |-> CASE n \in new -> f[n]
                                     [] n \in Removed -> NoActor
                                     [] OTHER -> table[n]]
      /\ snap' = Snapshots(new, Removed)
      /\ pending' = enabled \ ready(table', snap')
      /\ script' \in ToEach("Start", ready(table', snap'))
      /\ phase' = [i \in Actors |-> IF i \in Range(f) THEN "run" ELSE phase[i]]
      /\ configOf' = [i \in Actors |->
                        IF i \in Range(f)
                          THEN <<AntiFunction(f)[i], plan.merged.services[AntiFunction(f)[i]]>>
                          ELSE configOf[i]]
      /\ mailbox' = [i \in Actors |-> IF i \in Told(Removed) THEN Append(mailbox[i], "Shutdown")
                                                             ELSE mailbox[i]]
      /\ mixed' = mixed \ (new \cup Removed)
      /\ UNCHANGED <<files, plan, events, st, changed>> /\ booted' = TRUE /\ reading' = Idle
  BY DEF Apply
<1>2. f \in Injection(new, Unborn)
  BY <1>1 DEF Fresh, ExistsInjection
<1>3. /\ f \in [new -> Unborn] /\ DOMAIN f = new
      /\ \A m, n \in new : f[m] = f[n] => m = n
  BY <1>2 DEF Injection, IsInjective
<1>4. Range(f) = {f[n] : n \in new}
  BY <1>3 DEF Range
<1>5. \A n \in new : AntiFunction(f)[f[n]] = n
  BY <1>3, <1>4 DEF AntiFunction, Inverse
<1>6. /\ Planned \subseteq Names /\ table \in [Names -> Actors \cup {NoActor}]
      /\ snap \in [Names -> States] /\ phase \in [Actors -> Phases] /\ NoActor \notin Actors
  BY NamesAssumption DEF ReplanTypeOK
<1>7. new \subseteq Planned /\ \A n \in new : f[n] \in Actors /\ phase[f[n]] = "unborn"
  BY <1>3 DEF Unborn
<1>8. /\ \A n \in Planned : n \in new <=> table[n] = NoActor
      /\ \A n \in Names : n \in Removed <=> n \notin Planned /\ table[n] # NoActor
  BY <1>6 DEF Removed
<1>9. Told(Removed) = {table[n] : n \in Removed} /\ Removed \subseteq Names
  BY DEF Told, Removed
<1>10. /\ ready(table', snap') \in SUBSET Names /\ enabled \subseteq Names
  BY <1>6
<1> HIDE DEF f, new, ready, enabled
<1>11. script' \in Seq({"Start", "Stop"} \X Names) /\ pending' \subseteq Names
  BY <1>1, <1>10, ScriptTypes
<1>12. /\ \A n \in Planned : table[n] = NoActor => table'[n] = f[n]
       /\ \A n \in Planned : table[n] # NoActor => table'[n] = table[n]
       /\ \A n \in Names \ Planned : table'[n] = NoActor
       /\ table' \in [Names -> Actors \cup {NoActor}]
  BY <1>1, <1>6, <1>7, <1>8
<1>13. /\ snap' \in [Names -> States]
       /\ \A n \in Planned : table[n] = NoActor => snap'[n] = "Inactive"
       /\ \A n \in Planned : table[n] # NoActor => snap'[n] = snap[n]
  BY <1>1, <1>6, <1>8 DEF Snapshots, States
<1>14. /\ phase' \in [Actors -> Phases]
       /\ \A n \in new : phase'[f[n]] = "run"
       /\ \A i \in Actors : phase[i] # "unborn" => phase'[i] = phase[i] /\ configOf'[i] = configOf[i]
  BY <1>1, <1>4, <1>6, <1>7 DEF Phases
<1>15. ASSUME NEW i \in Actors, phase[i] = "unborn"
       PROVE  \/ phase'[i] = "unborn"
              \/ phase'[i] = "run" /\ \E n \in Planned : table[n] = NoActor /\ table'[n] = i
  <2>1. CASE i \in Range(f)
    <3>1. PICK n \in new : f[n] = i
      BY <1>4, <2>1
    <3>2. n \in Planned /\ table[n] = NoActor /\ table'[n] = i
      BY <1>7, <1>8, <1>12, <3>1
    <3> QED
      BY <1>14, <3>1, <3>2
  <2>2. CASE i \notin Range(f)
    BY <1>1, <1>15, <2>2
  <2> QED
    BY <2>1, <2>2
<1>16. \A n \in new : configOf'[f[n]] = <<n, plan.merged.services[n]>>
  <2> SUFFICES ASSUME NEW n \in new PROVE configOf'[f[n]] = <<n, plan.merged.services[n]>>
    OBVIOUS
  <2>1. f[n] \in Range(f) /\ f[n] \in Actors /\ AntiFunction(f)[f[n]] = n
    BY <1>4, <1>5, <1>7
  <2> QED
    BY <1>1, <2>1
<1>17. mailbox' = [i \in Actors |->
                     IF \E n \in Names \ Planned : table[n] = i
                       THEN Append(mailbox[i], "Shutdown") ELSE mailbox[i]]
  <2>1. \A i \in Actors : i \in Told(Removed) <=> \E n \in Names \ Planned : table[n] = i
    BY <1>6, <1>8, <1>9
  <2> QED
    BY <1>1, <2>1
<1>18. \A n \in Planned : table[n] # NoActor /\ n \in mixed => n \in mixed'
  BY <1>1, <1>6, <1>8
<1>19. ASSUME NEW n \in Planned, table[n] = NoActor
       PROVE  /\ table'[n] \in Actors /\ phase[table'[n]] = "unborn" /\ phase'[table'[n]] = "run"
              /\ configOf'[table'[n]] = <<n, plan.merged.services[n]>>
              /\ snap'[n] = "Inactive"
  <2>1. n \in new /\ table'[n] = f[n]
    BY <1>8, <1>12, <1>19
  <2> QED
    BY <1>7, <1>13, <1>14, <1>16, <1>19, <2>1
<1>20. /\ UNCHANGED <<files, plan, events, st, changed>> /\ booted' = TRUE /\ reading' = Idle
  BY <1>1
<1> QED
  BY <1>11, <1>12, <1>13, <1>14, <1>15, <1>17, <1>18, <1>19, <1>20

LEMMA IdleType ==
  /\ Idle \in [busy : BOOLEAN, todo : Seq(Range(Files)), got : Seq(Contents), merged : BOOLEAN]
  /\ Len(Idle.todo) + Len(Idle.got) <= Len(Files)
  /\ ~ Idle.busy /\ ~ Idle.merged
<1>1. Len(Files) \in Nat
  BY FilesAssumption, LenProperties
<1>2. <<>> \in Seq(Range(Files)) /\ <<>> \in Seq(Contents) /\ Len(<<>>) = 0
  BY EmptySeq
<1> QED
  BY <1>1, <1>2 DEF Idle

LEMMA ApplyTypes ==
  ASSUME ReplanTypeOK, Tabled, Apply
  PROVE  ReplanTypeOK'
<1>1. /\ UNCHANGED <<files, plan, events, st>> /\ booted' = TRUE /\ reading' = Idle
      /\ table' \in [Names -> Actors \cup {NoActor}] /\ phase' \in [Actors -> Phases]
      /\ snap' \in [Names -> States] /\ pending' \subseteq Names
      /\ script' \in Seq({"Start", "Stop"} \X Names)
      /\ mailbox' = [i \in Actors |->
                       IF \E n \in Names \ Planned : table[n] = i
                         THEN Append(mailbox[i], "Shutdown") ELSE mailbox[i]]
  BY ApplyFacts
<1>2. \A i \in Actors : /\ mailbox[i] \in Seq(Commands)
                        /\ Append(mailbox[i], "Shutdown") \in Seq(Commands)
  BY MailSent DEF ReplanTypeOK, Commands
<1>3. mailbox' \in [Actors -> Seq(Commands)]
  BY <1>1, <1>2
<1>4. Planned' = Planned
  BY <1>1 DEF Planned
<1> QED
  BY <1>1, <1>3, <1>4, IdleType DEF ReplanTypeOK

LEMMA ApplyTabled ==
  ASSUME ReplanTypeOK, Tabled, Apply
  PROVE  Tabled'
<1>1. /\ UNCHANGED <<plan, st, changed>> /\ booted' = TRUE /\ reading' = Idle
      /\ \A n \in Planned : table[n] = NoActor =>
           /\ table'[n] \in Actors /\ phase[table'[n]] = "unborn" /\ phase'[table'[n]] = "run"
           /\ configOf'[table'[n]] = <<n, plan.merged.services[n]>>
      /\ \A n \in Planned : table[n] # NoActor => table'[n] = table[n]
      /\ \A n \in Names \ Planned : table'[n] = NoActor
  BY ApplyFacts
<1>2. /\ \A i \in Actors : phase[i] = "unborn" =>
           \/ phase'[i] = "unborn"
           \/ phase'[i] = "run" /\ \E n \in Planned : table[n] = NoActor /\ table'[n] = i
      /\ \A i \in Actors : phase[i] # "unborn" =>
           phase'[i] = phase[i] /\ configOf'[i] = configOf[i]
      /\ mailbox' = [i \in Actors |->
                       IF \E n \in Names \ Planned : table[n] = i
                         THEN Append(mailbox[i], "Shutdown") ELSE mailbox[i]]
  BY ApplyFacts
<1>3. /\ Planned \subseteq Names /\ Planned' = Planned /\ NoActor \notin Actors
      /\ table \in [Names -> Actors \cup {NoActor}] /\ phase \in [Actors -> Phases]
      /\ mailbox \in [Actors -> Seq(Commands)]
  BY <1>1, NamesAssumption DEF ReplanTypeOK, Planned
<1>4. \A n \in Names : table[n] # NoActor =>
        table[n] \in Actors /\ phase[table[n]] = "run" /\ configOf[table[n]][1] = n
  BY <1>3 DEF Tabled
<1>5. /\ \A i \in Actors : phase[i] = "unborn" => mailbox[i] = <<>> /\ st[i] = "Inactive"
      /\ \A i \in Actors : phase[i] # "unborn" => configOf[i][1] \in Names
      /\ \A i \in Actors : phase[i] = "run" => MailOK(mailbox[i], Named(i))
  BY DEF Tabled
<1>6. \A n \in Names : table'[n] # NoActor =>
        phase'[table'[n]] = "run" /\ configOf'[table'[n]][1] = n
  <2> SUFFICES ASSUME NEW n \in Names, table'[n] # NoActor
               PROVE  phase'[table'[n]] = "run" /\ configOf'[table'[n]][1] = n
    OBVIOUS
  <2>1. n \in Planned
    BY <1>1
  <2>2. CASE table[n] = NoActor
    BY <1>1, <2>1, <2>2
  <2>3. CASE table[n] # NoActor
    <3>1. /\ table[n] \in Actors /\ phase[table[n]] = "run" /\ configOf[table[n]][1] = n
          /\ table'[n] = table[n]
      BY <1>1, <1>4, <2>1, <2>3
    <3>2. phase'[table[n]] = phase[table[n]] /\ configOf'[table[n]] = configOf[table[n]]
      BY <1>2, <3>1
    <3> QED
      BY <3>1, <3>2
  <2> QED
    BY <2>2, <2>3
<1>7. \A i \in Actors : phase[i] = "unborn" => mailbox'[i] = <<>>
  <2> SUFFICES ASSUME NEW i \in Actors, phase[i] = "unborn" PROVE mailbox'[i] = <<>>
    OBVIOUS
  <2>1. \A n \in Names : table[n] # i
    BY <1>3, <1>4
  <2> QED
    BY <1>2, <1>5, <2>1
<1>8. \A i \in Actors : phase'[i] = "unborn" => mailbox'[i] = <<>> /\ st'[i] = "Inactive"
  BY <1>1, <1>2, <1>5, <1>7
<1>9. \A i \in Actors : phase'[i] # "unborn" => configOf'[i][1] \in Names
  <2> SUFFICES ASSUME NEW i \in Actors, phase'[i] # "unborn" PROVE configOf'[i][1] \in Names
    OBVIOUS
  <2>1. CASE phase[i] = "unborn"
    <3>1. PICK n \in Planned : table[n] = NoActor /\ table'[n] = i
      BY <1>2, <2>1
    <3>2. configOf'[i] = <<n, plan.merged.services[n]>> /\ n \in Names
      BY <1>1, <1>3, <3>1
    <3> QED
      BY <3>2
  <2>2. CASE phase[i] # "unborn"
    BY <1>2, <1>5, <2>2
  <2> QED
    BY <2>1, <2>2
<1>10. ASSUME NEW i \in Actors, phase'[i] = "run" PROVE MailOK(mailbox'[i], Named(i)')
  <2>1. CASE phase[i] = "unborn"
    <3>1. PICK n \in Planned : table[n] = NoActor /\ table'[n] = i
      BY <1>2, <1>10, <2>1
    <3>2. configOf'[i][1] = n
      BY <1>1, <3>1
    <3>3. Named(i)' = TRUE
      BY <3>1, <3>2 DEF Named
    <3> QED
      BY <1>7, <2>1, <3>3, MailEmpty
  <2>2. CASE phase[i] # "unborn"
    <3>1. /\ phase[i] = "run" /\ MailOK(mailbox[i], Named(i)) /\ configOf'[i] = configOf[i]
          /\ configOf[i][1] \in Names /\ mailbox[i] \in Seq(Commands)
      BY <1>2, <1>3, <1>5, <1>10, <2>2
    <3>2. CASE \E n \in Names \ Planned : table[n] = i
      <4>1. PICK n \in Names \ Planned : table[n] = i
        BY <3>2
      <4>2. i # NoActor /\ configOf[i][1] = n /\ table'[n] = NoActor
        BY <1>1, <1>3, <1>4, <4>1
      <4>3. Named(i)' = FALSE
        BY <3>1, <4>2 DEF Named
      <4>4. mailbox'[i] = Append(mailbox[i], "Shutdown")
        BY <1>2, <3>2
      <4> QED
        BY <3>1, <4>3, <4>4, MailSent DEF Commands
    <3>3. CASE ~ \E n \in Names \ Planned : table[n] = i
      <4>1. mailbox'[i] = mailbox[i]
        BY <1>2, <3>3
      <4>2. ASSUME NEW n \in Names PROVE table'[n] = i <=> table[n] = i
        BY <1>1, <1>3, <2>2, <3>3
      <4>3. Named(i)' = Named(i)
        BY <3>1, <4>2 DEF Named
      <4> QED
        BY <3>1, <4>1, <4>3
    <3> QED
      BY <3>2, <3>3
  <2> QED
    BY <2>1, <2>2
<1>11. {n \in Names : table'[n] # NoActor} = Planned
  BY <1>1, <1>3
<1>12. ConfigOfThePlan'
  <2> SUFFICES ASSUME NEW n \in Planned, table'[n] # NoActor
               PROVE  configOf'[table'[n]] = <<n, plan.merged.services[n]>> \/ n \in changed
    BY <1>1, <1>3 DEF ConfigOfThePlan
  <2>1. CASE table[n] = NoActor
    BY <1>1, <2>1
  <2>2. CASE table[n] # NoActor
    <3>1. table'[n] = table[n] /\ configOf'[table[n]] = configOf[table[n]]
      BY <1>1, <1>2, <1>3, <1>4, <2>2
    <3> QED
      BY <2>2, <3>1 DEF Tabled, ConfigOfThePlan
  <2> QED
    BY <2>1, <2>2
<1>13. ~ reading'.busy /\ ~ reading'.merged
  BY <1>1, IdleType
<1> QED
  BY <1>1, <1>3, <1>6, <1>8, <1>9, <1>10, <1>11, <1>12, <1>13 DEF Tabled

-----------------------------------------------------------------------------
(* Layer files and the load.                                               *)

LEMMA ListedTypes ==
  ASSUME NEW directory \in Directories, NEW names \in Listed(directory)
  PROVE  /\ directory \in [Range(Files) -> Contents \cup {Missing}]
         /\ names \in Seq(Range(Files)) /\ Len(names) <= Len(Files)
         /\ [i \in DOMAIN names |-> directory[names[i]]] \in Seq(Contents)
<1> DEFINE there == {f \in Range(Files) : directory[f] # Missing}
           N == Len(Files)
<1>1. directory \in [Range(Files) -> Contents \cup {Missing}] /\ N \in Nat
  BY NamesAssumption, FilesAssumption, LenProperties
<1>2. names \in BoundedSeq(there, N)
  BY DEF Listed
<1>3. \A f \in there : f \in Range(Files) /\ directory[f] \in Contents
  BY <1>1
<1> HIDE DEF N, there
<1>4. PICK m \in 0 .. N : names \in [1 .. m -> there]
  BY <1>2 DEF BoundedSeq, SeqOf
<1>5. m \in Nat /\ m <= N /\ DOMAIN names = 1 .. m
  BY <1>1, <1>4
<1>6. names \in [1 .. m -> Range(Files)]
  BY <1>3, <1>4
<1>7. names \in Seq(Range(Files))
  BY <1>5, <1>6, SeqDef
<1>8. Len(names) = m
  BY <1>5, <1>7, LenProperties
<1>9. [i \in DOMAIN names |-> directory[names[i]]] \in [1 .. m -> Contents]
  BY <1>3, <1>4, <1>5
<1>10. [i \in DOMAIN names |-> directory[names[i]]] \in Seq(Contents)
  BY <1>5, <1>9, SeqDef
<1> QED
  BY <1>1, <1>5, <1>7, <1>8, <1>10 DEF N

\* What a step of the load may change.
LEMMA LoadTabled ==
  ASSUME ReplanTypeOK, Tabled,
         UNCHANGED <<booted, plan, table, st, phase, mailbox, configOf, changed>>,
         reading'.busy \in BOOLEAN, reading'.busy => booted, reading'.merged = reading.merged,
         reading'.merged => reading'.busy /\ reading'.todo = <<>>
  PROVE  Tabled'
<1>1. Planned' = Planned /\ \A j \in Actors : Named(j)' = Named(j)
  BY DEF Planned, Named
<1>2. ConfigOfThePlan'
  BY <1>1 DEF Tabled, ConfigOfThePlan
<1> QED
  BY <1>1, <1>2 DEF Tabled

LEMMA EditKeeps ==
  ASSUME ReplanTypeOK, Tabled, NEW f \in Range(Files),
         NEW content \in Contents \cup {Missing, Broken}, Edit(f, content)
  PROVE  ReplanTypeOK' /\ Tabled'
<1>1. /\ files' = [files EXCEPT ![f] = content]
      /\ UNCHANGED <<booted, reading, plan, table, snap, pending, script, events, st, phase,
                     mailbox, configOf, changed>>
  BY DEF Edit, overlordVars, actorVars
<1>2. files' \in [Range(Files) -> Contents \cup {Missing, Broken}]
  BY <1>1 DEF ReplanTypeOK
<1>3. Planned' = Planned
  BY <1>1 DEF Planned
<1>4. ReplanTypeOK'
  BY <1>1, <1>2, <1>3 DEF ReplanTypeOK
<1>5. Tabled'
  <2>1. /\ reading'.busy \in BOOLEAN /\ (reading'.busy => booted)
        /\ reading'.merged = reading.merged
        /\ (reading'.merged => reading'.busy /\ reading'.todo = <<>>)
    BY <1>1 DEF ReplanTypeOK, Tabled
  <2> QED
    BY <1>1, <2>1, LoadTabled
<1> QED
  BY <1>4, <1>5

LEMMA ReloadBeginsKeeps ==
  ASSUME ReplanTypeOK, Tabled, NEW directory \in Directories, ReloadBegins(directory)
  PROVE  ReplanTypeOK' /\ Tabled'
<1>1. PICK names \in Listed(directory) :
        reading' = [busy |-> TRUE, todo |-> names, got |-> <<>>, merged |-> FALSE]
  BY DEF ReloadBegins
<1>2. /\ booted /\ ~ reading.busy /\ files' = directory
      /\ UNCHANGED <<booted, plan, table, snap, pending, script, events, st, phase, mailbox,
                     configOf, changed>>
  BY DEF ReloadBegins, AtSelect, overlordVars, actorVars
<1>3. /\ files' \in [Range(Files) -> Contents \cup {Missing, Broken}]
      /\ names \in Seq(Range(Files)) /\ Len(names) <= Len(Files)
  BY <1>2, ListedTypes
<1>4. <<>> \in Seq(Contents) /\ Len(<<>>) = 0 /\ Len(names) \in Nat
  BY <1>3, EmptySeq, LenProperties
<1>5. /\ reading' \in [busy : BOOLEAN, todo : Seq(Range(Files)), got : Seq(Contents),
                       merged : BOOLEAN]
      /\ Len(reading'.todo) + Len(reading'.got) <= Len(Files)
  <2>1. Len(names) + 0 <= Len(Files)
    BY <1>3, <1>4
  <2> QED
    BY <1>1, <1>3, <1>4, <2>1
<1>6. Planned' = Planned
  BY <1>2 DEF Planned
<1>7. ReplanTypeOK'
  BY <1>2, <1>3, <1>5, <1>6 DEF ReplanTypeOK
<1>8. Tabled'
  <2>1. /\ reading'.busy \in BOOLEAN /\ (reading'.busy => booted) /\ ~ reading'.merged
        /\ reading'.merged = FALSE
    BY <1>1, <1>2
  <2>2. reading.merged = FALSE
    BY <1>2 DEF Tabled, ReplanTypeOK
  <2> QED
    BY <1>2, <2>1, <2>2, LoadTabled
<1> QED
  BY <1>7, <1>8

LEMMA ReadsLayerKeeps ==
  ASSUME ReplanTypeOK, Tabled, ReadsLayer
  PROVE  ReplanTypeOK' /\ Tabled'
<1> DEFINE todo == reading.todo
           got == reading.got
           c == files[Head(todo)]
<1>1. /\ todo # <<>> /\ c \notin {Missing, Broken}
      /\ reading' = [reading EXCEPT !.todo = Tail(todo), !.got = Append(got, c)]
      /\ UNCHANGED <<files, booted, plan, table, snap, pending, script, events, st, phase, mailbox,
                     configOf, changed>>
  BY DEF ReadsLayer, overlordVars, actorVars
<1>2. /\ reading \in [busy : BOOLEAN, todo : Seq(Range(Files)), got : Seq(Contents),
                      merged : BOOLEAN]
      /\ todo \in Seq(Range(Files)) /\ got \in Seq(Contents) /\ Len(todo) + Len(got) <= Len(Files)
      /\ files \in [Range(Files) -> Contents \cup {Missing, Broken}]
      /\ Len(Files) \in Nat
  BY FilesAssumption, LenProperties DEF ReplanTypeOK
<1>3. /\ Head(todo) \in Range(Files) /\ Tail(todo) \in Seq(Range(Files))
      /\ Len(Tail(todo)) = Len(todo) - 1
  BY <1>1, <1>2, HeadTailProperties
<1>4. c \in Contents
  BY <1>1, <1>2, <1>3
<1>5. /\ Append(got, c) \in Seq(Contents) /\ Len(Append(got, c)) = Len(got) + 1
      /\ Len(todo) \in Nat /\ Len(got) \in Nat
  BY <1>2, <1>4, AppendProperties, LenProperties
<1> HIDE DEF todo, got, c
<1>6. /\ reading' \in [busy : BOOLEAN, todo : Seq(Range(Files)), got : Seq(Contents),
                       merged : BOOLEAN]
      /\ reading'.todo = Tail(todo) /\ reading'.got = Append(got, c)
      /\ reading'.busy = reading.busy /\ reading'.merged = reading.merged
  BY <1>1, <1>2, <1>3, <1>5
<1>7. Len(reading'.todo) + Len(reading'.got) <= Len(Files)
  BY <1>2, <1>3, <1>5, <1>6
<1>8. Planned' = Planned
  BY <1>1 DEF Planned
<1>9. ReplanTypeOK'
  BY <1>1, <1>6, <1>7, <1>8 DEF ReplanTypeOK
<1>10. Tabled'
  <2>1. ~ reading.merged /\ (reading.busy => booted)
    BY <1>1 DEF Tabled, todo
  <2> QED
    BY <1>1, <1>2, <1>6, <2>1, LoadTabled
<1> QED
  BY <1>9, <1>10

LEMMA LoadFailsKeeps ==
  ASSUME ReplanTypeOK, Tabled, LoadFails
  PROVE  ReplanTypeOK' /\ Tabled'
<1>1. /\ reading.todo # <<>> /\ reading' = Idle
      /\ UNCHANGED <<files, booted, plan, table, snap, pending, script, events, st, phase, mailbox,
                     configOf, changed>>
  BY DEF LoadFails, overlordVars, actorVars
<1>2. Planned' = Planned
  BY <1>1 DEF Planned
<1>3. ReplanTypeOK'
  BY <1>1, <1>2, IdleType DEF ReplanTypeOK
<1>4. reading.merged = FALSE /\ reading'.merged = FALSE /\ reading'.busy = FALSE
  BY <1>1 DEF Tabled, ReplanTypeOK, Idle
<1>5. Tabled'
  BY <1>1, <1>4, LoadTabled
<1> QED
  BY <1>3, <1>5

LEMMA ReloadMergesKeeps ==
  ASSUME ReplanTypeOK, Tabled, ReloadMerges
  PROVE  ReplanTypeOK' /\ Tabled'
<1>1. /\ reading.busy /\ reading.todo = <<>> /\ ~ reading.merged
      /\ plan' = Plan(reading.got) /\ reading' = [reading EXCEPT !.merged = TRUE]
      /\ changed' = {n \in Planned \cap DOMAIN plan'.merged.services :
                       n \in changed \/ plan.merged.services[n] # plan'.merged.services[n]}
      /\ UNCHANGED <<files, booted, table, snap, pending, script, events, st, phase, mailbox,
                     configOf>>
  BY DEF ReloadMerges, actorVars
<1>2. /\ reading \in [busy : BOOLEAN, todo : Seq(Range(Files)), got : Seq(Contents),
                      merged : BOOLEAN]
      /\ Len(reading.todo) + Len(reading.got) <= Len(Files)
  BY DEF ReplanTypeOK
<1>3. /\ reading' \in [busy : BOOLEAN, todo : Seq(Range(Files)), got : Seq(Contents),
                       merged : BOOLEAN]
      /\ reading'.todo = reading.todo /\ reading'.got = reading.got
      /\ reading'.merged = TRUE /\ reading'.busy = reading.busy
  BY <1>1, <1>2
<1>4. reading.got \in Seq(Contents)
  BY <1>2
<1>5. WholePlan(plan') /\ Planned' \subseteq Names
  BY <1>1, <1>4, PlanOfLayers DEF Planned
<1>6. ReplanTypeOK'
  BY <1>1, <1>2, <1>3, <1>5 DEF ReplanTypeOK
<1>7. {n \in Names : table[n] # NoActor} = Planned
  BY <1>1 DEF Tabled
<1>8. ConfigOfThePlan'
  <2> SUFFICES ASSUME NEW n \in Planned', table'[n] # NoActor
               PROVE  \/ configOf'[table'[n]] = <<n, plan'.merged.services[n]>>
                      \/ n \in changed'
    BY DEF ConfigOfThePlan
  <2>1. n \in Planned /\ table[n] # NoActor
    BY <1>1, <1>5, <1>7
  <2>2. configOf[table[n]] = <<n, plan.merged.services[n]>> \/ n \in changed
    BY <2>1 DEF Tabled, ConfigOfThePlan
  <2>3. n \in Planned \cap DOMAIN plan'.merged.services
    BY <2>1 DEF Planned
  <2> QED
    BY <1>1, <2>2, <2>3
<1>9. \A j \in Actors : Named(j)' = Named(j)
  BY <1>1 DEF Named
<1>10. Tabled'
  BY <1>1, <1>3, <1>8, <1>9 DEF Tabled
<1> QED
  BY <1>6, <1>10

\* What an autostart makes of the plan.
LEMMA AutostartFacts ==
  ASSUME ReplanTypeOK, NEW n \in Planned, AutostartRequest(n)
  PROVE  /\ plan'.layers = plan.layers /\ plan'.autostarted = plan.autostarted \cup {n}
         /\ plan'.merged.services = Enabled(plan.merged.services, n)
         /\ plan'.merged.checks = plan.merged.checks /\ plan'.merged.alerts = plan.merged.alerts
         /\ plan'.merged.queueDepth = plan.merged.queueDepth
         /\ WholePlan(plan') /\ Planned' = Planned
         /\ changed \subseteq changed'
         /\ plan'.merged.services # plan.merged.services => n \in changed'
         /\ booted /\ ~ reading.busy /\ waiting = NoActor /\ script' = <<<<"Start", n>>>>
         /\ UNCHANGED <<files, booted, reading, table, snap, pending, waiting, events, actorVars, mixed>>
<1>1. /\ plan' = [plan EXCEPT !.merged.services = Enabled(@, n), !.autostarted = @ \cup {n}]
      /\ changed' = IF plan'.merged = plan.merged THEN changed ELSE changed \cup {n}
  BY DEF AutostartRequest
<1>2. WholePlan(plan)
  BY DEF ReplanTypeOK
<1>3. /\ plan'.layers = plan.layers /\ plan'.autostarted = plan.autostarted \cup {n}
      /\ plan'.merged = [plan.merged EXCEPT !.services = Enabled(plan.merged.services, n)]
      /\ DOMAIN plan' = DOMAIN plan
  BY <1>1, <1>2 DEF WholePlan
<1>4. /\ plan'.merged.services = Enabled(plan.merged.services, n)
      /\ plan'.merged.checks = plan.merged.checks /\ plan'.merged.alerts = plan.merged.alerts
      /\ plan'.merged.queueDepth = plan.merged.queueDepth
      /\ DOMAIN plan'.merged = DOMAIN plan.merged
  BY <1>2, <1>3 DEF WholePlan
<1>5. /\ DOMAIN plan'.merged.services = DOMAIN plan.merged.services
      /\ \A m \in DOMAIN plan.merged.services :
           DOMAIN plan'.merged.services[m] = DOMAIN plan.merged.services[m]
  BY <1>4 DEF Enabled
<1>6. WholePlan(plan')
  BY <1>2, <1>3, <1>4, <1>5 DEF WholePlan
<1> QED
  BY <1>1, <1>3, <1>4, <1>5, <1>6 DEF AutostartRequest, AtSelect, Planned

LEMMA AutostartKeeps ==
  ASSUME ReplanTypeOK, Tabled, NEW n \in Planned, AutostartRequest(n)
  PROVE  ReplanTypeOK' /\ Tabled'
<1>1. /\ plan'.merged.services = Enabled(plan.merged.services, n)
      /\ WholePlan(plan') /\ Planned' = Planned /\ changed \subseteq changed'
      /\ plan'.merged.services # plan.merged.services => n \in changed'
      /\ script' = <<<<"Start", n>>>>
      /\ UNCHANGED <<files, booted, reading, table, snap, pending, events, st, phase, mailbox, configOf>>
  BY AutostartFacts DEF actorVars
<1>2. script' \in Seq({"Start", "Stop"} \X Names)
  BY <1>1 DEF ReplanTypeOK
<1>3. ReplanTypeOK'
  BY <1>1, <1>2 DEF ReplanTypeOK
<1>4. ConfigOfThePlan'
  <2> SUFFICES ASSUME NEW m \in Planned, table[m] # NoActor
               PROVE  configOf[table[m]] = <<m, plan'.merged.services[m]>> \/ m \in changed'
    BY <1>1 DEF ConfigOfThePlan
  <2>1. configOf[table[m]] = <<m, plan.merged.services[m]>> \/ m \in changed
    BY DEF Tabled, ConfigOfThePlan
  <2>2. m # n => plan'.merged.services[m] = plan.merged.services[m]
    BY <1>1 DEF Enabled, Planned
  <2> QED
    BY <1>1, <2>1, <2>2
<1>5. \A j \in Actors : Named(j)' = Named(j)
  BY <1>1 DEF Named
<1>6. Tabled'
  BY <1>1, <1>4, <1>5 DEF Tabled
<1> QED
  BY <1>3, <1>6

-----------------------------------------------------------------------------
(* Commands and events.                                                    *)

LEMMA SendNextKeeps ==
  ASSUME ReplanTypeOK, Tabled, SendNext
  PROVE  ReplanTypeOK' /\ Tabled'
<1> DEFINE cmd == Head(script)[1]
           n == Head(script)[2]
<1>1. /\ script # <<>> /\ script' = Tail(script)
      /\ mailbox' = [mailbox EXCEPT ![table[n]] = Append(@, cmd)]
      /\ UNCHANGED <<files, booted, reading, plan, table, snap, pending, events, st, phase,
                     configOf, changed>>
  BY DEF SendNext
<1>2. script \in Seq({"Start", "Stop"} \X Names)
  BY DEF ReplanTypeOK
<1>3. Tail(script) \in Seq({"Start", "Stop"} \X Names) /\ Head(script) \in {"Start", "Stop"} \X Names
  BY <1>1, <1>2, HeadTailProperties
<1>4. cmd \in {"Start", "Stop"} /\ n \in Names
  BY <1>3
<1> HIDE DEF cmd, n
<1>5. /\ mailbox \in [Actors -> Seq(Commands)] /\ table[n] \in Actors \cup {NoActor}
      /\ cmd \in Commands /\ cmd # "Shutdown" /\ NoActor \notin Actors
  BY <1>4, NamesAssumption DEF ReplanTypeOK, Commands
<1>6. Planned' = Planned
  BY <1>1 DEF Planned
<1>7. CASE table[n] = NoActor
  <2>1. mailbox' = mailbox
    BY <1>1, <1>5, <1>7
  <2>2. ReplanTypeOK'
    BY <1>1, <1>3, <1>6, <2>1 DEF ReplanTypeOK
  <2>3. Tabled'
    <3>1. \A j \in Actors : Named(j)' = Named(j)
      BY <1>1 DEF Named
    <3>2. ConfigOfThePlan'
      BY <1>1, <1>6 DEF Tabled, ConfigOfThePlan
    <3> QED
      BY <1>1, <1>6, <2>1, <3>1, <3>2 DEF Tabled
  <2> QED
    BY <2>2, <2>3
<1>8. CASE table[n] # NoActor
  <2> DEFINE i == table[n]
  <2>1. i \in Actors /\ phase[i] = "run" /\ configOf[i][1] = n
    BY <1>4, <1>5, <1>8 DEF Tabled
  <2>2. Named(i) = TRUE
    BY <2>1 DEF Named
  <2>3. mailbox[i] \in Seq(Commands) /\ MailOK(mailbox[i], TRUE)
    <3>1. MailOK(mailbox[i], Named(i))
      BY <2>1 DEF Tabled
    <3> QED
      BY <1>5, <2>1, <2>2, <3>1
  <2>4. Append(mailbox[i], cmd) \in Seq(Commands) /\ MailOK(Append(mailbox[i], cmd), TRUE)
    BY <1>5, <2>3, MailSent
  <2>5. /\ mailbox' \in [Actors -> Seq(Commands)] /\ mailbox'[i] = Append(mailbox[i], cmd)
        /\ \A j \in Actors \ {i} : mailbox'[j] = mailbox[j]
    BY <1>1, <1>5, <2>1, <2>4
  <2>6. ReplanTypeOK'
    BY <1>1, <1>3, <1>6, <2>5 DEF ReplanTypeOK
  <2>7. MailOK(mailbox'[i], Named(i))
    BY <2>2, <2>4, <2>5
  <2>8. Tabled'
    <3> HIDE DEF i
    <3>1. phase'[i] = phase[i] /\ UNCHANGED <<booted, reading, plan, table, configOf, changed>>
          /\ st' = st /\ phase' = phase
      BY <1>1
    <3> QED
      BY <2>1, <2>5, <2>7, <3>1, TabledKept
  <2> QED
    BY <2>6, <2>8
<1> QED
  BY <1>7, <1>8

\* What the overlord makes of an event.
LEMMA EventFacts ==
  ASSUME ReplanTypeOK, Tabled, OnStateChanged, \A k \in DOMAIN events : phase[events[k].by] # "unborn"
  PROVE  \E event \in Event, n \in Names :
           /\ events # <<>> /\ event = Head(events) /\ events' = Tail(events)
           /\ n = configOf[event.by][1]
           /\ snap' = IF table[n] # NoActor THEN [snap EXCEPT ![n] = event.state] ELSE snap
           /\ mixed' = IF table[n] # NoActor /\ table[n] # event.by THEN mixed \cup {n} ELSE mixed
           /\ pending' \subseteq pending /\ script' \in Seq({"Start", "Stop"} \X Names)
           /\ UNCHANGED <<files, booted, reading, plan, table, st, phase, mailbox, configOf, changed>>
<1> DEFINE event == Head(events)
           n == configOf[event.by][1]
           sn == IF table[n] # NoActor THEN [snap EXCEPT ![n] = event.state] ELSE snap
           ready == {x \in pending : /\ is_running(event.state)
                                     /\ x \in Planned => after_deps_running(table, sn, x)}
           dependents == {x \in Planned : /\ event.state \in {"Inactive", "Error"}
                                          /\ n \in plan.merged.services[x].requires
                                          /\ table[x] # NoActor /\ is_running(sn[x])}
<1>1. /\ events # <<>> /\ events' = Tail(events) /\ snap' = sn /\ pending' = pending \ ready
      /\ mixed' = IF table[n] # NoActor /\ table[n] # event.by THEN mixed \cup {n} ELSE mixed
      /\ UNCHANGED <<files, booted, reading, plan, table, st, phase, mailbox, configOf, changed>>
  BY DEF OnStateChanged, actorVars
<1>2. PICK starts \in ToEach("Start", ready), stops \in ToEach("Stop", dependents) :
        script' = starts \o stops
  BY DEF OnStateChanged
<1>3. events \in Seq(Event) /\ pending \subseteq Names /\ Planned \subseteq Names
  BY SMTT(30) DEF ReplanTypeOK
<1>4. event \in Event /\ event = events[1] /\ 1 \in DOMAIN events
  <2>1. Len(events) \in Nat /\ Len(events) # 0 /\ DOMAIN events = 1 .. Len(events)
    BY <1>1, <1>3, LenProperties, EmptySeq
  <2> QED
    BY SMTT(30), <1>1, <1>3, <2>1, HeadTailProperties
<1>5. event.by \in Actors /\ n \in Names
  BY SMTT(30), <1>4 DEF Tabled, Event
<1>6. ready \in SUBSET Names /\ dependents \in SUBSET Names
  BY <1>3
<1> HIDE DEF ready, dependents
<1>7. starts \in Seq({"Start", "Stop"} \X Names) /\ stops \in Seq({"Start", "Stop"} \X Names)
  BY <1>6, ScriptTypes
<1>8. script' \in Seq({"Start", "Stop"} \X Names)
  BY <1>2, <1>7, ConcatProperties
<1>9. /\ events # <<>> /\ event = Head(events) /\ events' = Tail(events)
      /\ n = configOf[event.by][1]
      /\ snap' = IF table[n] # NoActor THEN [snap EXCEPT ![n] = event.state] ELSE snap
      /\ mixed' = IF table[n] # NoActor /\ table[n] # event.by THEN mixed \cup {n} ELSE mixed
      /\ pending' \subseteq pending /\ script' \in Seq({"Start", "Stop"} \X Names)
      /\ UNCHANGED <<files, booted, reading, plan, table, st, phase, mailbox, configOf, changed>>
  BY <1>1, <1>8
<1> HIDE DEF n, event
<1> QED
  BY <1>4, <1>5, <1>9

-----------------------------------------------------------------------------
(* The snapshots.                                                          *)

\* SnapshotOfTheActor, and an actor that is not there yet has sent nothing.
Seen ==
  /\ \A k \in DOMAIN events : phase[events[k].by] # "unborn"
  /\ \A n \in Names :
       table[n] # NoActor /\ n \notin mixed => Agrees(events, table[n], snap[n], st[table[n]])

\* Of a name, what the table and the phases say.
LEMMA NamedActor ==
  ASSUME ReplanTypeOK, Tabled, NEW n \in Names, table[n] # NoActor
  PROVE  table[n] \in Actors /\ phase[table[n]] = "run" /\ configOf[table[n]][1] = n
BY DEF ReplanTypeOK, Tabled

LEMMA EventKeeps ==
  ASSUME ReplanTypeOK, Tabled, Seen, OnStateChanged
  PROVE  ReplanTypeOK' /\ Tabled' /\ Seen'
<1>1. PICK event \in Event, n \in Names :
           /\ events # <<>> /\ event = Head(events) /\ events' = Tail(events)
           /\ n = configOf[event.by][1]
           /\ snap' = IF table[n] # NoActor THEN [snap EXCEPT ![n] = event.state] ELSE snap
           /\ mixed' = IF table[n] # NoActor /\ table[n] # event.by THEN mixed \cup {n} ELSE mixed
           /\ pending' \subseteq pending /\ script' \in Seq({"Start", "Stop"} \X Names)
           /\ UNCHANGED <<files, booted, reading, plan, table, st, phase, mailbox, configOf, changed>>
  BY EventFacts DEF Seen
<1>2. /\ events \in Seq(Event) /\ snap \in [Names -> States] /\ event.state \in States
      /\ Planned' = Planned
  BY <1>1 DEF ReplanTypeOK, Event, Planned
<1>3. /\ Tail(events) \in Seq(Event)
      /\ DOMAIN events = 1 .. Len(events) /\ Len(events) \in Nat /\ Len(events) # 0
      /\ Len(Tail(events)) = Len(events) - 1
      /\ \A k \in 1 .. Len(Tail(events)) : Tail(events)[k] = events[k + 1]
  BY <1>1, <1>2, HeadTailProperties, LenProperties, EmptySeq
<1>4. snap' \in [Names -> States]
  BY <1>1, <1>2
<1>5. ReplanTypeOK'
  BY <1>1, <1>2, <1>3, <1>4 DEF ReplanTypeOK
<1>6. Tabled'
  BY <1>1, LoadTabled DEF ReplanTypeOK, Tabled
<1>7. ASSUME NEW k \in DOMAIN events' PROVE phase'[events'[k].by] # "unborn"
  <2>1. k \in 1 .. Len(events) - 1
    BY <1>1, <1>3, LenProperties
  <2>2. k + 1 \in DOMAIN events /\ events'[k] = events[k + 1]
    BY <1>1, <1>3, <2>1
  <2> QED
    BY <1>1, <2>2 DEF Seen
<1>8. ASSUME NEW m \in Names, table[m] # NoActor, m \notin mixed'
      PROVE  Agrees(events', table[m], snap'[m], st[table[m]])
  <2> DEFINE i == table[m]
  <2>1. m \notin mixed /\ (n = m => event.by = i)
    BY <1>1, <1>8
  <2>2. i \in Actors /\ configOf[i][1] = m
    BY <1>8, NamedActor
  <2>3. Agrees(events, i, snap[m], st[i])
    BY <1>8, <2>1 DEF Seen
  <2> HIDE DEF i
  <2>4. Agrees(events', i, IF event.by = i THEN event.state ELSE snap[m], st[i])
    BY <1>1, <1>2, <2>2, <2>3, AgreesTaken
  <2>5. snap'[m] = IF event.by = i THEN event.state ELSE snap[m]
    <3>1. CASE event.by = i
      <4>1. n = m
        BY <1>1, <2>2, <3>1
      <4> QED
        BY <1>1, <1>2, <1>8, <3>1, <4>1
    <3>2. CASE event.by # i
      <4>1. n # m
        BY <2>1, <3>2
      <4> QED
        BY <1>1, <1>2, <3>2, <4>1
    <3> QED
      BY <3>1, <3>2
  <2>6. Agrees(events', i, snap'[m], st[i])
    BY <2>4, <2>5
  <2> QED
    BY <2>6 DEF i
<1>9. Seen'
  BY <1>1, <1>7, <1>8 DEF Seen
<1> QED
  BY <1>5, <1>6, <1>9

LEMMA ActorKeeps ==
  ASSUME ReplanTypeOK, Tabled, Seen, NEW i \in Actors, ActorStep(i) \/ ProcessExits(i)
  PROVE  ReplanTypeOK' /\ Tabled' /\ Seen'
<1> DEFINE e == [by |-> i, state |-> st'[i]]
<1>1. /\ UNCHANGED <<files, booted, reading, plan, table, snap, pending, script, configOf,
                     changed, mixed>>
      /\ st' \in [Actors -> States] /\ \A j \in Actors \ {i} : st'[j] = st[j]
      /\ phase' \in [Actors -> Phases] /\ \A j \in Actors \ {i} : phase'[j] = phase[j]
      /\ mailbox' \in [Actors -> Seq(Commands)]
      /\ events' = IF st'[i] # st[i] THEN Append(events, e) ELSE events
      /\ Moves(i)
      /\ phase[i] = "unborn" => st'[i] = st[i] /\ phase'[i] = "unborn"
  BY ActorFacts
<1>2. /\ events \in Seq(Event) /\ e \in Event /\ e.by = i /\ e.state = st'[i]
      /\ Planned' = Planned
  BY <1>1 DEF ReplanTypeOK, Event, Planned
<1> HIDE DEF e
<1>3. events' \in Seq(Event)
  BY <1>1, <1>2, AppendProperties
<1>4. ReplanTypeOK'
  BY <1>1, <1>2, <1>3 DEF ReplanTypeOK
<1>5. Tabled'
  BY ActorTabled
<1>6. \A j \in Actors : phase[j] # "unborn" => phase'[j] # "unborn"
  BY <1>1 DEF Moves
<1>7. \A k \in DOMAIN events : events[k].by \in Actors /\ phase[events[k].by] # "unborn"
  BY <1>2, EventAt DEF Seen
<1>8. ASSUME NEW k \in DOMAIN events' PROVE phase'[events'[k].by] # "unborn"
  <2>1. CASE st'[i] = st[i]
    BY <1>1, <1>6, <1>7, <1>8, <2>1
  <2>2. CASE st'[i] # st[i]
    <3> DEFINE m == Len(events)
    <3>1. /\ m \in Nat /\ DOMAIN events = 1 .. m /\ events' = Append(events, e)
          /\ Len(events') = m + 1 /\ DOMAIN events' = 1 .. Len(events')
          /\ events'[m + 1] = e /\ \A l \in 1 .. m : events'[l] = events[l]
      BY <1>1, <1>2, <1>3, <2>2, AppendProperties, LenProperties
    <3> HIDE DEF m
    <3>2. k \in 1 .. m + 1
      BY <3>1
    <3>3. k \in 1 .. m \/ k = m + 1
      BY <3>1, <3>2
    <3>4. phase'[i] # "unborn"
      BY <1>1, <1>6, <2>2
    <3> QED
      BY <1>2, <1>6, <1>7, <3>1, <3>3, <3>4
  <2> QED
    BY <2>1, <2>2
<1>9. ASSUME NEW n \in Names, table[n] # NoActor, n \notin mixed
      PROVE  Agrees(events', table[n], snap[n], st'[table[n]])
  <2> DEFINE j == table[n]
             s == snap[n]
  <2>1. j \in Actors /\ Agrees(events, j, s, st[j])
    BY <1>9, NamedActor DEF Seen
  <2> HIDE DEF j, s
  <2>2. CASE st'[i] = st[i]
    <3>1. st'[j] = st[j] /\ events' = events
      BY <1>1, <2>1, <2>2
    <3> QED
      BY <2>1, <3>1 DEF j, s
  <2>3. CASE st'[i] # st[i]
    <3>1. events' = Append(events, e)
      BY <1>1, <2>3
    <3>2. CASE j = i
      <4>1. Agrees(events', j, s, st'[j])
        BY <1>2, <2>1, <3>1, <3>2, AgreesSent
      <4> QED
        BY <4>1 DEF j, s
    <3>3. CASE j # i
      <4>1. st'[j] = st[j]
        BY <1>1, <2>1, <3>3
      <4>2. Agrees(events', j, s, st[j])
        BY <1>2, <2>1, <3>1, <3>3, AgreesSent
      <4> QED
        BY <4>1, <4>2 DEF j, s
    <3> QED
      BY <3>2, <3>3
  <2> QED
    BY <2>2, <2>3
<1>10. Seen'
  BY <1>1, <1>8, <1>9 DEF Seen
<1> QED
  BY <1>4, <1>5, <1>10

LEMMA ApplySeen ==
  ASSUME ReplanTypeOK, Tabled, Seen, Apply
  PROVE  Seen'
<1>1. /\ UNCHANGED <<events, st>>
      /\ \A n \in Planned : table[n] = NoActor =>
           /\ table'[n] \in Actors /\ phase[table'[n]] = "unborn" /\ snap'[n] = "Inactive"
      /\ \A n \in Planned : table[n] # NoActor => table'[n] = table[n] /\ snap'[n] = snap[n]
      /\ \A n \in Names \ Planned : table'[n] = NoActor
      /\ \A i \in Actors : phase[i] # "unborn" => phase'[i] = phase[i]
      /\ \A n \in Planned : table[n] # NoActor /\ n \in mixed => n \in mixed'
  BY ApplyFacts
<1>2. /\ events \in Seq(Event) /\ \A k \in DOMAIN events : phase[events[k].by] # "unborn"
      /\ \A i \in Actors : phase[i] = "unborn" => st[i] = "Inactive"
  BY DEF ReplanTypeOK, Tabled, Seen
<1>3. \A k \in DOMAIN events : events[k].by \in Actors
  BY <1>2, EventAt
<1>4. \A k \in DOMAIN events' : phase'[events'[k].by] # "unborn"
  BY <1>1, <1>2, <1>3
<1>5. ASSUME NEW n \in Names, table'[n] # NoActor, n \notin mixed'
      PROVE  Agrees(events', table'[n], snap'[n], st'[table'[n]])
  <2>1. n \in Planned
    BY <1>1, <1>5
  <2>2. CASE table[n] = NoActor
    <3> DEFINE i == table'[n]
    <3>1. i \in Actors /\ phase[i] = "unborn" /\ snap'[n] = "Inactive"
      BY <1>1, <2>1, <2>2
    <3>2. st[i] = "Inactive"
      BY <1>2, <3>1
    <3>3. {k \in DOMAIN events : events[k].by = i} = {}
      BY <1>2, <3>1
    <3> HIDE DEF i
    <3>4. Agrees(events, i, "Inactive", "Inactive")
      BY <3>3 DEF Agrees
    <3> QED
      BY <1>1, <3>1, <3>2, <3>4 DEF i
  <2>3. CASE table[n] # NoActor
    <3>1. table'[n] = table[n] /\ snap'[n] = snap[n] /\ n \notin mixed
      BY <1>1, <1>5, <2>1, <2>3
    <3>2. Agrees(events, table[n], snap[n], st[table[n]])
      BY <2>3, <3>1 DEF Seen
    <3> QED
      BY <1>1, <3>1, <3>2
  <2> QED
    BY <2>2, <2>3
<1> QED
  BY <1>4, <1>5 DEF Seen

-----------------------------------------------------------------------------
(* The specification.                                                      *)

ReplanInv == ReplanTypeOK /\ Tabled /\ Seen

LEMMA InitHolds == Init => ReplanInv
<1> SUFFICES ASSUME Init PROVE ReplanInv
  OBVIOUS
<1>1. /\ files \in Directories /\ booted = FALSE /\ reading = Idle
      /\ table = [n \in Names |-> NoActor] /\ snap = [n \in Names |-> "Inactive"]
      /\ pending = {} /\ script = <<>> /\ events = <<>>
      /\ st = [i \in Actors |-> "Inactive"] /\ phase = [i \in Actors |-> "unborn"]
      /\ mailbox = [i \in Actors |-> <<>>]
  BY DEF Init, Life!Init
<1>2. PICK names \in Listed(files) : plan = Plan([i \in DOMAIN names |-> files[names[i]]])
  BY DEF Init
<1>3. /\ files \in [Range(Files) -> Contents \cup {Missing}]
      /\ [i \in DOMAIN names |-> files[names[i]]] \in Seq(Contents)
  BY <1>1, ListedTypes
<1>4. WholePlan(plan) /\ Planned \subseteq Names
  BY <1>2, <1>3, PlanOfLayers DEF Planned
<1>5. \A S : <<>> \in Seq(S)
  BY EmptySeq
<1>6. ReplanTypeOK
  BY <1>1, <1>3, <1>4, <1>5, IdleType DEF ReplanTypeOK, States, Phases
<1>7. Tabled
  BY <1>1, <1>4, IdleType DEF Tabled, ConfigOfThePlan
<1>8. Seen
  <2>1. DOMAIN events = {}
    <3>1. events \in Seq(Event) /\ Len(events) = 0
      BY <1>1, <1>5, EmptySeq
    <3>2. DOMAIN events = 1 .. 0
      BY <3>1, LenProperties
    <3> QED
      BY <3>2
  <2> QED
    BY <1>1, <2>1 DEF Seen
<1> QED
  BY <1>6, <1>7, <1>8 DEF ReplanInv

LEMMA NextKeeps == ReplanInv /\ [Next]_vars => ReplanInv'
<1> SUFFICES ASSUME ReplanInv, [Next]_vars PROVE ReplanInv'
  OBVIOUS
<1>1. ReplanTypeOK /\ Tabled /\ Seen
  BY DEF ReplanInv
<1>2. ASSUME UNCHANGED <<events, phase, table, mixed, snap, st>> PROVE Seen'
  BY <1>1, <1>2 DEF Seen
<1>3. CASE \E f \in Range(Files), content \in Contents \cup {Missing, Broken} : Edit(f, content)
  <2>1. UNCHANGED <<events, phase, table, mixed, snap, st>>
    BY <1>3 DEF Edit, overlordVars, actorVars
  <2> QED
    BY <1>1, <1>2, <1>3, <2>1, EditKeeps DEF ReplanInv
<1>4. CASE \E directory \in Directories : ReloadBegins(directory)
  <2>1. UNCHANGED <<events, phase, table, mixed, snap, st>>
    BY <1>4 DEF ReloadBegins, overlordVars, actorVars
  <2> QED
    BY <1>1, <1>2, <1>4, <2>1, ReloadBeginsKeeps DEF ReplanInv
<1>13. CASE \E n \in Planned : AutostartRequest(n)
  <2>1. PICK n \in Planned : AutostartRequest(n)
    BY <1>13
  <2>2. UNCHANGED <<events, phase, table, mixed, snap, st>>
    BY <2>1 DEF AutostartRequest, actorVars
  <2> QED
    BY <1>1, <1>2, <2>1, <2>2, AutostartKeeps DEF ReplanInv
<1>5. CASE ReadsLayer
  <2>1. UNCHANGED <<events, phase, table, mixed, snap, st>>
    BY <1>5 DEF ReadsLayer, overlordVars, actorVars
  <2> QED
    BY <1>1, <1>2, <1>5, <2>1, ReadsLayerKeeps DEF ReplanInv
<1>6. CASE LoadFails
  <2>1. UNCHANGED <<events, phase, table, mixed, snap, st>>
    BY <1>6 DEF LoadFails, overlordVars, actorVars
  <2> QED
    BY <1>1, <1>2, <1>6, <2>1, LoadFailsKeeps DEF ReplanInv
<1>7. CASE ReloadMerges
  <2>1. UNCHANGED <<events, phase, table, mixed, snap, st>>
    BY <1>7 DEF ReloadMerges, actorVars
  <2> QED
    BY <1>1, <1>2, <1>7, <2>1, ReloadMergesKeeps DEF ReplanInv
<1>8. CASE Boot \/ ReloadApplies
  <2>1. Apply
    BY <1>8 DEF Boot, ReloadApplies
  <2> QED
    BY <1>1, <2>1, ApplyTypes, ApplyTabled, ApplySeen DEF ReplanInv
<1>9. CASE SendNext
  <2>1. UNCHANGED <<events, phase, table, mixed, snap, st>>
    BY <1>9 DEF SendNext
  <2> QED
    BY <1>1, <1>2, <1>9, <2>1, SendNextKeeps DEF ReplanInv
<1>10. CASE OnStateChanged
  BY <1>1, <1>10, EventKeeps DEF ReplanInv
<1>11. CASE \E i \in Actors : ActorStep(i) \/ ProcessExits(i)
  BY <1>1, <1>11, ActorKeeps DEF ReplanInv
<1>12. CASE UNCHANGED vars
  <2>1. /\ UNCHANGED <<files, booted, reading, plan, table, snap, pending, script, events, st, phase,
                       mailbox, configOf, changed>>
        /\ UNCHANGED <<events, phase, table, mixed, snap, st>>
    BY <1>12 DEF vars, overlordVars, actorVars
  <2>2. ReplanTypeOK'
    BY <1>1, <2>1 DEF ReplanTypeOK, Planned
  <2>3. Tabled'
    BY <1>1, <2>1 DEF Tabled, Planned, Named, ConfigOfThePlan
  <2> QED
    BY <1>2, <2>1, <2>2, <2>3 DEF ReplanInv
<1> QED
  BY <1>3, <1>4, <1>5, <1>6, <1>7, <1>8, <1>9, <1>10, <1>11, <1>12, <1>13
     DEF Next, EnvironmentStep, OverlordStep

\* ReplanTypeOK, Tabled and Seen hold of every state of the daemon: load, replan, the
\* overlord's handlers and the steps of the actors all keep them.
THEOREM ReplanHolds == Spec => []ReplanInv
<1>1. Init => ReplanInv
  BY InitHolds
<1>2. ReplanInv /\ [Next]_vars => ReplanInv'
  BY NextKeeps
<1> QED
  BY <1>1, <1>2, PTL DEF Spec

\* Whatever is edited and replanned, in whatever order the commands and events
\* arrive: the names of the plan have one actor each that is at work and was spawned
\* with what the plan says, unless a later replan or autostart changed that, and an actor no name
\* leads to has its Shutdown as the last command (sync_actors, reload_layers).
THEOREM ActorsAreOfThePlan == Spec => []ActorsFollowPlan
<1>1. ReplanInv => ActorsFollowPlan
  <2> SUFFICES ASSUME ReplanInv PROVE ActorsFollowPlan
    OBVIOUS
  <2>1. ReplanTypeOK /\ Tabled
    BY DEF ReplanInv
  <2>2. ASSUME NEW i \in Actors, phase[i] = "run"
        PROVE  IF table[configOf[i][1]] = i
                 THEN "Shutdown" \notin Range(mailbox[i])
                 ELSE mailbox[i] # <<>> /\ Last(mailbox[i]) = "Shutdown"
    <3>1. MailOK(mailbox[i], Named(i)) /\ mailbox[i] \in Seq(Commands)
      BY <2>1, <2>2 DEF Tabled, ReplanTypeOK
    <3>2. DOMAIN mailbox[i] = 1 .. Len(mailbox[i])
      BY <3>1, LenProperties
    <3>3. CASE Named(i)
      BY <3>1, <3>2, <3>3 DEF MailOK, Named, Range
    <3>4. CASE ~ Named(i)
      BY <3>1, <3>4 DEF MailOK, Named, Last
    <3> QED
      BY <3>3, <3>4 DEF Named
  <2>3. ActorsInTable
    BY <2>1, <2>2 DEF Tabled, ActorsInTable
  <2> QED
    BY <2>1, <2>3 DEF Tabled, ActorsFollowPlan
<1> QED
  BY <1>1, ReplanHolds, PTL

\* A name keeps the snapshot of its own actor, or the events that will make it so are
\* in the channel, unless an event of an actor it had before was taken for one of its
\* own (handle_svc_event: an event carries the name alone).
THEOREM SnapshotsOfActors == Spec => []SnapshotOfTheActor
<1>1. ReplanInv => SnapshotOfTheActor
  BY DEF ReplanInv, Seen, Agrees, SnapshotOfTheActor
<1> QED
  BY <1>1, ReplanHolds, PTL

\* The plan that a load makes.
LEMMA LoadedPlan ==
  ASSUME NEW contents \in Seq(Contents), NEW p, p = Plan(contents)
  PROVE  /\ p.layers \in Seq(Contents)
         /\ IsMergeOf(p.merged, [k \in DOMAIN p.layers |-> Parsed[p.layers[k]]], p.autostarted)
<1>1. /\ p.layers = contents /\ p.autostarted = {}
      /\ IsMergeOf(p.merged, [k \in DOMAIN contents |-> Parsed[contents[k]]], {})
  BY PlanOfLayers
<1> QED
  BY <1>1

LEMMA LoadedKept == ReplanInv /\ Loaded /\ [Next]_vars => Loaded'
<1> SUFFICES ASSUME ReplanInv, Loaded, [Next]_vars PROVE Loaded'
  OBVIOUS
<1>1. CASE ReloadMerges
  <2>1. plan' = Plan(reading.got)
    BY <1>1 DEF ReloadMerges
  <2>2. reading.got \in Seq(Contents)
    BY DEF ReplanInv, ReplanTypeOK
  <2> QED
    BY <2>1, <2>2, LoadedPlan DEF Loaded, PlanIsMerge
<1>2. ASSUME plan' = plan PROVE Loaded'
  BY <1>2 DEF Loaded, PlanIsMerge
<1>3. CASE \/ \E f \in Range(Files), content \in Contents \cup {Missing, Broken} : Edit(f, content)
           \/ \E directory \in Directories : ReloadBegins(directory)
  BY <1>2, <1>3 DEF Edit, ReloadBegins, overlordVars
<1>9. ASSUME NEW n \in Planned, AutostartRequest(n) PROVE Loaded'
  <2> DEFINE layers == [k \in DOMAIN plan.layers |-> Parsed[plan.layers[k]]]
             was == plan.merged.services
             is == plan'.merged.services
  <2>1. /\ plan'.layers = plan.layers /\ plan'.autostarted = plan.autostarted \cup {n}
        /\ is = Enabled(was, n)
        /\ plan'.merged.checks = plan.merged.checks /\ plan'.merged.alerts = plan.merged.alerts
        /\ plan'.merged.queueDepth = plan.merged.queueDepth
        /\ WholePlan(plan)
    BY <1>9, AutostartFacts DEF ReplanInv, ReplanTypeOK
  <2>2. DOMAIN is = DOMAIN was
    BY <2>1 DEF Enabled
  <2>3. ASSUME NEW m \in DOMAIN was
        PROVE  /\ is[m].command = was[m].command /\ is[m].requires = was[m].requires
               /\ is[m].startup = IF m = n THEN "enabled" ELSE was[m].startup
    <3>1. is[m] = IF m = n THEN [was[m] EXCEPT !.startup = "enabled"] ELSE was[m]
      BY <2>1 DEF Enabled
    <3>2. {"command", "startup", "requires"} \subseteq DOMAIN was[m]
      BY <2>1 DEF WholePlan, ServiceFields
    <3> QED
      BY <3>1, <3>2
  <2>4. IsMergeOf(plan.merged, layers, plan.autostarted)
    BY DEF Loaded, PlanIsMerge
  <2> HIDE DEF layers, was, is
  <2>5. ServicesMerged(is, Tables(layers, "services"), plan'.autostarted)
    <3>1. ServicesMerged(was, Tables(layers, "services"), plan.autostarted)
      BY <2>4 DEF IsMergeOf, was
    <3> QED
      BY <2>1, <2>2, <2>3, <3>1 DEF ServicesMerged
  <2>6. IsMergeOf(plan'.merged, layers, plan'.autostarted)
    BY <2>1, <2>4, <2>5 DEF IsMergeOf, is
  <2> QED
    BY <2>1, <2>6 DEF Loaded, PlanIsMerge, layers
<1>4. CASE Boot \/ ReloadApplies
  BY <1>2, <1>4 DEF Boot, ReloadApplies, Apply
<1>5. CASE ReadsLayer \/ LoadFails
  BY SMTT(30), <1>2, <1>5 DEF ReadsLayer, LoadFails, overlordVars
<1>6. CASE SendNext \/ OnStateChanged
  BY <1>2, <1>6 DEF SendNext, OnStateChanged
<1>7. ASSUME NEW i \in Actors, ActorStep(i) \/ ProcessExits(i) PROVE Loaded'
  BY <1>2, <1>7 DEF ActorStep, TakesStart, Launched, TakesStop, TakesShutdown, Reacts, CleanupEnds,
                    Leaves, ProcessExits, overlordVars
<1>8. CASE UNCHANGED vars
  BY <1>2, <1>8 DEF vars, overlordVars
<1> QED
  BY <1>1, <1>3, <1>4, <1>5, <1>6, <1>7, <1>8, <1>9 DEF Next, EnvironmentStep, OverlordStep

\* Whatever the layer files say and however many there are, at every time: each
\* entry of the plan that was put together layer by layer is what a reader of all
\* the layers would say it is (Plan::from_layers, and the merge of each kind).
THEOREM PlansAreMerges == Spec => []PlanIsMerge
<1>1. Init => Loaded
  <2> SUFFICES ASSUME Init PROVE Loaded
    OBVIOUS
  <2>1. PICK names \in Listed(files) : plan = Plan([i \in DOMAIN names |-> files[names[i]]])
    BY DEF Init
  <2>2. [i \in DOMAIN names |-> files[names[i]]] \in Seq(Contents)
    BY ListedTypes DEF Init
  <2> QED
    BY <2>1, <2>2, LoadedPlan DEF Loaded, PlanIsMerge
<1>2. ReplanInv /\ Loaded /\ [Next]_vars => Loaded'
  BY LoadedKept
<1>3. Loaded => PlanIsMerge
  BY DEF Loaded
<1> QED
  BY <1>1, <1>2, <1>3, ReplanHolds, PTL DEF Spec
-----------------------------------------------------------------------------
(* Replies and processes.                                                  *)

\* What is between the overlord and an actor, of its mailbox q, whether a name leads to
\* it, its phase and state, whether it is to reply to a Start, and whether the overlord
\* awaits its reply: one command that is awaited, the reply that do_start will give, one
\* Shutdown, or nothing.
InTouch(q, listed, at, s, owed, awaited) ==
  /\ owed = (s = "Starting")
  /\ owed => awaited
  /\ awaited => at = "run" /\ listed
  /\ at # "run" => q = <<>>
  /\ at = "run" /\ ~ listed => q = <<"Shutdown">>
  /\ at = "run" /\ listed /\ awaited /\ ~ owed => q = <<"Start">> \/ q = <<"Stop">>
  /\ at = "run" /\ listed /\ (owed \/ ~ awaited) => q = <<>>

\* What the phase and the state of an actor say of its process.
ToldByState(at, s, lives) ==
  /\ at \in {"unborn", "gone"} => ~ lives
  /\ at = "run" => (s = "Active" => lives) /\ (lives => s \in {"Active", "Stopping"})

\* A load, and the time before the boot, is quiet: no command is to be sent, no reply to
\* come.  Names have actors since the boot.
Working ==
  /\ waiting \in Actors \cup {NoActor}
  /\ owes \in [Actors -> BOOLEAN] /\ alive \in [Actors -> BOOLEAN]
  /\ reading.busy \/ ~ booted => script = <<>> /\ waiting = NoActor
  /\ \A n \in Names : table[n] # NoActor => booted
  /\ \A i \in Actors : InTouch(mailbox[i], Named(i), phase[i], st[i], owes[i], waiting = i)
  /\ \A i \in Actors : ToldByState(phase[i], st[i], alive[i])

\* A command that is taken was the only one.
LEMMA OneCommand ==
  ASSUME NEW q \in Seq(Commands), NEW listed \in BOOLEAN, NEW s \in States,
         NEW owed \in BOOLEAN, NEW awaited \in BOOLEAN,
         InTouch(q, listed, "run", s, owed, awaited), q # <<>>, s # "Starting"
  PROVE  /\ Tail(q) = <<>> /\ ~ owed
         /\ Head(q) = "Shutdown" => ~ listed /\ ~ awaited
         /\ Head(q) \in {"Start", "Stop"} => listed /\ awaited
<1>1. \A c : Head(<<c>>) = c /\ Tail(<<c>>) = <<>>
  OBVIOUS
<1>2. CASE ~ listed
  BY <1>1, <1>2 DEF InTouch
<1>3. CASE listed
  <2>1. awaited /\ ~ owed /\ (q = <<"Start">> \/ q = <<"Stop">>)
    BY <1>3 DEF InTouch
  <2>2. Tail(q) = <<>> /\ (Head(q) = "Start" \/ Head(q) = "Stop")
    BY <1>1, <2>1
  <2> QED
    BY <1>3, <2>1, <2>2
<1> QED
  BY <1>2, <1>3

\* What an actor writes of its own, and what the overlord may learn.
LEMMA ActorWorks ==
  ASSUME ReplanTypeOK, Tabled, Working, NEW i \in Actors, ActorStep(i) \/ ProcessExits(i)
  PROVE  /\ owes' \in [Actors -> BOOLEAN] /\ \A j \in Actors \ {i} : owes'[j] = owes[j]
         /\ alive' \in [Actors -> BOOLEAN] /\ \A j \in Actors \ {i} : alive'[j] = alive[j]
         /\ waiting' = waiting \/ (waiting = i /\ waiting' = NoActor)
         /\ InTouch(mailbox'[i], Named(i), phase'[i], st'[i], owes'[i], waiting' = i)
         /\ ToldByState(phase'[i], st'[i], alive'[i])
<1>1. /\ st \in [Actors -> States] /\ phase \in [Actors -> Phases]
      /\ mailbox \in [Actors -> Seq(Commands)] /\ owes \in [Actors -> BOOLEAN]
      /\ alive \in [Actors -> BOOLEAN] /\ NoActor \notin Actors
  BY NamesAssumption DEF ReplanTypeOK, Working
<1>2. /\ InTouch(mailbox[i], Named(i), phase[i], st[i], owes[i], waiting = i)
      /\ ToldByState(phase[i], st[i], alive[i])
  BY DEF Working
<1>3. Named(i) \in BOOLEAN /\ (waiting = i) \in BOOLEAN /\ (waiting' = i) \in BOOLEAN
  BY DEF Named
<1>4. i # NoActor
  BY <1>1
<1>5. ASSUME NEW cmd, Takes(i, cmd)
      PROVE  /\ phase[i] = "run" /\ mailbox'[i] = <<>> /\ owes[i] = FALSE /\ st[i] # "Starting"
             /\ cmd = "Shutdown" => ~ Named(i) /\ waiting # i
             /\ cmd \in {"Start", "Stop"} => Named(i) /\ waiting = i
  <2>1. /\ phase[i] = "run" /\ st[i] # "Starting" /\ mailbox[i] # <<>> /\ Head(mailbox[i]) = cmd
        /\ mailbox' = [mailbox EXCEPT ![i] = Tail(mailbox[i])]
    BY <1>5 DEF Takes
  <2>2. InTouch(mailbox[i], Named(i), "run", st[i], owes[i], waiting = i)
    BY <1>2, <2>1
  <2> DEFINE q == mailbox[i]
             listed == Named(i)
             awaited == waiting = i
  <2>3. /\ Tail(q) = <<>> /\ ~ owes[i]
        /\ Head(q) = "Shutdown" => ~ listed /\ ~ awaited
        /\ Head(q) \in {"Start", "Stop"} => listed /\ awaited
    <3>1. /\ q \in Seq(Commands) /\ listed \in BOOLEAN /\ st[i] \in States /\ owes[i] \in BOOLEAN
          /\ awaited \in BOOLEAN /\ InTouch(q, listed, "run", st[i], owes[i], awaited)
          /\ q # <<>> /\ st[i] # "Starting"
      BY <1>1, <1>3, <2>1, <2>2
    <3> HIDE DEF q, listed, awaited
    <3> QED
      BY <3>1, OneCommand
  <2> QED
    BY <1>1, <2>1, <2>3
<1>6. CASE TakesStart(i)
  <2>1. /\ phase[i] = "run" /\ mailbox'[i] = <<>> /\ owes[i] = FALSE /\ st[i] # "Starting"
        /\ Named(i) /\ waiting = i /\ phase' = phase
    BY <1>5, <1>6 DEF TakesStart
  <2>2. CASE st[i] \in {"Active", "Stopping"} /\ Answer(i) /\ UNCHANGED <<st, alive, owes>>
    BY <1>1, <1>2, <1>4, <2>1, <2>2 DEF Answer, InTouch, ToldByState
  <2>3. CASE Life!Launch(i) /\ owes' = [owes EXCEPT ![i] = TRUE] /\ UNCHANGED waiting
    <3>1. /\ ~ alive[i] /\ st' = [st EXCEPT ![i] = "Starting"] /\ alive' = alive
          /\ owes' = [owes EXCEPT ![i] = TRUE] /\ waiting' = waiting
      BY <2>3 DEF Life!Launch
    <3>2. st'[i] = "Starting" /\ owes'[i] = TRUE
      BY <1>1, <3>1
    <3>3. /\ phase'[i] = "run" /\ alive'[i] = FALSE /\ (waiting' = i) = TRUE /\ Named(i) = TRUE
      BY <1>1, <2>1, <3>1
    <3>4. InTouch(<<>>, TRUE, "run", "Starting", TRUE, TRUE) /\ ToldByState("run", "Starting", FALSE)
      BY DEF InTouch, ToldByState
    <3>5. /\ owes' \in [Actors -> BOOLEAN] /\ \A j \in Actors \ {i} : owes'[j] = owes[j]
          /\ alive' \in [Actors -> BOOLEAN] /\ \A j \in Actors \ {i} : alive'[j] = alive[j]
      BY <1>1, <3>1
    <3> QED
      BY <2>1, <3>1, <3>2, <3>3, <3>4, <3>5
  <2> QED
    BY <1>6, <2>2, <2>3 DEF TakesStart
<1>7. CASE Launched(i)
  <2>1. /\ UNCHANGED <<phase, mailbox>> /\ owes' = [owes EXCEPT ![i] = FALSE]
        /\ st[i] = "Starting"
        /\ \/ st' = [st EXCEPT ![i] = "Active"] /\ alive' = [alive EXCEPT ![i] = TRUE]
           \/ st' = [st EXCEPT ![i] = "Error"] /\ alive' = alive
    BY <1>7 DEF Launched, Life!Up, Life!LaunchFails
  <2>2. owes[i] = TRUE /\ waiting = i /\ phase[i] = "run" /\ Named(i) /\ mailbox[i] = <<>>
    BY <1>2, <2>1 DEF InTouch
  <2>3. waiting' = NoActor
    BY <1>7, <2>2 DEF Launched, Answer
  <2>4. ~ alive[i]
    BY <1>2, <2>1, <2>2 DEF ToldByState
  <2> QED
    BY <1>1, <1>4, <2>1, <2>2, <2>3, <2>4 DEF InTouch, ToldByState
<1>8. CASE TakesStop(i)
  <2>1. /\ phase[i] = "run" /\ mailbox'[i] = <<>> /\ owes[i] = FALSE /\ st[i] # "Starting"
        /\ Named(i) /\ waiting = i /\ phase' = phase /\ owes' = owes
    BY <1>5, <1>8 DEF TakesStop
  <2>2. waiting' = NoActor
    BY <1>8, <2>1 DEF TakesStop, Answer
  <2>3. /\ alive' = alive
        /\ st' = st \/ (st[i] = "Active" /\ st' = [st EXCEPT ![i] = "Stopping"])
    BY <1>8 DEF TakesStop, Life!AskToStop
  <2> QED
    BY <1>1, <1>2, <1>4, <2>1, <2>2, <2>3 DEF InTouch, ToldByState
<1>9. CASE TakesShutdown(i)
  <2>1. /\ phase[i] = "run" /\ mailbox'[i] = <<>> /\ owes[i] = FALSE /\ st[i] # "Starting"
        /\ ~ Named(i) /\ waiting # i
        /\ phase' = [phase EXCEPT ![i] = IF alive[i] THEN "cleanup" ELSE "gone"]
        /\ UNCHANGED <<waiting, st, alive, owes>>
    BY <1>5, <1>9 DEF TakesShutdown
  <2>2. phase'[i] = IF alive[i] THEN "cleanup" ELSE "gone"
    BY <1>1, <2>1
  <2>3. /\ (waiting' = i) = FALSE /\ owes'[i] = FALSE /\ st'[i] # "Starting"
        /\ alive'[i] = alive[i] /\ phase'[i] # "run" /\ phase'[i] # "unborn"
        /\ phase'[i] = "gone" => ~ alive[i]
    BY <2>1, <2>2
  <2>4. InTouch(mailbox'[i], Named(i), phase'[i], st'[i], FALSE, FALSE)
    BY <2>1, <2>3 DEF InTouch
  <2>5. ToldByState(phase'[i], st'[i], alive'[i])
    BY <2>3 DEF ToldByState
  <2>6. /\ owes' \in [Actors -> BOOLEAN] /\ \A j \in Actors \ {i} : owes'[j] = owes[j]
        /\ alive' \in [Actors -> BOOLEAN] /\ \A j \in Actors \ {i} : alive'[j] = alive[j]
    BY <1>1, <2>1
  <2> QED
    BY <2>1, <2>3, <2>4, <2>5, <2>6
<1>10. CASE Reacts(i)
  <2>1. /\ phase[i] = "run" /\ st[i] = "Stopping" /\ ~ alive[i]
        /\ st' = [st EXCEPT ![i] = "Inactive"] /\ UNCHANGED <<alive, waiting, phase, mailbox, owes>>
    BY <1>10 DEF Reacts, Life!Stopped
  <2>2. /\ owes[i] = FALSE /\ st'[i] = "Inactive" /\ st'[i] # "Starting"
    BY <1>1, <1>2, <2>1 DEF InTouch
  <2>3. InTouch(mailbox[i], Named(i), "run", st'[i], FALSE, waiting = i)
    BY <1>2, <2>1, <2>2 DEF InTouch
  <2>4. ToldByState("run", st'[i], alive[i])
    BY <2>1, <2>2 DEF ToldByState
  <2>5. /\ owes' \in [Actors -> BOOLEAN] /\ \A j \in Actors \ {i} : owes'[j] = owes[j]
        /\ alive' \in [Actors -> BOOLEAN] /\ \A j \in Actors \ {i} : alive'[j] = alive[j]
    BY <1>1, <2>1
  <2>6. (waiting' = i) = (waiting = i) /\ phase'[i] = "run" /\ mailbox'[i] = mailbox[i]
        /\ owes'[i] = FALSE /\ alive'[i] = alive[i]
    BY <2>1, <2>2
  <2> QED
    BY <2>1, <2>3, <2>4, <2>5, <2>6
<1>11. CASE CleanupEnds(i)
  <2>1. /\ phase[i] = "cleanup" /\ phase' = [phase EXCEPT ![i] = "gone"]
        /\ alive' = [alive EXCEPT ![i] = FALSE] /\ UNCHANGED <<st, waiting, mailbox, owes>>
    BY <1>11 DEF CleanupEnds
  <2>2. phase'[i] = "gone" /\ alive'[i] = FALSE
    BY <1>1, <2>1
  <2>3. InTouch(mailbox[i], Named(i), "cleanup", st[i], owes[i], waiting = i)
    BY <1>2, <2>1
  <2>4. InTouch(mailbox[i], Named(i), "gone", st[i], owes[i], waiting = i)
    BY <2>3 DEF InTouch
  <2>5. ToldByState("gone", st[i], FALSE)
    BY DEF ToldByState
  <2>6. /\ owes' \in [Actors -> BOOLEAN] /\ \A j \in Actors \ {i} : owes'[j] = owes[j]
        /\ alive' \in [Actors -> BOOLEAN] /\ \A j \in Actors \ {i} : alive'[j] = alive[j]
    BY <1>1, <2>1
  <2> QED
    BY <2>1, <2>2, <2>4, <2>5, <2>6
<1>12. CASE ProcessExits(i)
  <2>1. /\ alive[i] /\ alive' = [alive EXCEPT ![i] = FALSE]
        /\ st[i] = "Stopping" \/ phase[i] = "cleanup"
        /\ UNCHANGED <<st, phase, waiting, mailbox, owes>>
    BY <1>12 DEF ProcessExits, Life!Exit, overlordVars
  <2>2. alive'[i] = FALSE
    BY <1>1, <2>1
  <2>3. ToldByState(phase[i], st[i], FALSE)
    <3>1. st[i] = "Stopping" \/ phase[i] # "run"
      BY <2>1
    <3> QED
      BY <3>1 DEF ToldByState
  <2>4. alive' \in [Actors -> BOOLEAN] /\ \A j \in Actors \ {i} : alive'[j] = alive[j]
    BY <1>1, <2>1
  <2> QED
    BY <1>1, <1>2, <2>1, <2>2, <2>3, <2>4
<1> QED
  BY <1>6, <1>7, <1>8, <1>9, <1>10, <1>11, <1>12 DEF ActorStep

LEMMA ActorKeepsWorking ==
  ASSUME ReplanTypeOK, Tabled, Working, NEW i \in Actors, ActorStep(i) \/ ProcessExits(i)
  PROVE  Working'
<1>1. /\ owes' \in [Actors -> BOOLEAN] /\ \A j \in Actors \ {i} : owes'[j] = owes[j]
      /\ alive' \in [Actors -> BOOLEAN] /\ \A j \in Actors \ {i} : alive'[j] = alive[j]
      /\ waiting' = waiting \/ (waiting = i /\ waiting' = NoActor)
      /\ InTouch(mailbox'[i], Named(i), phase'[i], st'[i], owes'[i], waiting' = i)
      /\ ToldByState(phase'[i], st'[i], alive'[i])
  BY ActorWorks
<1>2. /\ UNCHANGED <<booted, reading, table, script, configOf>>
      /\ \A j \in Actors \ {i} : st'[j] = st[j] /\ phase'[j] = phase[j] /\ mailbox'[j] = mailbox[j]
  BY ActorFacts
<1>3. NoActor \notin Actors /\ \A j \in Actors : Named(j)' = Named(j)
  BY <1>2, NamesAssumption DEF Named
<1>4. \A j \in Actors \ {i} : (waiting' = j) = (waiting = j)
  BY <1>1, <1>3
<1>5. ASSUME NEW j \in Actors
      PROVE  /\ InTouch(mailbox'[j], Named(j)', phase'[j], st'[j], owes'[j], waiting' = j)
             /\ ToldByState(phase'[j], st'[j], alive'[j])
  <2>1. CASE j = i
    BY <1>1, <1>3, <2>1
  <2>2. CASE j # i
    <3>1. /\ InTouch(mailbox[j], Named(j), phase[j], st[j], owes[j], waiting = j)
          /\ ToldByState(phase[j], st[j], alive[j])
      BY DEF Working
    <3>2. /\ mailbox'[j] = mailbox[j] /\ Named(j)' = Named(j) /\ phase'[j] = phase[j]
          /\ st'[j] = st[j] /\ owes'[j] = owes[j] /\ (waiting' = j) = (waiting = j)
          /\ alive'[j] = alive[j]
      BY <1>1, <1>2, <1>3, <1>4, <2>2
    <3> QED
      BY <3>1, <3>2
  <2> QED
    BY <2>1, <2>2
<1>6. /\ waiting' \in Actors \cup {NoActor}
      /\ reading'.busy \/ ~ booted' => script' = <<>> /\ waiting' = NoActor
      /\ \A n \in Names : table'[n] # NoActor => booted'
  BY <1>1, <1>2 DEF Working
<1> QED
  BY <1>1, <1>5, <1>6 DEF Working

\* Steps that no actor takes part in.
LEMMA WorkingKept ==
  ASSUME Working, UNCHANGED <<booted, table, waiting, st, alive, phase, mailbox, owes, configOf>>,
         reading'.busy \/ ~ booted' => script' = <<>> /\ waiting = NoActor
  PROVE  Working'
<1>1. \A j \in Actors : Named(j)' = Named(j)
  BY DEF Named
<1> QED
  BY <1>1 DEF Working

LEMMA ApplyKeepsWorking ==
  ASSUME ReplanTypeOK, Tabled, Working, Apply, ~ booted \/ reading.merged
  PROVE  Working'
<1>1. /\ booted' = TRUE /\ reading' = Idle /\ UNCHANGED st
      /\ \A n \in Planned : table[n] = NoActor =>
           /\ table'[n] \in Actors /\ configOf'[table'[n]] = <<n, plan.merged.services[n]>>
      /\ \A n \in Planned : table[n] # NoActor => table'[n] = table[n]
      /\ \A n \in Names \ Planned : table'[n] = NoActor
      /\ \A i \in Actors : phase[i] = "unborn" =>
           \/ phase'[i] = "unborn"
           \/ phase'[i] = "run" /\ \E n \in Planned : table[n] = NoActor /\ table'[n] = i
      /\ \A i \in Actors : phase[i] # "unborn" =>
           phase'[i] = phase[i] /\ configOf'[i] = configOf[i]
      /\ mailbox' = [i \in Actors |->
                       IF \E n \in Names \ Planned : table[n] = i
                         THEN Append(mailbox[i], "Shutdown") ELSE mailbox[i]]
  BY ApplyFacts
<1>2. UNCHANGED <<waiting, alive, owes>>
  BY DEF Apply
<1>3. waiting = NoActor /\ NoActor \notin Actors
  BY NamesAssumption DEF Working, Tabled
<1>4. /\ Planned \subseteq Names /\ table \in [Names -> Actors \cup {NoActor}]
      /\ \A n \in Names : table[n] # NoActor =>
           table[n] \in Actors /\ phase[table[n]] = "run" /\ configOf[table[n]][1] = n
  BY DEF ReplanTypeOK, Tabled
<1>5. ASSUME NEW i \in Actors
      PROVE  /\ InTouch(mailbox'[i], Named(i)', phase'[i], st'[i], owes'[i], waiting' = i)
             /\ ToldByState(phase'[i], st'[i], alive'[i])
  <2>1. /\ InTouch(mailbox[i], Named(i), phase[i], st[i], owes[i], waiting = i)
        /\ ToldByState(phase[i], st[i], alive[i])
        /\ owes[i] \in BOOLEAN /\ alive[i] \in BOOLEAN
    BY DEF Working
  <2>2. (waiting = i) = FALSE /\ (waiting' = i) = FALSE
    BY <1>2, <1>3
  <2>3. owes[i] = FALSE /\ owes'[i] = FALSE /\ st'[i] = st[i] /\ st[i] # "Starting"
        /\ alive'[i] = alive[i]
    BY <1>1, <1>2, <2>1, <2>2 DEF InTouch
  <2>4. CASE phase[i] = "unborn"
    <3>1. /\ \A n \in Names : table[n] # i
          /\ mailbox[i] = <<>> /\ st[i] = "Inactive"
      BY <1>3, <1>4, <2>4 DEF Tabled
    <3>2. mailbox'[i] = <<>>
      BY <1>1, <3>1
    <3>3. alive[i] = FALSE
      BY <2>1, <2>4 DEF ToldByState
    <3>4. CASE phase'[i] = "unborn"
      <4>1. InTouch(<<>>, Named(i)', "unborn", "Inactive", FALSE, FALSE)
        BY DEF InTouch
      <4>2. ToldByState("unborn", "Inactive", FALSE)
        BY DEF ToldByState
      <4> QED
        BY <2>2, <2>3, <3>1, <3>2, <3>3, <3>4, <4>1, <4>2
    <3>5. CASE phase'[i] = "run" /\ \E n \in Planned : table[n] = NoActor /\ table'[n] = i
      <4>1. PICK n \in Planned : table[n] = NoActor /\ table'[n] = i
        BY <3>5
      <4>2. configOf'[i][1] = n
        <5>1. table'[n] = i /\ configOf'[table'[n]] = <<n, plan.merged.services[n]>>
          BY <1>1, <4>1
        <5> QED
          BY <5>1
      <4>3. Named(i)' = TRUE
        BY <4>1, <4>2 DEF Named
      <4>4. InTouch(<<>>, TRUE, "run", "Inactive", FALSE, FALSE)
        BY DEF InTouch
      <4>5. ToldByState("run", "Inactive", FALSE)
        BY DEF ToldByState
      <4> QED
        BY <2>2, <2>3, <3>1, <3>2, <3>3, <3>5, <4>3, <4>4, <4>5
    <3> QED
      BY <1>1, <2>4, <3>4, <3>5
  <2>5. CASE phase[i] # "unborn"
    <3>1. /\ phase'[i] = phase[i] /\ configOf'[i] = configOf[i] /\ configOf[i][1] \in Names
      BY <1>1, <2>5 DEF Tabled
    <3>2. CASE \E n \in Names \ Planned : table[n] = i
      <4>1. PICK n \in Names \ Planned : table[n] = i
        BY <3>2
      <4>2. /\ phase[i] = "run" /\ configOf[i][1] = n /\ table'[n] = NoActor /\ i # NoActor
        BY <1>1, <1>3, <1>4, <4>1
      <4>3. Named(i) = TRUE /\ Named(i)' = FALSE
        BY <3>1, <4>1, <4>2 DEF Named
      <4>4. mailbox[i] = <<>>
        BY <2>1, <2>2, <4>2, <4>3 DEF InTouch
      <4>5. mailbox'[i] = <<"Shutdown">>
        <5>1. mailbox'[i] = Append(mailbox[i], "Shutdown")
          BY <1>1, <3>2
        <5> QED
          BY <4>4, <5>1
      <4>6. InTouch(<<"Shutdown">>, FALSE, "run", st[i], FALSE, FALSE)
        BY <2>3 DEF InTouch
      <4> QED
        BY <2>1, <2>2, <2>3, <3>1, <4>2, <4>3, <4>5, <4>6
    <3>3. CASE ~ \E n \in Names \ Planned : table[n] = i
      <4>1. mailbox'[i] = mailbox[i]
        BY <1>1, <3>3
      <4>2. ASSUME NEW n \in Names PROVE table'[n] = i <=> table[n] = i
        <5>1. CASE n \in Planned /\ table[n] = NoActor
          <6>1. table'[n] \in Actors /\ phase[table'[n]] = "unborn"
            BY <5>1, ApplyFacts
          <6>2. table'[n] # i
            BY <2>5, <6>1
          <6> QED
            BY <1>3, <5>1, <6>2
        <5>2. CASE n \in Planned /\ table[n] # NoActor
          BY <1>1, <5>2
        <5>3. CASE n \notin Planned
          BY <1>1, <1>3, <3>3, <5>3
        <5> QED
          BY <5>1, <5>2, <5>3
      <4>3. Named(i)' = Named(i)
        BY <3>1, <4>2 DEF Named
      <4> QED
        BY <2>1, <2>2, <2>3, <3>1, <4>1, <4>3
    <3> QED
      BY <3>2, <3>3
  <2> QED
    BY <2>4, <2>5
<1>6. ~ reading'.busy
  BY <1>1, IdleType
<1> QED
  BY <1>1, <1>2, <1>5, <1>6 DEF Working

LEMMA SendKeepsWorking ==
  ASSUME ReplanTypeOK, Tabled, Working, SendNext
  PROVE  Working'
<1> DEFINE cmd == Head(script)[1]
           n == Head(script)[2]
<1>1. /\ script # <<>> /\ waiting = NoActor /\ script' = Tail(script) /\ waiting' = table[n]
      /\ mailbox' = [mailbox EXCEPT ![table[n]] = Append(@, cmd)]
      /\ UNCHANGED <<booted, reading, table, st, alive, phase, owes, configOf>>
  BY DEF SendNext
<1>2. cmd \in {"Start", "Stop"} /\ n \in Names
  <2>1. script \in Seq({"Start", "Stop"} \X Names)
    BY DEF ReplanTypeOK
  <2>2. Head(script) \in {"Start", "Stop"} \X Names
    BY <1>1, <2>1, HeadTailProperties
  <2> QED
    BY <2>2
<1> HIDE DEF cmd, n
<1>3. /\ mailbox \in [Actors -> Seq(Commands)] /\ table[n] \in Actors \cup {NoActor}
      /\ NoActor \notin Actors /\ ~ (reading.busy \/ ~ booted)
  BY <1>1, <1>2, NamesAssumption DEF ReplanTypeOK, Working
<1>4. \A j \in Actors : Named(j)' = Named(j)
  BY <1>1 DEF Named
<1>5. CASE table[n] = NoActor
  <2>1. mailbox' = mailbox /\ waiting' = waiting
    BY <1>1, <1>3, <1>5
  <2> QED
    BY <1>1, <1>3, <2>1, WorkingKept
<1>6. CASE table[n] # NoActor
  <2>1. table[n] \in Actors /\ phase[table[n]] = "run" /\ configOf[table[n]][1] = n
    BY <1>2, <1>6, NamedActor
  <2>2. PICK i \in Actors : i = table[n]
    BY <2>1
  <2>3. ASSUME NEW j \in Actors
        PROVE  InTouch(mailbox'[j], Named(j)', phase'[j], st'[j], owes'[j], waiting' = j)
    <3>1. /\ InTouch(mailbox[j], Named(j), phase[j], st[j], owes[j], waiting = j)
          /\ owes[j] \in BOOLEAN
      BY DEF Working
    <3>2. (waiting = j) = FALSE
      BY <1>1, <1>3
    <3>3. owes[j] = FALSE /\ st[j] # "Starting"
      BY <3>1, <3>2 DEF InTouch
    <3>4. CASE j = i
      <4>1. Named(j) = TRUE /\ phase[j] = "run"
        BY <2>1, <2>2, <3>4 DEF Named
      <4>2. mailbox[j] = <<>>
        BY <3>1, <3>2, <4>1 DEF InTouch
      <4>3. mailbox'[j] = <<cmd>>
        BY <1>1, <1>3, <2>2, <3>4, <4>2
      <4>4. (waiting' = j) = TRUE
        BY <1>1, <2>2, <3>4
      <4>5. InTouch(<<cmd>>, TRUE, "run", st[j], FALSE, TRUE)
        BY <1>2, <3>3 DEF InTouch
      <4>6. Named(j)' = TRUE /\ phase'[j] = "run" /\ st'[j] = st[j] /\ owes'[j] = FALSE
        BY <1>1, <1>4, <3>3, <4>1
      <4> QED
        BY <4>3, <4>4, <4>5, <4>6
    <3>5. CASE j # i
      <4>1. /\ mailbox'[j] = mailbox[j] /\ (waiting' = j) = FALSE /\ Named(j)' = Named(j)
            /\ phase'[j] = phase[j] /\ st'[j] = st[j] /\ owes'[j] = owes[j]
        BY <1>1, <1>3, <1>4, <2>2, <3>5
      <4> QED
        BY <3>1, <3>2, <4>1
    <3> QED
      BY <3>4, <3>5
  <2> QED
    BY <1>1, <1>3, <2>3 DEF Working
<1> QED
  BY <1>5, <1>6

LEMMA WorkingInit == ReplanInv /\ Init => Working
<1> SUFFICES ASSUME ReplanInv, Init PROVE Working
  OBVIOUS
<1>1. /\ booted = FALSE /\ reading = Idle /\ script = <<>> /\ waiting = NoActor
      /\ table = [n \in Names |-> NoActor]
      /\ st = [i \in Actors |-> "Inactive"] /\ alive = [i \in Actors |-> FALSE]
      /\ phase = [i \in Actors |-> "unborn"] /\ mailbox = [i \in Actors |-> <<>>]
      /\ owes = [i \in Actors |-> FALSE]
  BY DEF Init, Life!Init
<1>2. NoActor \notin Actors
  BY NamesAssumption
<1>3. ASSUME NEW i \in Actors
      PROVE  /\ InTouch(mailbox[i], Named(i), phase[i], st[i], owes[i], waiting = i)
             /\ ToldByState(phase[i], st[i], alive[i])
  <2>1. (waiting = i) = FALSE
    BY <1>1, <1>2
  <2>2. InTouch(<<>>, Named(i), "unborn", "Inactive", FALSE, FALSE)
    BY DEF InTouch
  <2>3. ToldByState("unborn", "Inactive", FALSE)
    BY DEF ToldByState
  <2> QED
    BY <1>1, <2>1, <2>2, <2>3
<1> QED
  BY <1>1, <1>3 DEF Working

LEMMA WorkingNext == ReplanInv /\ Working /\ [Next]_vars => Working'
<1> SUFFICES ASSUME ReplanInv, Working, [Next]_vars PROVE Working'
  OBVIOUS
<1>1. ReplanTypeOK /\ Tabled
  BY DEF ReplanInv
<1>2. reading.busy \/ ~ booted => script = <<>> /\ waiting = NoActor
  BY DEF Working
<1>3. CASE \E f \in Range(Files), content \in Contents \cup {Missing, Broken} : Edit(f, content)
  BY <1>2, <1>3, WorkingKept DEF Edit, overlordVars, actorVars
<1>4. CASE \E directory \in Directories : ReloadBegins(directory)
  BY <1>2, <1>4, WorkingKept DEF ReloadBegins, AtSelect, overlordVars, actorVars
<1>13. CASE \E n \in Planned : AutostartRequest(n)
  BY <1>1, <1>13, AutostartFacts, WorkingKept DEF actorVars
<1>5. CASE ReadsLayer
  <2>1. reading'.busy = reading.busy
    BY <1>1, <1>5 DEF ReadsLayer, ReplanTypeOK
  <2> QED
    BY <1>2, <1>5, <2>1, WorkingKept DEF ReadsLayer, overlordVars, actorVars
<1>6. CASE LoadFails
  <2>1. ~ reading'.busy
    BY <1>6, IdleType DEF LoadFails
  <2> QED
    BY <1>2, <1>6, <2>1, WorkingKept DEF LoadFails, overlordVars, actorVars
<1>7. CASE ReloadMerges
  <2>1. reading.busy
    BY <1>7 DEF ReloadMerges
  <2> QED
    BY <1>2, <1>7, <2>1, WorkingKept DEF ReloadMerges, actorVars
<1>8. CASE Boot \/ ReloadApplies
  <2>1. Apply /\ (~ booted \/ reading.merged)
    BY <1>8 DEF Boot, ReloadApplies
  <2> QED
    BY <1>1, <2>1, ApplyKeepsWorking
<1>9. CASE SendNext
  BY <1>1, <1>9, SendKeepsWorking
<1>10. CASE OnStateChanged
  <2>1. booted /\ ~ reading.busy /\ UNCHANGED <<booted, reading, table, waiting, actorVars>>
    BY <1>10 DEF OnStateChanged, AtSelect
  <2> QED
    BY SMTT(30), <2>1, WorkingKept DEF actorVars
<1>11. CASE \E i \in Actors : ActorStep(i) \/ ProcessExits(i)
  BY <1>1, <1>11, ActorKeepsWorking
<1>12. CASE UNCHANGED vars
  BY <1>2, <1>12, WorkingKept DEF vars, overlordVars, actorVars
<1> QED
  BY <1>3, <1>4, <1>5, <1>6, <1>7, <1>8, <1>9, <1>10, <1>11, <1>12, <1>13
     DEF Next, EnvironmentStep, OverlordStep

\* Working holds of every state of the daemon.
THEOREM WorkingHolds == Spec => []Working
<1>1. Init => Working
  BY InitHolds, WorkingInit
<1>2. ReplanInv /\ Working /\ [Next]_vars => Working'
  BY WorkingNext
<1> QED
  BY <1>1, <1>2, ReplanHolds, PTL DEF Spec

\* What is to be sent, and what waits for its dependencies, is of the plan.
Addressed ==
  /\ script \in Seq({"Start", "Stop"} \X Planned)
  /\ booted /\ ~ reading.merged => pending \subseteq Planned

LEMMA AddressedKept ==
  ASSUME Addressed, plan' = plan, UNCHANGED <<script, pending>>,
         booted' /\ ~ reading'.merged => booted /\ ~ reading.merged
  PROVE  Addressed'
BY DEF Addressed, Planned

LEMMA ApplyAddresses ==
  ASSUME ReplanTypeOK, Apply
  PROVE  Addressed'
<1> DEFINE new == {n \in Planned : table[n] = NoActor}
           enabled == {n \in Planned : plan.merged.services[n].startup = "enabled"}
           ready(tb, sn) == {n \in enabled : after_deps_running(tb, sn, n)}
<1>1. /\ pending' = enabled \ ready(table', snap') /\ script' \in ToEach("Start", ready(table', snap'))
      /\ plan' = plan
  BY DEF Apply
<1>2. ready(table', snap') \subseteq Planned /\ enabled \subseteq Planned /\ Planned \subseteq Names
  BY DEF ReplanTypeOK
<1>3. PICK S \in SUBSET Planned : script' \in ToEach("Start", S)
  BY <1>1, <1>2
<1>4. pending' \subseteq Planned /\ Planned' = Planned
  BY <1>1, <1>2 DEF Planned
<1> HIDE DEF new, enabled, ready
<1>5. script' \in Seq({"Start", "Stop"} \X Planned)
  BY <1>2, <1>3, ScriptNames
<1> QED
  BY <1>4, <1>5 DEF Addressed

LEMMA EventAddresses ==
  ASSUME ReplanTypeOK, Tabled, Addressed, OnStateChanged
  PROVE  Addressed'
<1>1. /\ booted /\ ~ reading.busy /\ plan' = plan
      /\ UNCHANGED <<booted, reading>> /\ pending' \subseteq pending
  BY DEF OnStateChanged, AtSelect
<1>2. ~ reading.merged /\ pending \subseteq Planned /\ Planned \subseteq Names
  BY SMTT(30), <1>1 DEF Tabled, Addressed, ReplanTypeOK
<1> DEFINE event == Head(events)
           n == configOf[event.by][1]
           sn == IF table[n] # NoActor THEN [snap EXCEPT ![n] = event.state] ELSE snap
           ready == {x \in pending : /\ is_running(event.state)
                                     /\ x \in Planned => after_deps_running(table, sn, x)}
           dependents == {x \in Planned : /\ event.state \in {"Inactive", "Error"}
                                          /\ n \in plan.merged.services[x].requires
                                          /\ table[x] # NoActor /\ is_running(sn[x])}
<1>3. PICK starts \in ToEach("Start", ready), stops \in ToEach("Stop", dependents) :
        script' = starts \o stops
  BY DEF OnStateChanged
<1>4. ready \in SUBSET Planned /\ dependents \in SUBSET Planned /\ Planned \in SUBSET Names
  BY <1>2
<1> HIDE DEF ready, dependents
<1>5. starts \in Seq({"Start", "Stop"} \X Planned) /\ stops \in Seq({"Start", "Stop"} \X Planned)
  BY <1>3, <1>4, ScriptNames
<1>6. script' \in Seq({"Start", "Stop"} \X Planned)
  BY <1>3, <1>5, ConcatProperties
<1>7. Planned' = Planned
  BY <1>1 DEF Planned
<1> QED
  BY <1>1, <1>2, <1>6, <1>7 DEF Addressed

LEMMA AddressedNext == ReplanInv /\ Working /\ Addressed /\ [Next]_vars => Addressed'
<1> SUFFICES ASSUME ReplanInv, Working, Addressed, [Next]_vars PROVE Addressed'
  OBVIOUS
<1>1. ReplanTypeOK /\ Tabled
  BY DEF ReplanInv
<1>2. ASSUME UNCHANGED <<plan, script, pending, booted, reading>> PROVE Addressed'
  BY <1>2, AddressedKept
<1>3. CASE EnvironmentStep
  <2>1. CASE \E f \in Range(Files), content \in Contents \cup {Missing, Broken} : Edit(f, content)
    BY <1>2, <2>1 DEF Edit, overlordVars
  <2>2. CASE \E directory \in Directories : ReloadBegins(directory)
    <3>1. booted /\ ~ reading.busy /\ UNCHANGED <<plan, script, pending>>
      BY <2>2 DEF ReloadBegins, AtSelect, overlordVars
    <3>2. ~ reading.merged
      BY <1>1, <3>1 DEF Tabled
    <3> QED
      BY <3>1, <3>2, AddressedKept
  <2>3. CASE \E n \in Planned : AutostartRequest(n)
    <3>1. PICK n \in Planned : AutostartRequest(n)
      BY <2>3
    <3>2. /\ script' = <<<<"Start", n>>>> /\ Planned' = Planned
          /\ UNCHANGED <<booted, reading, pending>>
      BY <1>1, <3>1, AutostartFacts
    <3>3. script' \in Seq({"Start", "Stop"} \X Planned)
      BY <3>2
    <3> QED
      BY <3>2, <3>3 DEF Addressed
  <2> QED
    BY <1>3, <2>1, <2>2, <2>3 DEF EnvironmentStep
<1>4. CASE ReadsLayer \/ LoadFails
  <2>1. reading.todo # <<>> /\ UNCHANGED <<booted, plan, script, pending>>
    BY <1>4 DEF ReadsLayer, LoadFails, overlordVars
  <2>2. ~ reading.merged
    BY <1>1, <2>1 DEF Tabled
  <2> QED
    BY <2>1, <2>2, AddressedKept
<1>5. CASE ReloadMerges
  <2>1. /\ reading.busy /\ reading' = [reading EXCEPT !.merged = TRUE]
        /\ UNCHANGED <<script, pending>>
    BY <1>5 DEF ReloadMerges
  <2>2. script' = <<>> /\ reading'.merged = TRUE
    BY <1>1, <2>1 DEF Working, ReplanTypeOK
  <2>3. \A T : <<>> \in Seq(T)
    BY EmptySeq
  <2> QED
    BY <2>2, <2>3 DEF Addressed
<1>6. CASE Boot \/ ReloadApplies
  BY <1>1, <1>6, ApplyAddresses DEF Boot, ReloadApplies
<1>7. CASE SendNext
  <2>1. script # <<>> /\ script' = Tail(script) /\ UNCHANGED <<plan, pending, booted, reading>>
    BY <1>7 DEF SendNext
  <2>2. Tail(script) \in Seq({"Start", "Stop"} \X Planned)
    <3> DEFINE T == {"Start", "Stop"} \X Planned
    <3>1. script \in Seq(T)
      BY DEF Addressed
    <3> HIDE DEF T
    <3>2. Tail(script) \in Seq(T)
      BY <2>1, <3>1, HeadTailProperties
    <3> QED
      BY <3>2 DEF T
  <2> QED
    BY <2>1, <2>2 DEF Addressed, Planned
<1>8. CASE OnStateChanged
  BY <1>1, <1>8, EventAddresses
<1>9. ASSUME NEW i \in Actors, ActorStep(i) \/ ProcessExits(i) PROVE Addressed'
  BY <1>1, <1>2, <1>9, ActorFacts
<1>10. CASE UNCHANGED vars
  BY <1>2, <1>10 DEF vars, overlordVars
<1> QED
  BY <1>3, <1>4, <1>5, <1>6, <1>7, <1>8, <1>9, <1>10 DEF Next, OverlordStep

LEMMA AddressedHolds == Spec => []Addressed
<1>1. Init => Addressed
  BY EmptySeq DEF Init, Addressed
<1>2. ReplanInv /\ Working /\ Addressed /\ [Next]_vars => Addressed'
  BY AddressedNext
<1> QED
  BY <1>1, <1>2, ReplanHolds, WorkingHolds, PTL DEF Spec

\* At most one command waits for an actor, so that no sender ever waits for room in its
\* channel, and no other actor than the one whose reply the overlord awaits owes anybody
\* one.  Each command of a script still finds an actor under the name it was decided
\* for; the awaited actor is one that a name leads to, in its loop, and either has the
\* command or is in the do_start that will answer it.
OneCommandAtATime ==
  /\ \A i \in Actors : Len(mailbox[i]) <= 1
  /\ \A i \in Actors : waiting # i => mailbox[i] \in {<<>>, <<"Shutdown">>} /\ ~ owes[i]
  /\ \A k \in DOMAIN script : table[script[k][2]] # NoActor
  /\ waiting # NoActor =>
       /\ waiting \in Actors /\ phase[waiting] = "run" /\ Named(waiting)
       /\ owes[waiting] => st[waiting] = "Starting" /\ mailbox[waiting] = <<>>
       /\ ~ owes[waiting] => mailbox[waiting] \in {<<"Start">>, <<"Stop">>}

\* No process outlives its service unseen: that of a name of the plan is behind the
\* actor the name leads to, which knows it is there, and every other belongs to an actor
\* whose one command is Shutdown or that is about to kill it.
ProcessesFollowPlan ==
  /\ \A i \in Actors : alive[i] =>
       \/ phase[i] = "cleanup"
       \/ phase[i] = "run" /\ mailbox[i] = <<"Shutdown">>
       \/ /\ phase[i] = "run" /\ Named(i) /\ st[i] \in {"Active", "Stopping"}
          /\ ~ reading.merged => configOf[i][1] \in Planned
  /\ \A n \in Names : table[n] # NoActor /\ st[table[n]] = "Active" => alive[table[n]]

\* Replan as it loads, boots and replans in any order awaits only replies that are due:
\* no replan tells an actor to shut down that the overlord has asked for something
\* (svc_cmd with its oneshot reply, the channel of 32 commands of service::spawn).
THEOREM CommandsOneByOne == Spec => []OneCommandAtATime
<1>1. ReplanInv /\ Working /\ Addressed => OneCommandAtATime
  <2> SUFFICES ASSUME ReplanInv, Working, Addressed PROVE OneCommandAtATime
    OBVIOUS
  <2>1. \A c : Len(<<c>>) = 1
    OBVIOUS
  <2>2. Len(<<>>) = 0
    BY EmptySeq
  <2>3. ASSUME NEW i \in Actors
        PROVE  /\ InTouch(mailbox[i], Named(i), phase[i], st[i], owes[i], waiting = i)
               /\ phase[i] \in Phases /\ Named(i) \in BOOLEAN /\ owes[i] \in BOOLEAN
    BY DEF ReplanInv, ReplanTypeOK, Working, Named
  <2>4. ASSUME NEW i \in Actors
        PROVE  \/ mailbox[i] = <<>> \/ mailbox[i] = <<"Shutdown">>
               \/ mailbox[i] = <<"Start">> \/ mailbox[i] = <<"Stop">>
    BY <2>3 DEF InTouch
  <2>5. ASSUME NEW i \in Actors PROVE Len(mailbox[i]) <= 1
    <3>1. Len(mailbox[i]) = 0 \/ Len(mailbox[i]) = 1
      <4>1. CASE mailbox[i] = <<>>
        BY <2>2, <4>1
      <4>2. CASE mailbox[i] # <<>>
        BY <2>1, <2>4, <4>2
      <4> QED
        BY <4>1, <4>2
    <3>2. \A k \in {0, 1} : k <= 1
      OBVIOUS
    <3>3. Len(mailbox[i]) \in {0, 1}
      BY <3>1
    <3> QED
      BY <3>2, <3>3
  <2>6. ASSUME NEW i \in Actors, waiting # i
        PROVE  mailbox[i] \in {<<>>, <<"Shutdown">>} /\ ~ owes[i]
    <3>1. InTouch(mailbox[i], Named(i), phase[i], st[i], owes[i], FALSE)
      BY <2>3, <2>6
    <3> QED
      BY <3>1 DEF InTouch
  <2>7. ASSUME waiting # NoActor
        PROVE  /\ waiting \in Actors /\ phase[waiting] = "run" /\ Named(waiting)
               /\ owes[waiting] => st[waiting] = "Starting" /\ mailbox[waiting] = <<>>
               /\ ~ owes[waiting] => mailbox[waiting] \in {<<"Start">>, <<"Stop">>}
    <3>1. waiting \in Actors
      BY <2>7 DEF Working
    <3>2. InTouch(mailbox[waiting], Named(waiting), phase[waiting], st[waiting], owes[waiting], TRUE)
      BY <2>3, <3>1
    <3> QED
      BY <3>1, <3>2 DEF InTouch
  <2>8. ASSUME NEW k \in DOMAIN script PROVE table[script[k][2]] # NoActor
    <3>1. script \in Seq({"Start", "Stop"} \X Planned)
      BY DEF Addressed
    <3>2. script[k] \in {"Start", "Stop"} \X Planned /\ script # <<>>
      <4> DEFINE T == {"Start", "Stop"} \X Planned
      <4>1. script \in Seq(T)
        BY <3>1
      <4> HIDE DEF T
      <4>2. script[k] \in T /\ script # <<>>
        <5>1. DOMAIN script = 1 .. Len(script) /\ Len(script) \in Nat
          BY <4>1, LenProperties
        <5>2. script # <<>>
          BY <2>2, <2>8, <5>1
        <5> QED
          BY <2>8, <4>1, <5>1, <5>2, ElementOfSeq
      <4> QED
        BY <4>2 DEF T
    <3>3. booted /\ ~ reading.merged
      BY <3>2 DEF Working, ReplanInv, Tabled
    <3>4. {n \in Names : table[n] # NoActor} = Planned
      BY <3>3 DEF ReplanInv, Tabled
    <3>5. script[k][2] \in Planned
      BY <3>2
    <3> QED
      BY <3>4, <3>5
  <2> QED
    BY <2>5, <2>6, <2>7, <2>8 DEF OneCommandAtATime
<1> QED
  BY <1>1, ReplanHolds, WorkingHolds, AddressedHolds, PTL

\* The safety half of RemovedServicesStop: whatever is removed, added and removed again,
\* a live process is that of a service of the plan or its actor has been told to end it
\* (sync_actors, the removals of reload_layers, and cleanup).
THEOREM NoOrphans == Spec => []ProcessesFollowPlan
<1>1. ReplanInv /\ Working => ProcessesFollowPlan
  <2> SUFFICES ASSUME ReplanInv, Working PROVE ProcessesFollowPlan
    OBVIOUS
  <2>1. ReplanTypeOK /\ Tabled
    BY DEF ReplanInv
  <2>2. ASSUME NEW i \in Actors, alive[i]
        PROVE  \/ phase[i] = "cleanup"
               \/ phase[i] = "run" /\ mailbox[i] = <<"Shutdown">>
               \/ /\ phase[i] = "run" /\ Named(i) /\ st[i] \in {"Active", "Stopping"}
                  /\ ~ reading.merged => configOf[i][1] \in Planned
    <3>1. /\ InTouch(mailbox[i], Named(i), phase[i], st[i], owes[i], waiting = i)
          /\ ToldByState(phase[i], st[i], alive[i]) /\ phase[i] \in Phases
      BY <2>1 DEF ReplanTypeOK, Working
    <3>2. phase[i] \in {"run", "cleanup"}
      BY <2>2, <3>1 DEF ToldByState, Phases
    <3>3. CASE phase[i] = "run" /\ ~ Named(i)
      BY <3>1, <3>3 DEF InTouch
    <3>4. CASE phase[i] = "run" /\ Named(i)
      <4>1. st[i] \in {"Active", "Stopping"}
        BY <2>2, <3>1, <3>4 DEF ToldByState
      <4>2. /\ configOf[i][1] \in Names /\ table[configOf[i][1]] = i /\ i # NoActor
        BY <2>1, <3>4, NamesAssumption DEF Tabled, Named
      <4>3. booted
        BY <4>2 DEF Working
      <4>4. ~ reading.merged => configOf[i][1] \in Planned
        BY <2>1, <4>2, <4>3 DEF Tabled
      <4> QED
        BY <3>4, <4>1, <4>4
    <3> QED
      BY <3>2, <3>3, <3>4
  <2>3. ASSUME NEW n \in Names, table[n] # NoActor, st[table[n]] = "Active" PROVE alive[table[n]]
    <3>1. table[n] \in Actors /\ phase[table[n]] = "run"
      BY <2>1, <2>3, NamedActor
    <3>2. ToldByState("run", "Active", alive[table[n]])
      BY <2>3, <3>1 DEF Working
    <3> QED
      BY <3>2 DEF ToldByState
  <2> QED
    BY <2>2, <2>3 DEF ProcessesFollowPlan
<1> QED
  BY <1>1, ReplanHolds, WorkingHolds, PTL

\* The life of the process of every actor, through removals and the kill of cleanup, is
\* one that ServiceLifecycle allows.
THEOREM ReplanLifecycle == Spec => Life!Spec
<1>1. Init => Life!Init
  BY DEF Init
<1>2. Working /\ [Next]_vars => [Life!Next]_(Life!lifecycleVars)
  <2> SUFFICES ASSUME Working, [Next]_vars PROVE Life!Next \/ UNCHANGED <<st, alive>>
    BY DEF Life!lifecycleVars
  <2>1. CASE EnvironmentStep
    <3>1. UNCHANGED actorVars
      BY <2>1, ZenonT(40) DEF EnvironmentStep, Edit, ReloadBegins, AutostartRequest
    <3> QED
      BY <3>1 DEF actorVars
  <2>2. CASE OverlordStep
    BY <2>2 DEF OverlordStep, Boot, ReadsLayer, LoadFails, ReloadMerges, ReloadApplies, SendNext,
                OnStateChanged, Apply, actorVars
  <2>3. ASSUME NEW i \in Actors, ActorStep(i) \/ ProcessExits(i)
        PROVE  Life!Next \/ UNCHANGED <<st, alive>>
    <3>1. CASE CleanupEnds(i)
      <4>1. alive' = [alive EXCEPT ![i] = FALSE] /\ st' = st /\ alive \in [Actors -> BOOLEAN]
        BY <3>1 DEF CleanupEnds, Working
      <4>2. CASE alive[i]
        BY <4>1, <4>2 DEF Life!Next, Life!Exit
      <4>3. CASE ~ alive[i]
        BY <4>1, <4>3
      <4> QED
        BY <4>2, <4>3
    <3>2. CASE TakesStart(i) \/ Launched(i) \/ TakesStop(i)
      BY <3>2 DEF TakesStart, Launched, TakesStop, Life!Next
    <3>3. CASE TakesShutdown(i) \/ Reacts(i) \/ ProcessExits(i)
      BY <3>3 DEF TakesShutdown, Reacts, ProcessExits, Life!Next
    <3> QED
      BY <2>3, <3>1, <3>2, <3>3 DEF ActorStep
  <2>4. CASE UNCHANGED vars
    BY <2>4 DEF vars, actorVars
  <2> QED
    BY <2>1, <2>2, <2>3, <2>4 DEF Next
<1> QED
  BY <1>1, <1>2, WorkingHolds, PTL DEF Spec, Life!Spec
=============================================================================
