------------------------- MODULE TurnJournalProofs -------------------------
(***************************************************************************)
(* The journal of submitted prompts, for every number of chats, prompts    *)
(* and rows: it can always be read again, makes room without forgetting a  *)
(* prompt whose fate is open, refuses a new prompt only when it is full of *)
(* such, and never forgets that a chat failed.                             *)
(***************************************************************************)
EXTENDS TurnJournalStore, FiniteSetTheorems, WellFoundedInduction, TLAPS

-----------------------------------------------------------------------------
(* The oldest rows of a set *)

Timed(S) == \A x \in S : x.at \in Int

\* A family of parts of a finite set has a member that includes no other.
LEMMA SmallestMember ==
  ASSUME NEW S, IsFiniteSet(S), NEW F, F \subseteq SUBSET S, F # {}
  PROVE  \E U \in F : \A V \in F : V \subseteq U => V = U
<1>1. IsWellFoundedOn(StrictSubsetOrdering(S), FiniteSubsetsOf(S))
  BY FS_StrictSubsetOrderingWellFounded
<1>2. F \subseteq FiniteSubsetsOf(S)
  BY FS_Subset DEF FiniteSubsetsOf
<1>3. PICK U \in F : \A V \in F : <<V, U>> \notin StrictSubsetOrdering(S)
  BY <1>1, <1>2, WFMin
<1>4. ASSUME NEW V \in F, V \subseteq U  PROVE  V = U
  BY <1>3, <1>4 DEF StrictSubsetOrdering
<1> QED  BY <1>4

\* There is a youngest row: the smallest nonempty set of rows that no other row
\* is younger than consists of rows of one age.
LEMMA YoungestRow ==
  ASSUME NEW S, IsFiniteSet(S), S # {}, Timed(S)
  PROVE  \E x \in S : \A y \in S : y.at <= x.at
<1> DEFINE F == {W \in SUBSET S :
                   W # {} /\ \A x \in W, y \in S \ W : y.at <= x.at}
<1>1. F # {} /\ F \subseteq SUBSET S
  <2>1. S \in F
    OBVIOUS
  <2> QED  BY <2>1
<1>2. PICK W \in F : \A V \in F : V \subseteq W => V = W
  <2> HIDE DEF F
  <2> QED  BY <1>1, SmallestMember
<1>3. PICK x \in W : TRUE
  OBVIOUS
<1>4. ASSUME NEW y \in S, ~ (y.at <= x.at)  PROVE  FALSE
  <2> DEFINE V == {z \in W : z.at > x.at}
  <2>1. y \in V
    BY <1>3, <1>4 DEF Timed
  <2>2. V \subseteq W /\ x \notin V
    BY <1>3 DEF Timed
  <2>3. ASSUME NEW v \in V, NEW z \in S \ V  PROVE  z.at <= v.at
    BY <1>3, <2>3 DEF Timed
  <2>4. V \in F
    BY <2>1, <2>2, <2>3
  <2> QED  BY <1>2, <1>3, <2>2, <2>4
<1> QED  BY <1>3, <1>4

LEMMA OldestAre ==
  ASSUME NEW S, NEW n, NEW T \in Oldest(S, n)
  PROVE  T \subseteq S /\ Cardinality(T) = n
BY DEF Oldest, kSubset

\* The n oldest rows exist when there are n: a smallest set of at least n rows
\* with no older ones beside it loses its youngest row otherwise.
LEMMA OldestExist ==
  ASSUME NEW S, IsFiniteSet(S), Timed(S), NEW n \in Nat, n <= Cardinality(S)
  PROVE  Oldest(S, n) # {}
<1> DEFINE F == {W \in SUBSET S : /\ n <= Cardinality(W)
                                  /\ \A x \in W, y \in S \ W : x.at <= y.at}
<1>1. F # {} /\ F \subseteq SUBSET S
  <2>1. S \in F
    OBVIOUS
  <2> QED  BY <2>1
<1>2. PICK W \in F : \A V \in F : V \subseteq W => V = W
  <2> HIDE DEF F
  <2> QED  BY <1>1, SmallestMember
<1>3. W \subseteq S /\ IsFiniteSet(W) /\ Cardinality(W) \in Nat
  BY FS_Subset, FS_CardinalityType
<1>4. ASSUME Cardinality(W) # n  PROVE  FALSE
  <2>1. n < Cardinality(W) /\ W # {}
    BY <1>3, <1>4, FS_EmptySet
  <2>2. PICK x \in W : \A y \in W : y.at <= x.at
    BY <1>3, <2>1, YoungestRow DEF Timed
  <2> DEFINE V == W \ {x}
  <2>3. Cardinality(V) = Cardinality(W) - 1
    BY <1>3, FS_RemoveElement
  <2>4. n <= Cardinality(V)
    BY <1>3, <2>1, <2>3
  <2>5. ASSUME NEW v \in V, NEW y \in S \ V  PROVE  v.at <= y.at
    BY <2>2, <2>5
  <2>6. V \in F /\ V \subseteq W /\ V # W
    BY <2>4, <2>5
  <2> QED  BY <1>2, <2>6
<1>5. W \in Oldest(S, n)
  BY <1>4 DEF Oldest, kSubset
<1> QED  BY <1>5

-----------------------------------------------------------------------------
(* Making room *)

\* An entry that nobody may evict.
Open(e, time) == ~Settled(e) /\ ~LastResort(e, time)

Rows(E) == IsFiniteSet(E) /\ Timed(E)

LEMMA PartIsRows ==
  ASSUME NEW E, Rows(E), NEW F, F \subseteq E
  PROVE  /\ Rows(F) /\ Cardinality(F) \in Nat
         /\ Cardinality(F) <= Cardinality(E)
BY FS_Subset, FS_CardinalityType DEF Rows, Timed

LEMMA AddedRow ==
  ASSUME NEW S, IsFiniteSet(S), NEW x
  PROVE  /\ IsFiniteSet(S \cup {x})
         /\ Cardinality(S \cup {x}) <= Cardinality(S) + 1
<1>1. Cardinality(S) \in Nat
  BY FS_CardinalityType
<1>2. /\ IsFiniteSet(S \cup {x})
      /\ Cardinality(S \cup {x}) =
           IF x \in S THEN Cardinality(S) ELSE Cardinality(S) + 1
  BY FS_AddElement
<1> QED  BY <1>1, <1>2

\* What is evicted is settled or a last resort, and no more is kept than the
\* journal holds.
LEMMA EvictKeeps ==
  ASSUME NEW E, Rows(E), NEW time, NEW F \in Evict(E, time)
  PROVE  /\ F \subseteq E /\ Cardinality(F) <= MaxEntries
         /\ \A e \in E : Open(e, time) => e \in F
<1> DEFINE settled == {e \in E : Settled(e)}
           stale == {e \in E \ settled : LastResort(e, time)}
           excess == Cardinality(E) - MaxEntries
<1>1. /\ IsFiniteSet(E) /\ Cardinality(E) \in Nat
      /\ IsFiniteSet(settled) /\ Cardinality(settled) \in Nat
      /\ IsFiniteSet(stale) /\ Cardinality(stale) \in Nat
  BY PartIsRows DEF Rows
<1>2. MaxEntries \in Nat
  BY JournalAssumption
<1>3. CASE excess <= 0
  <2>1. F = E
    BY <1>3 DEF Evict
  <2> QED  BY <2>1, <1>1, <1>2, <1>3
<1>4. CASE ~ (excess <= 0) /\ excess <= Cardinality(settled)
  <2>1. PICK T \in Oldest(settled, excess) : F = E \ T
    BY <1>4 DEF Evict
  <2>2. T \subseteq settled /\ Cardinality(T) = excess
    BY <2>1, OldestAre
  <2>3. Cardinality(F) = Cardinality(E) - Cardinality(E \cap T)
    BY <1>1, <2>1, FS_Difference
  <2>4. E \cap T = T
    BY <2>2
  <2>5. Cardinality(F) = MaxEntries
    <3>1. Cardinality(F) = Cardinality(E) - excess
      BY <2>2, <2>3, <2>4
    <3> QED  BY <1>1, <1>2, <3>1
  <2>6. \A e \in E : Open(e, time) => e \in F
    BY <2>1, <2>2 DEF Open
  <2> QED  BY <1>2, <2>1, <2>5, <2>6
<1>5. CASE ~ (excess <= 0) /\ ~ (excess <= Cardinality(settled))
  <2>1. PICK T \in Oldest(stale, excess - Cardinality(settled)) :
          F = E \ (settled \cup T)
    BY <1>5 DEF Evict
  <2>2. T \subseteq stale /\ Cardinality(T) = excess - Cardinality(settled)
    BY <2>1, OldestAre
  <2>3. IsFiniteSet(T) /\ settled \cap T = {}
    BY <1>1, <2>2, FS_Subset
  <2>4. Cardinality(settled \cup T)
          = Cardinality(settled) + Cardinality(T) - Cardinality({})
    BY <1>1, <2>3, FS_Union
  <2>5. Cardinality(settled \cup T) = excess
    BY <1>1, <1>2, <2>2, <2>4, FS_EmptySet
  <2>6. Cardinality(F) = Cardinality(E) - Cardinality(E \cap (settled \cup T))
    BY <1>1, <2>1, FS_Difference
  <2>7. E \cap (settled \cup T) = settled \cup T
    BY <2>2
  <2>8. Cardinality(F) = MaxEntries
    <3>1. Cardinality(F) = Cardinality(E) - excess
      BY <2>5, <2>6, <2>7
    <3> QED  BY <1>1, <1>2, <3>1
  <2>9. \A e \in E : Open(e, time) => e \in F
    BY <2>1, <2>2 DEF Open
  <2> QED  BY <1>2, <2>1, <2>8, <2>9
<1> QED  BY <1>3, <1>4, <1>5

\* There is room unless more entries than that may not be evicted.
LEMMA EvictFindsRoom ==
  ASSUME NEW E, Rows(E), NEW time,
         Cardinality({e \in E : Open(e, time)}) <= MaxEntries
  PROVE  Evict(E, time) # {}
<1> DEFINE settled == {e \in E : Settled(e)}
           stale == {e \in E \ settled : LastResort(e, time)}
           open == {e \in E : Open(e, time)}
           excess == Cardinality(E) - MaxEntries
<1>1. /\ Cardinality(E) \in Nat
      /\ Rows(settled) /\ Cardinality(settled) \in Nat
      /\ Rows(stale) /\ Cardinality(stale) \in Nat
      /\ Rows(open) /\ Cardinality(open) \in Nat
  BY PartIsRows
<1>2. MaxEntries \in Nat
  BY JournalAssumption
<1>3. Cardinality(E)
        = Cardinality(settled) + Cardinality(stale) + Cardinality(open)
  <2>1. /\ IsFiniteSet(settled) /\ IsFiniteSet(stale) /\ IsFiniteSet(open)
        /\ IsFiniteSet(settled \cup stale)
    BY <1>1, FS_Union DEF Rows
  <2>2. /\ settled \cap stale = {} /\ (settled \cup stale) \cap open = {}
        /\ (settled \cup stale) \cup open = E
    BY DEF Open
  <2>3. Cardinality(settled \cup stale)
          = Cardinality(settled) + Cardinality(stale) - Cardinality({})
    BY <2>1, <2>2, FS_Union
  <2>4. Cardinality((settled \cup stale) \cup open)
          = Cardinality(settled \cup stale) + Cardinality(open)
            - Cardinality({})
    BY <2>1, <2>2, FS_Union
  <2>5. Cardinality({}) = 0
    BY FS_EmptySet
  <2>6. Cardinality(E) = Cardinality(settled \cup stale) + Cardinality(open)
                           - Cardinality({})
    BY <2>2, <2>4
  <2> HIDE DEF settled, stale, open
  <2> QED  BY <1>1, <2>3, <2>5, <2>6
<1>4. CASE excess <= 0
  BY <1>4 DEF Evict
<1>5. CASE ~ (excess <= 0) /\ excess <= Cardinality(settled)
  <2>1. Oldest(settled, excess) # {}
    BY <1>1, <1>2, <1>5, OldestExist DEF Rows
  <2> QED  BY <1>5, <2>1 DEF Evict
<1>6. CASE ~ (excess <= 0) /\ ~ (excess <= Cardinality(settled))
  <2> DEFINE n == excess - Cardinality(settled)
  <2>1. n \in Nat /\ n <= Cardinality(stale)
    <3> HIDE DEF settled, stale, open
    <3> QED  BY <1>1, <1>2, <1>3, <1>6 DEF open
  <2>2. Oldest(stale, n) # {}
    <3> HIDE DEF n
    <3> QED  BY <1>1, <2>1, OldestExist DEF Rows
  <2> QED  BY <1>6, <2>2 DEF Evict
<1> QED  BY <1>4, <1>5, <1>6

\* Only bindings without entries are evicted, and not the one just written.
LEMMA EvictBindingsKeeps ==
  ASSUME NEW B, Rows(B), NEW E, NEW protected,
         NEW C \in EvictBindings(B, E, protected)
  PROVE  /\ C \subseteq B /\ Cardinality(C) <= MaxBindings
         /\ \A b \in B : (\E e \in E : e.scope = b.scope) => b \in C
<1> DEFINE removable == {b \in B : /\ b.scope \notin protected
                                   /\ \A e \in E : e.scope # b.scope}
           excess == Cardinality(B) - MaxBindings
<1>1. IsFiniteSet(B) /\ Cardinality(B) \in Nat /\ MaxBindings \in Nat
  BY PartIsRows, JournalAssumption DEF Rows
<1>2. CASE excess <= 0
  <2>1. C = B
    BY <1>2 DEF EvictBindings
  <2> QED  BY <1>1, <1>2, <2>1
<1>3. CASE ~ (excess <= 0)
  <2>1. PICK T \in Oldest(removable, excess) : C = B \ T
    BY <1>3 DEF EvictBindings
  <2>2. T \subseteq removable /\ Cardinality(T) = excess
    BY <2>1, OldestAre
  <2>3. Cardinality(C) = Cardinality(B) - Cardinality(B \cap T)
    BY <1>1, <2>1, FS_Difference
  <2>4. B \cap T = T
    BY <2>2
  <2>5. Cardinality(C) = MaxBindings
    <3>1. Cardinality(C) = Cardinality(B) - excess
      BY <2>2, <2>3, <2>4
    <3> QED  BY <1>1, <3>1
  <2> QED  BY <1>1, <2>1, <2>2, <2>5
<1> QED  BY <1>2, <1>3
LEMMA CompactKeeps ==
  ASSUME NEW d, Rows(d.entries), Rows(d.bindings), NEW time, NEW protected,
         NEW f \in Compact(d, time, protected)
  PROVE  /\ f \in [bindings : SUBSET d.bindings, entries : SUBSET d.entries]
         /\ Cardinality(f.entries) <= MaxEntries
         /\ Cardinality(f.bindings) <= MaxBindings
         /\ \A e \in d.entries : Open(e, time) => e \in f.entries
         /\ \A b \in d.bindings :
              (\E e \in f.entries : e.scope = b.scope) => b \in f.bindings
<1> DEFINE fresh == {e \in d.entries : ~ Expired(e, time)}
<1>1. PICK E \in Evict(fresh, time) :
        \E C \in EvictBindings(d.bindings, E, protected) :
          f = [bindings |-> C, entries |-> E]
  BY DEF Compact
<1>2. PICK C \in EvictBindings(d.bindings, E, protected) :
        f = [bindings |-> C, entries |-> E]
  BY <1>1
<1>3. Rows(fresh)
  BY PartIsRows
<1>4. /\ E \subseteq fresh /\ Cardinality(E) <= MaxEntries
      /\ \A e \in fresh : Open(e, time) => e \in E
  <2> HIDE DEF fresh
  <2> QED  BY <1>1, <1>3, EvictKeeps
<1>5. /\ C \subseteq d.bindings /\ Cardinality(C) <= MaxBindings
      /\ \A b \in d.bindings : (\E e \in E : e.scope = b.scope) => b \in C
  BY <1>2, EvictBindingsKeeps
<1>6. \A e \in d.entries : Open(e, time) => e \in E
  BY <1>4 DEF Open, Expired
<1> QED  BY <1>2, <1>4, <1>5, <1>6

\* Compaction succeeds while the entries that stay leave room, in a journal
\* that has not too many bindings.
LEMMA CompactSucceeds ==
  ASSUME NEW d, Rows(d.entries), Rows(d.bindings), NEW time, NEW protected,
         Cardinality(d.bindings) <= MaxBindings,
         Cardinality({e \in d.entries : Open(e, time)}) <= MaxEntries
  PROVE  Compact(d, time, protected) # {}
<1> DEFINE fresh == {e \in d.entries : ~ Expired(e, time)}
<1>1. Rows(fresh)
  BY PartIsRows
<1>2. {e \in fresh : Open(e, time)} = {e \in d.entries : Open(e, time)}
  BY DEF Open, Expired
<1>3. Evict(fresh, time) # {}
  <2> HIDE DEF fresh
  <2> QED  BY <1>1, <1>2, EvictFindsRoom
<1>4. PICK E \in Evict(fresh, time) : TRUE
  BY <1>3
<1>5. Cardinality(d.bindings) - MaxBindings <= 0
  BY PartIsRows, JournalAssumption
<1>6. d.bindings \in EvictBindings(d.bindings, E, protected)
  BY <1>5 DEF EvictBindings
<1>7. [bindings |-> d.bindings, entries |-> E]
        \in {[bindings |-> C, entries |-> E] :
               C \in EvictBindings(d.bindings, E, protected)}
  BY <1>6
<1>8. [bindings |-> d.bindings, entries |-> E] \in Compact(d, time, protected)
  <2> HIDE DEF fresh
  <2>1. Compact(d, time, protected)
          = UNION {{[bindings |-> C, entries |-> F] :
                      C \in EvictBindings(d.bindings, F, protected)} :
                    F \in Evict(fresh, time)}
    BY DEF Compact, fresh
  <2> QED  BY <1>4, <1>7, <2>1
<1> QED  BY <1>8

-----------------------------------------------------------------------------
(* What a journal on the device is *)

Binding == [scope : Scope, at : 1..MaxTime]
AnEntry == {Entry(s, t, c, n) : s \in Scope, t \in Turn, c \in Course,
                                n \in 1..MaxTime}

\* A value that _readData does not throw on, but for the number of its rows.
Legible(d) ==
  /\ d \in [bindings : SUBSET Binding, entries : SUBSET AnEntry]
  /\ IsFiniteSet(d.bindings) /\ IsFiniteSet(d.entries)
  /\ \A e \in d.entries : BindingOf(d, e.scope) # {}
  /\ \A e, f \in d.entries : e.scope = f.scope /\ e.turn = f.turn => e = f
  /\ \A b, c \in d.bindings : b.scope = c.scope => b = c

Fitting(d) ==
  /\ Cardinality(d.entries) <= MaxEntries
  /\ Cardinality(d.bindings) <= MaxBindings

\* The inductive invariant: the sets of rows are finite besides.
JournalInv ==
  /\ Legible(db) /\ Fitting(db)
  /\ poison \in [scopes : SUBSET Scope, all : BOOLEAN]
  /\ now \in 1..MaxTime

LEMMA EntryRow ==
  ASSUME NEW s, NEW t, NEW c, NEW n
  PROVE  /\ Entry(s, t, c, n).scope = s /\ Entry(s, t, c, n).turn = t
         /\ Entry(s, t, c, n).at = n
BY DEF Entry

LEMMA EntryFields ==
  ASSUME NEW e \in AnEntry
  PROVE  e.scope \in Scope /\ e.turn \in Turn /\ e.at \in 1..MaxTime
<1>1. PICK s \in Scope, t \in Turn, c \in Course, n \in 1..MaxTime :
        e = Entry(s, t, c, n)
  BY DEF AnEntry
<1> QED  BY <1>1, EntryRow

LEMMA LegibleRows ==
  ASSUME NEW d, Legible(d)
  PROVE  /\ Rows(d.entries) /\ Rows(d.bindings)
         /\ d.entries \subseteq AnEntry /\ d.bindings \subseteq Binding
<1>1. \A e \in d.entries : e.at \in Int
  BY EntryFields DEF Legible
<1>2. \A b \in d.bindings : b.at \in Int
  BY DEF Legible, Binding
<1> QED  BY <1>1, <1>2 DEF Legible, Rows, Timed

\* Compaction keeps a value legible and makes it fit.
LEMMA CompactLegible ==
  ASSUME NEW d, Legible(d), NEW time, NEW protected,
         NEW f \in Compact(d, time, protected)
  PROVE  Legible(f) /\ Fitting(f)
<1>1. Rows(d.entries) /\ Rows(d.bindings)
  BY LegibleRows
<1>2. /\ f \in [bindings : SUBSET d.bindings, entries : SUBSET d.entries]
      /\ Fitting(f)
      /\ \A b \in d.bindings :
           (\E e \in f.entries : e.scope = b.scope) => b \in f.bindings
  BY <1>1, CompactKeeps DEF Fitting
<1>3. f.bindings \subseteq d.bindings /\ f.entries \subseteq d.entries
  BY <1>2
<1>4. IsFiniteSet(f.bindings) /\ IsFiniteSet(f.entries)
  BY <1>3, FS_Subset DEF Legible
<1>5. \A e \in f.entries : BindingOf(f, e.scope) # {}
  BY <1>2, <1>3 DEF Legible, BindingOf
<1> QED  BY <1>2, <1>3, <1>4, <1>5 DEF Legible

-----------------------------------------------------------------------------
(* The operations *)

\* The later of the clock and the time of a row that is there at most once.
LEMMA CausalTime ==
  ASSUME NEW n \in 1..MaxTime, NEW R, \A x \in R : x.at \in 1..MaxTime,
         \A x, y \in R : x = y
  PROVE  LET m == Causal({n} \cup {x.at : x \in R})
         IN  m \in 1..MaxTime /\ n <= m
<1> DEFINE times == {n} \cup {x.at : x \in R}
<1>1. MaxTime \in Nat
  BY StoreAssumption
<1>2. \E m \in times : \A k \in times : k <= m
  <2>1. CASE R = {}
    BY <1>1, <2>1
  <2>2. CASE R # {}
    <3>1. PICK x \in R : times = {n, x.at}
      BY <2>2
    <3>2. x.at \in 1..MaxTime
      OBVIOUS
    <3> HIDE DEF times
    <3> QED  BY <1>1, <3>1, <3>2
  <2> QED  BY <2>1, <2>2
<1>3. times \subseteq 1..MaxTime
  OBVIOUS
<1>4. Causal(times) \in times /\ \A k \in times : k <= Causal(times)
  <2> HIDE DEF times
  <2> QED  BY <1>2 DEF Causal
<1> QED  BY <1>3, <1>4
LEMMA BindKeeps ==
  ASSUME NEW d, Legible(d), NEW s \in Scope, NEW at \in 1..MaxTime, NEW time,
         NEW f \in UpsertBinding(d, s, at, time)
  PROVE  /\ Legible(f) /\ Fitting(f)
         /\ \A e \in d.entries : Open(e, time) => e \in f.entries
<1> DEFINE row == [scope |-> s, at |-> at]
           g == [d EXCEPT !.bindings = (@ \ BindingOf(d, s)) \cup {row}]
<1>1. f \in Compact(g, time, {s})
  BY DEF UpsertBinding
<1>2. /\ d.bindings \subseteq Binding /\ d.entries \subseteq AnEntry
      /\ d = [bindings |-> d.bindings, entries |-> d.entries]
  BY DEF Legible
<1>3. g = [bindings |-> (d.bindings \ BindingOf(d, s)) \cup {row},
           entries |-> d.entries]
  BY <1>2
<1>4. g.entries = d.entries /\ g.bindings = (d.bindings \ BindingOf(d, s)) \cup {row}
  BY <1>3
<1>5. row \in Binding /\ row.scope = s
  BY DEF Binding
<1> HIDE DEF g, row
<1>6. g \in [bindings : SUBSET Binding, entries : SUBSET AnEntry]
  BY <1>2, <1>3, <1>5
<1>7. IsFiniteSet(g.bindings) /\ IsFiniteSet(g.entries)
  <2>1. IsFiniteSet(d.bindings) /\ IsFiniteSet(d.entries)
    BY DEF Legible
  <2>2. IsFiniteSet(d.bindings \ BindingOf(d, s))
    BY <2>1, FS_Difference
  <2>3. IsFiniteSet((d.bindings \ BindingOf(d, s)) \cup {row})
    BY <2>2, FS_AddElement
  <2> QED  BY <1>4, <2>1, <2>3
<1>8. \A e \in g.entries : BindingOf(g, e.scope) # {}
  BY <1>4, <1>5 DEF Legible, BindingOf
<1>9. \A b, c \in g.bindings : b.scope = c.scope => b = c
  BY <1>4, <1>5 DEF Legible, BindingOf
<1>10. Legible(g)
  BY <1>4, <1>6, <1>7, <1>8, <1>9 DEF Legible
<1>11. Rows(g.entries) /\ Rows(g.bindings)
  BY <1>10, LegibleRows
<1> QED  BY <1>1, <1>4, <1>10, <1>11, CompactLegible, CompactKeeps

\* The entries of a prompt in a chat, at most one of them.
Former(d, s, t) == {e \in EntriesOf(d, s) : e.turn = t}

LEMMA SaveKeeps ==
  ASSUME NEW d, Legible(d), NEW s \in Scope, NEW t \in Turn, NEW c \in Course,
         NEW at \in 1..MaxTime, NEW time, NEW f \in Upsert(d, Entry(s, t, c, at), time)
  PROVE  /\ Legible(f) /\ Fitting(f)
         /\ \A e \in d.entries :
              Open(e, time) /\ e \notin Former(d, s, t) => e \in f.entries
<1> DEFINE row == Entry(s, t, c, at)
           g == [d EXCEPT !.entries = (@ \ Former(d, s, t)) \cup {row}]
<1>0. row \in AnEntry /\ row.scope = s /\ row.turn = t
  BY EntryRow DEF AnEntry
<1>1. f \in Compact(g, time, {}) /\ BindingOf(d, s) # {}
  <2> HIDE DEF row
  <2> QED  BY <1>0 DEF Upsert, Former, row
<1>2. /\ d.bindings \subseteq Binding /\ d.entries \subseteq AnEntry
      /\ d = [bindings |-> d.bindings, entries |-> d.entries]
  BY DEF Legible
<1>3. g = [bindings |-> d.bindings,
           entries |-> (d.entries \ Former(d, s, t)) \cup {row}]
  BY <1>2
<1>4. /\ g.bindings = d.bindings
      /\ g.entries = (d.entries \ Former(d, s, t)) \cup {row}
  BY <1>3
<1> HIDE DEF g, row
<1>6. g \in [bindings : SUBSET Binding, entries : SUBSET AnEntry]
  BY <1>0, <1>2, <1>3
<1>7. IsFiniteSet(g.bindings) /\ IsFiniteSet(g.entries)
  <2>1. IsFiniteSet(d.entries) /\ IsFiniteSet(d.bindings)
    BY DEF Legible
  <2>2. IsFiniteSet(d.entries \ Former(d, s, t))
    BY <2>1, FS_Difference
  <2>3. IsFiniteSet((d.entries \ Former(d, s, t)) \cup {row})
    BY <2>2, FS_AddElement
  <2> QED  BY <1>4, <2>1, <2>3
<1>8. \A e \in g.entries : BindingOf(g, e.scope) # {}
  BY <1>0, <1>1, <1>4 DEF Legible, BindingOf
<1>9. \A e, h \in g.entries : e.scope = h.scope /\ e.turn = h.turn => e = h
  BY <1>0, <1>4 DEF Legible, Former, EntriesOf
<1>10. Legible(g)
  BY <1>4, <1>6, <1>7, <1>8, <1>9 DEF Legible
<1>11. Rows(g.entries) /\ Rows(g.bindings)
  BY <1>10, LegibleRows
<1>12. /\ Legible(f) /\ Fitting(f)
       /\ \A e \in g.entries : Open(e, time) => e \in f.entries
  BY <1>1, <1>10, <1>11, CompactLegible, CompactKeeps
<1> QED  BY <1>4, <1>12

\* An update needs no room: what replaces the entry of a prompt is kept.
LEMMA UpdateStays ==
  ASSUME NEW d, Legible(d), Fitting(d), NEW s \in Scope, NEW t \in Turn,
         NEW c \in Course, NEW at \in 1..MaxTime, NEW time \in 1..MaxTime,
         time <= at, Former(d, s, t) # {},
         NEW f \in Upsert(d, Entry(s, t, c, at), time)
  PROVE  \E e \in f.entries : e.turn = t
<1> DEFINE row == Entry(s, t, c, at)
           g == [d EXCEPT !.entries = (@ \ Former(d, s, t)) \cup {row}]
           fresh == {e \in g.entries : ~ Expired(e, time)}
<1>1. row.scope = s /\ row.turn = t /\ row.at = at
  BY EntryRow
<1>2. f \in Compact(g, time, {})
  <2> HIDE DEF row
  <2> QED  BY <1>1 DEF Upsert, Former, row
<1>3. g.entries = (d.entries \ Former(d, s, t)) \cup {row}
  BY DEF Legible
<1>4. /\ Rows(d.entries) /\ Cardinality(d.entries) \in Nat
      /\ Cardinality(d.entries) <= MaxEntries /\ MaxEntries \in Nat
  BY LegibleRows, PartIsRows, JournalAssumption DEF Fitting
<1> HIDE DEF g, row
<1>5. Cardinality(fresh) <= MaxEntries
  <2> DEFINE L == Former(d, s, t)
             E == d.entries
  <2>1. IsFiniteSet(E) /\ L \subseteq E /\ E \cap L = L /\ L # {}
    BY <1>4 DEF Rows, Former, EntriesOf
  <2>2. IsFiniteSet(L) /\ Cardinality(L) \in Nat /\ Cardinality(L) # 0
    BY <2>1, FS_Subset, FS_CardinalityType, FS_EmptySet
  <2>3. /\ IsFiniteSet(E \ L) /\ Cardinality(E \ L) \in Nat
        /\ Cardinality(E \ L) = Cardinality(E) - Cardinality(E \cap L)
    BY <2>1, FS_Difference, FS_CardinalityType
  <2>4. Cardinality(E \ L) = Cardinality(E) - Cardinality(L)
    BY <2>1, <2>3
  <2>5. /\ IsFiniteSet((E \ L) \cup {row})
        /\ Cardinality((E \ L) \cup {row}) <= Cardinality(E \ L) + 1
    BY <2>3, AddedRow
  <2>6. /\ fresh \subseteq (E \ L) \cup {row}
        /\ Cardinality((E \ L) \cup {row}) \in Nat
    BY <1>3, <2>5, FS_CardinalityType
  <2>7. /\ Cardinality(fresh) \in Nat
        /\ Cardinality(fresh) <= Cardinality((E \ L) \cup {row})
    <3> HIDE DEF fresh
    <3> QED  BY <2>5, <2>6, FS_Subset, FS_CardinalityType
  <2> HIDE DEF E, L, fresh
  <2>8. Cardinality(E) <= MaxEntries /\ Cardinality(E) \in Nat
    BY <1>4 DEF E
  <2> QED  BY <1>4, <2>2, <2>4, <2>5, <2>6, <2>7, <2>8
<1>6. Evict(fresh, time) = {fresh}
  <2>1. Cardinality(fresh) \in Nat
    <3>1. IsFiniteSet(g.entries)
      <4>1. IsFiniteSet(d.entries \ Former(d, s, t))
        BY <1>4, FS_Difference DEF Rows
      <4> QED  BY <1>3, <4>1, AddedRow
    <3> QED  BY <3>1, FS_Subset, FS_CardinalityType
  <2>2. Cardinality(fresh) - MaxEntries <= 0
    <3> HIDE DEF fresh
    <3> QED  BY <1>4, <1>5, <2>1
  <2> QED  BY <2>2 DEF Evict
<1>7. row \in fresh
  <2>1. ~ (time - at > TerminalRetention)
    BY JournalAssumption, StoreAssumption
  <2> QED  BY <1>1, <1>3, <2>1 DEF Expired
<1>8. f.entries = fresh
  <2>1. PICK E \in Evict(fresh, time) :
          \E C \in EvictBindings(g.bindings, E, {}) :
            f = [bindings |-> C, entries |-> E]
    BY <1>2 DEF Compact
  <2> HIDE DEF fresh
  <2>2. E = fresh
    BY <1>6, <2>1
  <2> QED  BY <2>1, <2>2
<1> QED  BY <1>1, <1>7, <1>8

LEMMA ForgetKeeps ==
  ASSUME NEW d, Legible(d), Fitting(d), NEW s, NEW t
  PROVE  LET f == Discard(d, s, t)
         IN  /\ Legible(f) /\ Fitting(f)
             /\ \A e \in d.entries : e.turn # t => e \in f.entries
<1> DEFINE f == Discard(d, s, t)
<1>1. f = [bindings |-> d.bindings,
           entries |-> {e \in d.entries : e.scope # s \/ e.turn # t}]
  <2> DEFINE rest == {e \in d.entries : e.scope # s \/ e.turn # t}
  <2>1. f = [d EXCEPT !.entries = rest]
    BY DEF Discard
  <2> HIDE DEF f, rest
  <2>2. f = [bindings |-> d.bindings, entries |-> rest]
    BY <2>1 DEF Legible
  <2> QED  BY <2>2 DEF rest
<1>2. /\ f.bindings = d.bindings /\ f.entries \subseteq d.entries
      /\ \A e \in d.entries : e.turn # t => e \in f.entries
  BY <1>1
<1> HIDE DEF f
<1>3. f \in [bindings : SUBSET Binding, entries : SUBSET AnEntry]
  BY <1>1 DEF Legible
<1>4. IsFiniteSet(f.entries) /\ Cardinality(f.entries) <= Cardinality(d.entries)
      /\ Cardinality(f.entries) \in Nat /\ Cardinality(d.entries) \in Nat
  BY <1>2, LegibleRows, PartIsRows DEF Rows
<1>5. Legible(f)
  BY <1>2, <1>3, <1>4 DEF Legible, BindingOf
<1>6. Cardinality(f.entries) <= MaxEntries
  BY <1>4, JournalAssumption DEF Fitting
<1>7. Fitting(f)
  BY <1>2, <1>6 DEF Fitting
<1> QED  BY <1>2, <1>5, <1>7 DEF f

\* A chat that failed stays failed, and the failing one becomes so.
LEMMA PoisonRecorded ==
  ASSUME NEW q \in [scopes : SUBSET Scope, all : BOOLEAN], NEW s \in Scope
  PROVE  LET r == RecordPoison(q, s)
         IN  /\ r \in [scopes : SUBSET Scope, all : BOOLEAN]
             /\ Poisoned(r, s)
             /\ \A u \in Scope : Poisoned(q, u) => Poisoned(r, u)
BY DEF RecordPoison, Poisoned

-----------------------------------------------------------------------------
(* The invariant *)

LEMMA JournalInit ==
  Init => JournalInv
<1> SUFFICES ASSUME Init  PROVE  JournalInv
  OBVIOUS
<1>1. IsFiniteSet({}) /\ Cardinality({}) = 0
  BY FS_EmptySet
<1>2. Legible(db) /\ Fitting(db)
  BY <1>1, JournalAssumption DEF Init, EmptyJournal, Legible, Fitting
<1> QED  BY <1>2, StoreAssumption DEF Init, JournalInv, NoPoison

\* The journal as each operation leaves it; those prompts whose fate is open
\* stay in it but for the one that is removed or replaced.
LEMMA BindStep ==
  ASSUME JournalInv, NEW s \in Scope, Bind(s)
  PROVE  /\ Legible(db') /\ Fitting(db')
         /\ \A e \in db.entries : Open(e, now) => e \in db'.entries
<1> DEFINE R == BindingOf(db, s)
           at == Causal({now} \cup {b.at : b \in R})
<1>1. /\ \A b \in R : b.at \in 1..MaxTime
      /\ \A b, c \in R : b = c
  BY LegibleRows DEF JournalInv, Legible, BindingOf, Binding
<1>2. at \in 1..MaxTime
  <2> HIDE DEF R
  <2> QED  BY <1>1, CausalTime DEF JournalInv
<1>3. db' \in UpsertBinding(db, s, at, now)
  BY DEF Bind
<1> HIDE DEF at
<1> QED  BY <1>2, <1>3, BindKeeps DEF JournalInv

LEMMA SaveStep ==
  ASSUME JournalInv, NEW t \in Turn, NEW c \in Course, Save(t, c)
  PROVE  /\ Legible(db') /\ Fitting(db')
         /\ \A e \in db.entries :
              Open(e, now) => \E f \in db'.entries : f.turn = e.turn
<1> DEFINE s == ScopeOf[t]
           R == Former(db, s, t)
           at == Causal({now} \cup {e.at : e \in R})
<1>1. /\ \A e \in R : e.at \in 1..MaxTime
      /\ \A e, f \in R : e = f
  BY EntryFields DEF JournalInv, Legible, Former, EntriesOf
<1>2. at \in 1..MaxTime /\ now <= at
  <2> HIDE DEF R
  <2> QED  BY <1>1, CausalTime DEF JournalInv
<1>3. db' \in Upsert(db, Entry(s, t, c, at), now) /\ s \in Scope
  BY StoreAssumption DEF Save, Former
<1> HIDE DEF at, s
<1>4. /\ Legible(db') /\ Fitting(db')
      /\ \A e \in db.entries :
           Open(e, now) /\ e \notin Former(db, s, t) => e \in db'.entries
  BY <1>2, <1>3, SaveKeeps DEF JournalInv
<1>5. ASSUME NEW e \in Former(db, s, t)
      PROVE  \E f \in db'.entries : f.turn = t
  BY <1>2, <1>3, <1>5, UpdateStays DEF JournalInv
<1>6. \A e \in Former(db, s, t) : e.turn = t
  BY DEF Former
<1> QED  BY <1>4, <1>5, <1>6
LEMMA ForgetStep ==
  ASSUME JournalInv, NEW t \in Turn, Forget(t)
  PROVE  /\ Legible(db') /\ Fitting(db')
         /\ \A e \in db.entries : e.turn # t => e \in db'.entries
<1>1. Legible(db) /\ Fitting(db) /\ db' = Discard(db, ScopeOf[t], t)
  BY DEF JournalInv, Forget
<1> QED  BY <1>1, ForgetKeeps, Zenon

LEMMA JournalNext ==
  ASSUME JournalInv, [Next]_vars
  PROVE  JournalInv'
<1> USE DEF JournalInv
<1>1. ASSUME NEW s \in Scope, Bind(s)  PROVE  JournalInv'
  BY <1>1, BindStep DEF Bind
<1>2. ASSUME NEW s \in Scope, Poison(s)  PROVE  JournalInv'
  <2>1. poison' \in [scopes : SUBSET Scope, all : BOOLEAN]
    BY <1>2, PoisonRecorded, Zenon DEF Poison
  <2> QED  BY <1>2, <2>1 DEF Poison
<1>3. ASSUME NEW t \in Turn, Forget(t)  PROVE  JournalInv'
  BY <1>3, ForgetStep DEF Forget
<1>4. ASSUME NEW t \in Turn, NEW c \in Course, Save(t, c)  PROVE  JournalInv'
  BY <1>4, SaveStep DEF Save
<1>5. CASE Restart
  BY <1>5 DEF Restart, NoPoison
<1>6. CASE ClockChange
  BY <1>6 DEF ClockChange
<1>7. CASE UNCHANGED vars
  BY <1>7 DEF vars
<1> QED  BY <1>1, <1>2, <1>3, <1>4, <1>5, <1>6, <1>7 DEF Next

\* In every reachable state the journal is legible, fits, and has finitely many
\* rows; the clock and the failures have their types.
THEOREM JournalInvariant ==
  Spec => []JournalInv
<1>1. Init => JournalInv
  BY JournalInit
<1>2. JournalInv /\ [Next]_vars => JournalInv'
  BY JournalNext
<1> QED  BY <1>1, <1>2, PTL DEF Spec

-----------------------------------------------------------------------------
(* What a chat may rely on *)

\* The variables of the shared journal have their types.
THEOREM JournalTypes ==
  Spec => []TypeOK
<1>1. JournalInv => TypeOK
  BY DEF JournalInv, Legible, Binding, AnEntry, TypeOK
<1> QED  BY <1>1, JournalInvariant, PTL

\* Whatever the chats of a device bind, save and remove, and however the clock
\* is set, the journal that was written last can be read again.
THEOREM JournalStaysReadable ==
  Spec => []Readable
<1>1. JournalInv => Readable
  BY DEF JournalInv, Legible, Fitting, Readable
<1> QED  BY <1>1, JournalInvariant, PTL

\* No step but its removal takes a prompt out of the journal while its fate is
\* open: compaction finds room elsewhere or refuses the new row.
THEOREM OpenPromptsAreKept ==
  Spec => PendingIsKept
<1> DEFINE Keeps == \A e \in db.entries :
                      Pending(e) => \/ \E f \in db'.entries : f.turn = e.turn
                                    \/ Forget(e.turn)
<1>1. ASSUME JournalInv, Next  PROVE  Keeps
  <2> SUFFICES ASSUME NEW e \in db.entries, Pending(e)
               PROVE  \/ \E f \in db'.entries : f.turn = e.turn
                      \/ Forget(e.turn)
    OBVIOUS
  <2>0. Open(e, now)
    BY DEF Pending, Open
  <2>1. ASSUME NEW s \in Scope, Bind(s)  PROVE  e \in db'.entries
    BY <1>1, <2>0, <2>1, BindStep
  <2>2. ASSUME NEW t \in Turn, Forget(t)
        PROVE  e \in db'.entries \/ Forget(e.turn)
    BY <1>1, <2>2, ForgetStep
  <2>3. ASSUME NEW t \in Turn, NEW c \in Course, Save(t, c)
        PROVE  \E f \in db'.entries : f.turn = e.turn
    BY <1>1, <2>0, <2>3, SaveStep
  <2>4. ASSUME UNCHANGED db  PROVE  e \in db'.entries
    BY <2>4
  <2> QED
    BY <1>1, <2>1, <2>2, <2>3, <2>4 DEF Next, Poison, Restart, ClockChange
<1>2. JournalInv /\ [Next]_vars => [Keeps]_vars
  BY <1>1
<1> QED  BY <1>2, JournalInvariant, PTL DEF Spec, PendingIsKept

\* A chat that failed without a record of it counts as failed until the process
\* ends, however many others fail after it.
THEOREM FailuresAreNeverForgotten ==
  Spec => PoisonAbsorbs
<1> DEFINE Absorbs ==
             \A scope \in Scope :
               /\ Poisoned(poison, scope) => Poisoned(poison', scope) \/ Restart
               /\ Poison(scope) => Poisoned(poison', scope)
<1>1. ASSUME JournalInv, Next  PROVE  Absorbs
  <2> SUFFICES ASSUME NEW u \in Scope
               PROVE  /\ Poisoned(poison, u) => Poisoned(poison', u) \/ Restart
                      /\ Poison(u) => Poisoned(poison', u)
    OBVIOUS
  <2>1. ASSUME NEW s \in Scope, Poison(s)
        PROVE  /\ Poisoned(poison', s)
               /\ Poisoned(poison, u) => Poisoned(poison', u)
    BY <1>1, <2>1, PoisonRecorded, Zenon DEF Poison, JournalInv
  <2>2. CASE UNCHANGED poison
    BY <2>1, <2>2 DEF Poisoned
  <2>3. CASE Restart
    BY <2>1, <2>3
  <2> QED
    BY <1>1, <2>1, <2>2, <2>3 DEF Next, Bind, Forget, Save, ClockChange
<1>2. JournalInv /\ [Next]_vars =>
        [\A scope \in Scope :
           /\ Poisoned(poison, scope) => Poisoned(poison', scope) \/ Restart
           /\ Poison(scope) => Poisoned(poison', scope)]_vars
  BY <1>1
<1> QED  BY <1>2, JournalInvariant, PTL DEF Spec, PoisonAbsorbs

\* A new prompt of a bound chat is written unless the journal is full of prompts
\* whose fate is open: the quarantined, the given up and the settled make room.
THEOREM NobodyIsLockedOut ==
  Spec => []NoLockout
<1>1. ASSUME JournalInv  PROVE  NoLockout
  <2> SUFFICES ASSUME NEW t \in Turn, BindingOf(db, ScopeOf[t]) # {},
                      \A e \in db.entries : e.turn # t,
                      ~ (Cardinality({e \in db.entries : Pending(e)})
                           >= MaxEntries)
               PROVE  Upsert(db, Entry(ScopeOf[t], t, Submitted, now), now) # {}
    BY DEF NoLockout
  <2> DEFINE row == Entry(ScopeOf[t], t, Submitted, now)
             g == [db EXCEPT !.entries = @ \cup {row}]
             open == {e \in db.entries : Pending(e)}
             stay == {e \in g.entries : Open(e, now)}
  <2>1. /\ Legible(db) /\ Fitting(db) /\ now \in 1..MaxTime
        /\ Rows(db.entries) /\ Rows(db.bindings)
    BY <1>1, LegibleRows DEF JournalInv
  <2>2. row.scope = ScopeOf[t] /\ row.turn = t /\ row.at = now
    BY EntryRow
  <2>3. EntryValid(row)
    BY DEF Entry, Submitted, MarkUncertain, Initial, FailClosed, IsTerminal,
           EntryValid, Terminal, NoResult, None
  <2>4. g.entries = db.entries \cup {row} /\ g.bindings = db.bindings
    BY <2>1 DEF Legible
  <2>5. Upsert(db, row, now) = Compact(g, now, {})
    <3>1. {e \in EntriesOf(db, row.scope) : e.turn = row.turn} = {}
      BY <2>2 DEF EntriesOf
    <3>2. BindingOf(db, row.scope) # {}
      BY <2>2
    <3> HIDE DEF row
    <3>3. (db.entries \ {}) \cup {row} = db.entries \cup {row}
      OBVIOUS
    <3> QED  BY <2>3, <3>1, <3>2, <3>3 DEF Upsert
  <2>6. Rows(g.entries) /\ Rows(g.bindings)
    <3>1. IsFiniteSet(db.entries \cup {row})
      BY <2>1, FS_AddElement DEF Rows
    <3> QED  BY <2>1, <2>2, <2>4, <3>1, StoreAssumption DEF Rows, Timed
  <2> HIDE DEF row, g
  <2>7. stay \subseteq open \cup {row}
    BY <2>4 DEF Open, Pending
  <2>8. /\ IsFiniteSet(open) /\ Cardinality(open) \in Nat
        /\ Cardinality(open) < MaxEntries /\ MaxEntries \in Nat
    <3>1. IsFiniteSet(open) /\ Cardinality(open) \in Nat
      BY <2>1, PartIsRows DEF Rows
    <3> HIDE DEF open
    <3> QED  BY <3>1, JournalAssumption DEF open
  <2>9. Cardinality(stay) <= MaxEntries
    <3> HIDE DEF stay, open
    <3>1. /\ IsFiniteSet(open \cup {row})
          /\ Cardinality(open \cup {row}) <= Cardinality(open) + 1
          /\ Cardinality(open \cup {row}) \in Nat
      BY <2>8, AddedRow, FS_CardinalityType
    <3>2. /\ Cardinality(stay) <= Cardinality(open \cup {row})
          /\ Cardinality(stay) \in Nat
      BY <2>7, <3>1, FS_Subset, FS_CardinalityType
    <3> QED  BY <2>8, <3>1, <3>2
  <2>10. Cardinality(g.bindings) <= MaxBindings
    BY <2>1, <2>4 DEF Fitting
  <2>11. Compact(g, now, {}) # {}
    BY <2>6, <2>9, <2>10, CompactSucceeds
  <2> QED  BY <2>5, <2>11 DEF row
<1>2. JournalInv => NoLockout
  BY <1>1
<1> QED  BY <1>2, JournalInvariant, PTL
=============================================================================
