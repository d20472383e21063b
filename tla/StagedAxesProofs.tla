-------------------------- MODULE StagedAxesProofs --------------------------
(***************************************************************************)
(* What staging keeps of the axes, for every dim, multi-dim and base, and  *)
(* every sequence of calls: places, labels and references, and that the    *)
(* staging tables implement axes edited in place.                          *)
(***************************************************************************)
EXTENDS StagedAxes, LeastNumbers, TLAPS

-----------------------------------------------------------------------------
(* The inductive invariant.                                                *)

Placeds(s) == [label : NamesOf(s), value : Values[s], position : Nat \ {0}]
NewNow(s) == HeldNow(s) \ BaseLabels(s)

\* A label of the base stands at its place there, any other after all of the
\* base, in the order added.
Placing(s) ==
    /\ Rows(s) \subseteq Placeds(s)
    /\ HeldOnce(s)
    /\ \E n \in Nat : \A r \in Rows(s) : r.position <= n
    /\ \A r \in Rows(s) : r.label \in BaseLabels(s) => r.position = BasePlace(s, r.label)
    /\ \A r \in Rows(s) : r.label \notin BaseLabels(s) => Len(BaseAxis(s)) < r.position
    /\ added[s] \subseteq NewNow(s) \X NewNow(s)
    /\ \A r, q \in Rows(s) :
         {r.label, q.label} \cap BaseLabels(s) = {} /\ r.label # q.label
           => (r.position < q.position <=> <<r.label, q.label>> \in added[s])

\* No reference dangles.
Referring ==
    /\ \A r \in Rows(Multi) : HeldTuple(r.label)
    /\ \A s \in Subjects : Refers[s] # NoRef =>
          \A r \in Rows(s) : r.value \in HeldNow(Refers[s]) \cup {NoValue}

Types ==
    /\ base \in Bases
    /\ Staged \subseteq Subjects
    /\ edits \in 0 .. MaxEdits
    /\ DOMAIN added = Subjects

IInv == Types /\ (\A s \in Subjects : Placing(s)) /\ Referring

-----------------------------------------------------------------------------
(* The base: a sequence of distinct labels, each at its place.             *)

LEMMA Based ==
    ASSUME base \in Bases, NEW s \in Subjects
    PROVE  /\ BaseAxis(s) \in Seq(RowsOf(s))
           /\ Len(BaseAxis(s)) \in Nat
           /\ BasePlaces(s) = 1 .. Len(BaseAxis(s))
           /\ BaseLabels(s) \subseteq NamesOf(s)
           /\ \A i \in BasePlaces(s) : BasePlace(s, BaseAxis(s)[i].label) = i
           /\ \A x \in BaseLabels(s) : /\ BasePlace(s, x) \in BasePlaces(s)
                                       /\ BaseAxis(s)[BasePlace(s, x)].label = x
<1>1. /\ BaseAxis(s) \in Seq(RowsOf(s))
      /\ \A i, j \in DOMAIN BaseAxis(s) : BaseAxis(s)[i].label = BaseAxis(s)[j].label => i = j
  BY BasesAssumption DEF Sound, BaseAxis
<1>2. Len(BaseAxis(s)) \in Nat /\ BasePlaces(s) = 1 .. Len(BaseAxis(s))
  BY <1>1 DEF BasePlaces
<1>3. \A i \in BasePlaces(s) : BaseAxis(s)[i].label \in NamesOf(s)
  <2>1. \A i \in BasePlaces(s) : BaseAxis(s)[i] \in RowsOf(s)
    BY <1>1, <1>2
  <2> QED
    BY <2>1 DEF RowsOf
<1>4. \A x \in BaseLabels(s) : /\ BasePlace(s, x) \in BasePlaces(s)
                               /\ BaseAxis(s)[BasePlace(s, x)].label = x
  <2> SUFFICES ASSUME NEW x \in BaseLabels(s)
               PROVE  BasePlace(s, x) \in BasePlaces(s) /\ BaseAxis(s)[BasePlace(s, x)].label = x
    OBVIOUS
  <2>1. \E i \in BasePlaces(s) : BaseAxis(s)[i].label = x
    BY DEF BaseLabels
  <2> QED
    BY <2>1 DEF BasePlace
<1>5. \A i \in BasePlaces(s) : BasePlace(s, BaseAxis(s)[i].label) = i
  <2> SUFFICES ASSUME NEW i \in BasePlaces(s) PROVE BasePlace(s, BaseAxis(s)[i].label) = i
    OBVIOUS
  <2>1. BaseAxis(s)[i].label \in BaseLabels(s)
    BY DEF BaseLabels
  <2> QED
    BY <1>1, <1>4, <2>1 DEF BasePlaces
<1>6. BaseLabels(s) \subseteq NamesOf(s)
  BY <1>3 DEF BaseLabels
<1> QED
  BY <1>1, <1>2, <1>4, <1>5, <1>6

LEMMA BaseKept ==
    ASSUME base' = base, NEW s
    PROVE  /\ BaseAxis(s)' = BaseAxis(s)
           /\ BasePlaces(s)' = BasePlaces(s)
           /\ BaseLabels(s)' = BaseLabels(s)
           /\ Numbered(s)' = Numbered(s)
           /\ \A x : BasePlace(s, x)' = BasePlace(s, x)
  BY DEF BaseAxis, BasePlaces, BaseLabels, Numbered, BasePlace

\* What the rows of the subjects staged become, and of the others.
LEMMA Restaged ==
    ASSUME NEW tables, Stage(tables), base' = base
    PROVE  /\ Staged' = Staged \cup DOMAIN tables
           /\ \A s : Rows(s)' = IF s \in DOMAIN tables THEN tables[s] ELSE Rows(s)
<1>1. Staged' = Staged \cup DOMAIN tables
  BY DEF Stage, Staged
<1>2. ASSUME NEW s PROVE Rows(s)' = IF s \in DOMAIN tables THEN tables[s] ELSE Rows(s)
  <2>1. Numbered(s)' = Numbered(s)
    BY BaseKept
  <2>2. CASE s \in DOMAIN tables
    BY <1>1, <2>2 DEF Rows, Stage
  <2>3. CASE s \notin DOMAIN tables
    BY <1>1, <2>1, <2>3 DEF Rows, Stage
  <2> QED
    BY <2>2, <2>3
<1> QED
  BY <1>1, <1>2

-----------------------------------------------------------------------------
(* Places.                                                                 *)

\* Nothing staged: the base's axis as it is.
LEMMA NumberedPlacing ==
    ASSUME base \in Bases, NEW s \in Subjects, Rows(s) = Numbered(s), added[s] = {}
    PROVE  Placing(s)
<1>1. PICK n \in Nat : n = Len(BaseAxis(s)) /\ BasePlaces(s) = 1 .. n
  BY Based
<1>2. /\ \A i \in 1 .. n : BaseAxis(s)[i] \in RowsOf(s)
      /\ \A i \in 1 .. n : BasePlace(s, BaseAxis(s)[i].label) = i
      /\ \A i \in 1 .. n : BaseAxis(s)[i].label \in BaseLabels(s)
  BY <1>1, Based DEF BaseLabels
<1>3. ASSUME NEW r \in Rows(s)
      PROVE  \E i \in 1 .. n : /\ r = [label |-> BaseAxis(s)[i].label, value |-> BaseAxis(s)[i].value, position |-> i]
                               /\ r.position = i /\ r.label = BaseAxis(s)[i].label
  BY <1>1 DEF Numbered
<1>4. Rows(s) \subseteq Placeds(s)
  BY <1>2, <1>3 DEF Placeds, RowsOf
<1>5. HeldOnce(s)
  <2> SUFFICES ASSUME NEW r \in Rows(s), NEW q \in Rows(s), r.label = q.label PROVE r = q
    BY DEF HeldOnce
  <2>1. PICK i \in 1 .. n : /\ r = [label |-> BaseAxis(s)[i].label, value |-> BaseAxis(s)[i].value, position |-> i]
                            /\ r.label = BaseAxis(s)[i].label
    BY <1>3
  <2>2. PICK j \in 1 .. n : /\ q = [label |-> BaseAxis(s)[j].label, value |-> BaseAxis(s)[j].value, position |-> j]
                            /\ q.label = BaseAxis(s)[j].label
    BY <1>3
  <2>3. i = j
    BY <1>2, <2>1, <2>2
  <2> QED
    BY <2>1, <2>2, <2>3
<1>6. \A r \in Rows(s) : r.position <= n /\ r.label \in BaseLabels(s) /\ r.position = BasePlace(s, r.label)
  BY <1>2, <1>3
<1> QED
  BY <1>4, <1>5, <1>6 DEF Placing

\* Rows removed, or given another value where they stand.
LEMMA StandingPlacing ==
    ASSUME Types, base' = base, NEW s \in Subjects, Placing(s),
           Rows(s)' \subseteq Placeds(s), HeldOnce(s)',
           \A q \in Rows(s)' : \E r \in Rows(s) : q.label = r.label /\ q.position = r.position,
           added'[s] = Among(added[s], HeldNow(s)')
    PROVE  Placing(s)'
<1>1. BaseLabels(s)' = BaseLabels(s) /\ BaseAxis(s)' = BaseAxis(s) /\ \A x : BasePlace(s, x)' = BasePlace(s, x)
  BY BaseKept
<1>2. added'[s] \subseteq NewNow(s)' \X NewNow(s)'
  BY <1>1 DEF Placing, Among, NewNow
<1>3. ASSUME NEW r \in Rows(s)', NEW q \in Rows(s)',
             {r.label, q.label} \cap BaseLabels(s) = {}, r.label # q.label
      PROVE  r.position < q.position <=> <<r.label, q.label>> \in added'[s]
  <2>1. {r.label, q.label} \subseteq HeldNow(s)'
    BY DEF HeldNow
  <2>2. <<r.label, q.label>> \in added'[s] <=> <<r.label, q.label>> \in added[s]
    BY <2>1 DEF Among
  <2>3. r.position < q.position <=> <<r.label, q.label>> \in added[s]
    BY <1>3 DEF Placing
  <2> QED
    BY <2>2, <2>3
<1>4. \E n \in Nat : \A q \in Rows(s)' : q.position <= n
  BY DEF Placing
<1>5. \A q \in Rows(s)' : /\ q.label \in BaseLabels(s) => q.position = BasePlace(s, q.label)
                          /\ q.label \notin BaseLabels(s) => Len(BaseAxis(s)) < q.position
  BY DEF Placing
<1> QED
  BY <1>1, <1>2, <1>3, <1>4, <1>5 DEF Placing, Placeds

\* What Last finds: a number no row and no place of the base is above.
LEMMA LastIs ==
    ASSUME base \in Bases, NEW s \in Subjects, Placing(s)
    PROVE  /\ Last(s) \in Nat
           /\ \A r \in Rows(s) : r.position <= Last(s)
           /\ Len(BaseAxis(s)) <= Last(s)
<1> DEFINE taken == {r.position : r \in Rows(s)} \cup {Len(BaseAxis(s))}
<1>1. Len(BaseAxis(s)) \in Nat
  BY Based
<1>2. PICK n \in Nat : \A r \in Rows(s) : r.position <= n
  BY DEF Placing
<1>3. \A r \in Rows(s) : r.position \in Nat
  BY DEF Placing, Placeds
<1>4. PICK b \in Nat : n <= b /\ Len(BaseAxis(s)) <= b
  BY <1>1
<1>5. \A k \in taken : k \in Nat /\ k <= b
  BY <1>1, <1>2, <1>3, <1>4
<1>6. \E p \in taken : \A q \in taken : q <= p
  BY <1>5, Greatest
<1>7. Last(s) \in taken /\ \A q \in taken : q <= Last(s)
  BY <1>6 DEF Last
<1> QED
  BY <1>1, <1>3, <1>7

\* Where a label given to `add` goes.
LEMMA PlacedIs ==
    ASSUME NEW s, NEW names, NEW i
    PROVE  /\ names[i] \in HeldNow(s) =>
                \E r \in Rows(s) : r.label = names[i] /\ Placed(s, names, i) = r.position
           /\ names[i] \notin HeldNow(s) /\ names[i] \in BaseLabels(s) =>
                Placed(s, names, i) = BasePlace(s, names[i])
           /\ names[i] \notin HeldNow(s) \cup BaseLabels(s) => Placed(s, names, i) = Last(s) + i
  BY DEF Placed, HeldNow

\* Labels added, or added again.
LEMMA InsertedPlacing ==
    ASSUME Types, base' = base, NEW s \in Subjects, Placing(s),
           NEW names \in Seq(NamesOf(s)), \A i, j \in DOMAIN names : names[i] = names[j] => i = j,
           NEW value \in Values[s],
           Rows(s)' = Inserted(s, names, value),
           added'[s] = added[s] \cup Later(s, names)
    PROVE  Placing(s)' /\ HeldNow(s)' = HeldNow(s) \cup {names[i] : i \in DOMAIN names}
<1>1. BaseLabels(s)' = BaseLabels(s) /\ BaseAxis(s)' = BaseAxis(s) /\ \A x : BasePlace(s, x)' = BasePlace(s, x)
  BY BaseKept
<1>2. PICK n, last, b : n = Len(names) /\ last = Last(s) /\ b = Len(BaseAxis(s))
  OBVIOUS
<1>3. /\ n \in Nat /\ last \in Nat /\ b \in Nat /\ b <= last /\ DOMAIN names = 1 .. n
      /\ \A r \in Rows(s) : r.position <= last /\ r.position \in Nat \ {0}
      /\ \A x \in BaseLabels(s) : BasePlace(s, x) \in 1 .. b
  BY <1>2, LastIs, Based DEF Types, Placing, Placeds
<1>4. \A i \in 1 .. n : names[i] \in NamesOf(s)
  BY <1>2
<1>5. ASSUME NEW i \in 1 .. n
      PROVE  /\ Placed(s, names, i) \in Nat \ {0} /\ Placed(s, names, i) <= last + n
             /\ names[i] \in BaseLabels(s) => Placed(s, names, i) = BasePlace(s, names[i])
             /\ names[i] \notin BaseLabels(s) => b < Placed(s, names, i)
  <2>1. CASE names[i] \in HeldNow(s)
    <3>1. PICK r \in Rows(s) : r.label = names[i] /\ Placed(s, names, i) = r.position
      BY <2>1, PlacedIs
    <3>2. /\ r.label \in BaseLabels(s) => r.position = BasePlace(s, r.label)
          /\ r.label \notin BaseLabels(s) => b < r.position
      BY <1>2 DEF Placing
    <3> QED
      BY <1>3, <3>1, <3>2
  <2>2. CASE names[i] \notin HeldNow(s) /\ names[i] \in BaseLabels(s)
    BY <1>3, <2>2, PlacedIs
  <2>3. CASE names[i] \notin HeldNow(s) \cup BaseLabels(s)
    BY <1>2, <1>3, <2>3, PlacedIs
  <2> QED
    BY <2>1, <2>2, <2>3
<1>6. ASSUME NEW r \in Rows(s)'
      PROVE  \/ r \in Rows(s) /\ \A i \in 1 .. n : names[i] # r.label
             \/ \E i \in 1 .. n : /\ r = [label |-> names[i], value |-> value, position |-> Placed(s, names, i)]
                                  /\ r.label = names[i] /\ r.position = Placed(s, names, i)
  BY <1>3 DEF Inserted
<1>7. HeldNow(s)' = HeldNow(s) \cup {names[i] : i \in DOMAIN names}
  <2>1. ASSUME NEW i \in 1 .. n PROVE \E r \in Rows(s)' : r.label = names[i]
    <3>1. [label |-> names[i], value |-> value, position |-> Placed(s, names, i)] \in Rows(s)'
      BY <1>3 DEF Inserted
    <3> QED
      BY <3>1
  <2>2. \A r \in Rows(s) : (\A i \in 1 .. n : names[i] # r.label) => r \in Rows(s)'
    BY <1>3 DEF Inserted
  <2>3. \A r \in Rows(s)' : r.label \in HeldNow(s) \cup {names[i] : i \in 1 .. n}
    BY <1>6 DEF HeldNow
  <2>4. HeldNow(s)' = {r.label : r \in Rows(s)'}
    BY DEF HeldNow
  <2>5. \A x \in HeldNow(s) : x \in HeldNow(s)'
    <3> SUFFICES ASSUME NEW r \in Rows(s) PROVE r.label \in HeldNow(s)'
      BY DEF HeldNow
    <3>1. CASE \E i \in 1 .. n : names[i] = r.label
      BY <2>1, <2>4, <3>1
    <3>2. CASE \A i \in 1 .. n : names[i] # r.label
      BY <2>2, <2>4, <3>2
    <3> QED
      BY <3>1, <3>2
  <2>6. \A i \in 1 .. n : names[i] \in HeldNow(s)'
    BY <2>1, <2>4
  <2> QED
    BY <1>3, <2>3, <2>4, <2>5, <2>6
<1>8. Rows(s)' \subseteq Placeds(s)
  BY <1>4, <1>5, <1>6 DEF Placing, Placeds
<1>9. HeldOnce(s)'
  <2> SUFFICES ASSUME NEW r \in Rows(s)', NEW q \in Rows(s)', r.label = q.label PROVE r = q
    BY DEF HeldOnce
  <2>1. CASE r \in Rows(s) /\ q \in Rows(s)
    BY <2>1 DEF Placing, HeldOnce
  <2>2. CASE ~ (r \in Rows(s) /\ q \in Rows(s))
    BY <1>3, <1>6, <2>2
  <2> QED
    BY <2>1, <2>2
<1>10. \A r \in Rows(s)' : r.position <= last + n
  BY <1>3, <1>5, <1>6
<1>11. \A r \in Rows(s)' : /\ r.label \in BaseLabels(s) => r.position = BasePlace(s, r.label)
                           /\ r.label \notin BaseLabels(s) => b < r.position
  BY <1>2, <1>5, <1>6 DEF Placing
<1>12. added'[s] \subseteq NewNow(s)' \X NewNow(s)'
  <2>1. NewNow(s)' = HeldNow(s)' \ BaseLabels(s)
    BY <1>1 DEF NewNow
  <2>2. Later(s, names) \subseteq NewNow(s)' \X NewNow(s)'
    BY <1>7, <2>1 DEF Later, New
  <2>3. NewNow(s) \subseteq NewNow(s)'
    BY <1>7, <2>1 DEF NewNow
  <2> QED
    BY <2>2, <2>3 DEF Placing
<1>13. ASSUME NEW r \in Rows(s)', NEW q \in Rows(s)',
              {r.label, q.label} \cap BaseLabels(s) = {}, r.label # q.label
       PROVE  r.position < q.position <=> <<r.label, q.label>> \in added'[s]
  <2>1. ASSUME NEW y \in Rows(s)', y.label \notin BaseLabels(s), y.label \in HeldNow(s)
        PROVE  \E x \in Rows(s) : x.label = y.label /\ x.position = y.position
    BY <1>6, <2>1, PlacedIs
  <2>2. ASSUME NEW y \in Rows(s)', y.label \notin BaseLabels(s), y.label \notin HeldNow(s)
        PROVE  \E i \in New(s, names) : i \in 1 .. n /\ y.label = names[i] /\ y.position = last + i
    <3>1. y \notin Rows(s)
      BY <2>2 DEF HeldNow
    <3>2. PICK i \in 1 .. n : y.label = names[i] /\ y.position = Placed(s, names, i)
      BY <1>6, <3>1
    <3> QED
      BY <1>2, <1>3, <2>2, <3>2, PlacedIs DEF New
  <2>3. ASSUME NEW x, NEW y
        PROVE  <<x, y>> \in added'[s] <=>
                 \/ <<x, y>> \in added[s]
                 \/ x \in NewNow(s) /\ \E j \in New(s, names) : y = names[j]
                 \/ \E i, j \in New(s, names) : i < j /\ x = names[i] /\ y = names[j]
    <3> DEFINE A == {names[i] : i \in New(s, names)}
               P == {p \in New(s, names) \X New(s, names) : p[1] < p[2]}
               B == {<<names[p[1]], names[p[2]]>> : p \in P}
    <3>1. <<x, y>> \in added'[s] <=> <<x, y>> \in added[s] \/ <<x, y>> \in NewNow(s) \X A \/ <<x, y>> \in B
      BY DEF Later, NewNow
    <3>2. <<x, y>> \in NewNow(s) \X A <=> x \in NewNow(s) /\ \E j \in New(s, names) : y = names[j]
      OBVIOUS
    <3>3. ASSUME <<x, y>> \in B
          PROVE  \E i, j \in New(s, names) : i < j /\ x = names[i] /\ y = names[j]
      <4>1. PICK p \in P : <<x, y>> = <<names[p[1]], names[p[2]]>>
        BY <3>3
      <4>2. p[1] \in New(s, names) /\ p[2] \in New(s, names) /\ p[1] < p[2]
        OBVIOUS
      <4> QED
        BY <4>1, <4>2
    <3>4. ASSUME NEW i \in New(s, names), NEW j \in New(s, names), i < j, x = names[i], y = names[j]
          PROVE  <<x, y>> \in B
      <4>1. <<i, j>> \in P /\ <<i, j>>[1] = i /\ <<i, j>>[2] = j
        BY <3>4
      <4> QED
        BY <3>4, <4>1
    <3> QED
      BY <3>1, <3>2, <3>3, <3>4
  <2>4. \A x, y : <<x, y>> \in added[s] => x \in HeldNow(s) /\ y \in HeldNow(s)
    BY DEF Placing, NewNow
  <2>5. \A j \in New(s, names) : j \in 1 .. n /\ names[j] \notin HeldNow(s)
    BY <1>3 DEF New
  <2>6. r.label \notin BaseLabels(s) /\ q.label \notin BaseLabels(s)
    BY <1>13
  <2>7. CASE r.label \in HeldNow(s) /\ q.label \in HeldNow(s)
    <3>1. PICK x \in Rows(s), y \in Rows(s) : /\ x.label = r.label /\ x.position = r.position
                                              /\ y.label = q.label /\ y.position = q.position
      BY <2>1, <2>6, <2>7
    <3>2. r.position < q.position <=> <<r.label, q.label>> \in added[s]
      BY <1>13, <3>1 DEF Placing
    <3> QED
      BY <2>3, <2>5, <2>7, <3>2
  <2>8. CASE r.label \in HeldNow(s) /\ q.label \notin HeldNow(s)
    <3>1. PICK j \in New(s, names) : j \in 1 .. n /\ q.label = names[j] /\ q.position = last + j
      BY <2>2, <2>6, <2>8
    <3>2. r.position < q.position
      BY <1>3, <2>1, <2>6, <2>8, <3>1
    <3> QED
      BY <2>3, <2>6, <2>8, <3>1, <3>2 DEF NewNow
  <2>9. CASE r.label \notin HeldNow(s) /\ q.label \in HeldNow(s)
    <3>1. PICK i \in New(s, names) : i \in 1 .. n /\ r.label = names[i] /\ r.position = last + i
      BY <2>2, <2>6, <2>9
    <3>2. ~ (r.position < q.position)
      BY <1>3, <2>1, <2>6, <2>9, <3>1
    <3> QED
      BY <2>3, <2>4, <2>5, <2>9, <3>2 DEF NewNow
  <2>10. CASE r.label \notin HeldNow(s) /\ q.label \notin HeldNow(s)
    <3>1. PICK i \in New(s, names), j \in New(s, names) :
              /\ i \in 1 .. n /\ r.label = names[i] /\ r.position = last + i
              /\ j \in 1 .. n /\ q.label = names[j] /\ q.position = last + j
      BY <2>2, <2>6, <2>10
    <3>2. r.position < q.position <=> i < j
      BY <1>3, <3>1
    <3>3. \A k \in New(s, names) : (names[k] = names[i] => k = i) /\ (names[k] = names[j] => k = j)
      BY <1>3, <2>5, <3>1
    <3>4. <<r.label, q.label>> \in added'[s] <=> i < j
      <4>1. r.label \notin NewNow(s) /\ <<r.label, q.label>> \notin added[s]
        BY <2>4, <2>10 DEF NewNow
      <4>2. <<r.label, q.label>> \in added'[s] <=>
              \E k, l \in New(s, names) : k < l /\ r.label = names[k] /\ q.label = names[l]
        BY <2>3, <4>1
      <4> QED
        BY <3>1, <3>3, <4>2
    <3> QED
      BY <3>2, <3>4
  <2> QED
    BY <2>7, <2>8, <2>9, <2>10
<1>14. last + n \in Nat
  BY <1>3
<1> QED
  BY <1>1, <1>2, <1>7, <1>8, <1>9, <1>10, <1>11, <1>12, <1>13, <1>14 DEF Placing, Placeds

LEMMA OtherPlacing ==
    ASSUME base' = base, NEW s \in Subjects, Placing(s), Rows(s)' = Rows(s), added'[s] = added[s]
    PROVE  Placing(s)'
<1>1. BaseLabels(s)' = BaseLabels(s) /\ BaseAxis(s)' = BaseAxis(s) /\ \A x : BasePlace(s, x)' = BasePlace(s, x)
  BY BaseKept
<1>2. NewNow(s)' = NewNow(s)
  BY <1>1 DEF NewNow, HeldNow
<1> QED
  BY <1>1, <1>2 DEF Placing, Placeds, HeldOnce

-----------------------------------------------------------------------------
(* The steps.                                                              *)

LEMMA AddStep ==
    ASSUME IInv, edits < MaxEdits, NEW s \in Subjects, NEW names \in Calls[s], NEW value \in Values[s],
           LiveValue(s, value), s = Multi => \A i \in DOMAIN names : HeldTuple(names[i]),
           AddRows(s, names, value)
    PROVE  IInv'
<1>1. /\ Rows(s)' = Inserted(s, names, value)
      /\ \A u : u # s => Rows(u)' = Rows(u)
      /\ Staged' = Staged \cup {s}
  BY Restaged DEF AddRows
<1>2. base' = base /\ edits' = edits + 1
  BY DEF AddRows
<1>3. Types'
  BY <1>1, <1>2, EditsAssumption DEF IInv, Types, AddRows
<1>4. added'[s] = added[s] \cup Later(s, names) /\ \A u \in Subjects \ {s} : added'[u] = added[u]
  BY DEF AddRows, IInv, Types
<1>5. names \in Seq(NamesOf(s)) /\ \A i, j \in DOMAIN names : names[i] = names[j] => i = j
  BY CallsAssumption
<1>6. Placing(s)' /\ HeldNow(s)' = HeldNow(s) \cup {names[i] : i \in DOMAIN names}
  BY <1>1, <1>2, <1>4, <1>5, InsertedPlacing DEF IInv
<1>7. \A u \in Subjects \ {s} : Placing(u)'
  BY <1>1, <1>2, <1>4, OtherPlacing DEF IInv
<1>8. \A u : HeldNow(u) \subseteq HeldNow(u)'
  <2>1. \A u : u # s => HeldNow(u)' = HeldNow(u)
    BY <1>1 DEF HeldNow
  <2> QED
    BY <1>6, <2>1
<1>9. ASSUME NEW r \in Rows(s)'
      PROVE  r \in Rows(s) \/ (r.value = value /\ \E i \in DOMAIN names : r.label = names[i])
  <2>1. SUFFICES ASSUME r \notin Rows(s)
                 PROVE  r.value = value /\ \E i \in DOMAIN names : r.label = names[i]
    OBVIOUS
  <2>2. PICK i \in DOMAIN names : r = [label |-> names[i], value |-> value, position |-> Placed(s, names, i)]
    BY <1>1, <2>1 DEF Inserted
  <2> QED
    BY <2>2
<1>10. ASSUME NEW r \in Rows(Multi)' PROVE HeldTuple(r.label)'
  <2>1. HeldTuple(r.label)
    BY <1>1, <1>9 DEF IInv, Referring
  <2> QED
    BY <1>8, <2>1 DEF HeldTuple
<1>11. ASSUME NEW u \in Subjects, Refers[u] # NoRef, NEW r \in Rows(u)'
       PROVE  r.value \in HeldNow(Refers[u])' \cup {NoValue}
  <2>1. r.value \in HeldNow(Refers[u]) \cup {NoValue}
    <3>1. CASE r \in Rows(u)
      BY <1>11, <3>1 DEF IInv, Referring
    <3>2. CASE r \notin Rows(u)
      <4>1. u = s
        BY <1>1, <1>11, <3>2
      <4> QED
        BY <1>9, <1>11, <3>2, <4>1 DEF LiveValue
    <3> QED
      BY <3>1, <3>2
  <2> QED
    BY <1>8, <2>1
<1> QED
  BY <1>3, <1>6, <1>7, <1>10, <1>11 DEF IInv, Referring

LEMMA SetStep ==
    ASSUME IInv, edits < MaxEdits, NEW s \in Subjects, NEW names, NEW value \in Values[s],
           LiveValue(s, value), Stage([x \in {s} |-> Patched(s, names, value)]),
           edits' = edits + 1, UNCHANGED <<base, added>>
    PROVE  IInv' /\ HeldNow(s)' = HeldNow(s)
<1>1. /\ Rows(s)' = Patched(s, names, value)
      /\ \A u : u # s => Rows(u)' = Rows(u)
      /\ Staged' = Staged \cup {s}
  BY Restaged
<1>2. Types'
  BY <1>1, EditsAssumption DEF IInv, Types
<1>3. Rows(s) \subseteq Placeds(s) /\ HeldOnce(s) /\ added[s] \subseteq NewNow(s) \X NewNow(s)
  BY DEF IInv, Placing
<1>4. ASSUME NEW r \in Rows(s)
      PROVE  LET q == IF r.label \in names THEN [r EXCEPT !.value = value] ELSE r
             IN /\ q \in Rows(s)' /\ q \in Placeds(s)
                /\ q.label = r.label /\ q.position = r.position /\ q.value \in {r.value, value}
  BY <1>1, <1>3 DEF Patched, Placeds
<1>5. ASSUME NEW q \in Rows(s)'
      PROVE  \E r \in Rows(s) : q = IF r.label \in names THEN [r EXCEPT !.value = value] ELSE r
  BY <1>1 DEF Patched
<1>6. Rows(s)' \subseteq Placeds(s)
  BY <1>4, <1>5
<1>7. \A q \in Rows(s)' : \E r \in Rows(s) : /\ q.label = r.label /\ q.position = r.position
                                             /\ q.value \in {r.value, value}
  BY <1>4, <1>5
<1>8. HeldOnce(s)'
  <2> SUFFICES ASSUME NEW p \in Rows(s)', NEW q \in Rows(s)', p.label = q.label PROVE p = q
    BY DEF HeldOnce
  <2>1. PICK x \in Rows(s) : p = IF x.label \in names THEN [x EXCEPT !.value = value] ELSE x
    BY <1>5
  <2>2. PICK y \in Rows(s) : q = IF y.label \in names THEN [y EXCEPT !.value = value] ELSE y
    BY <1>5
  <2>3. p.label = x.label /\ q.label = y.label
    BY <1>4, <2>1, <2>2
  <2>4. x = y
    BY <1>3, <2>3 DEF HeldOnce
  <2> QED
    BY <2>1, <2>2, <2>4
<1>9. HeldNow(s)' = HeldNow(s)
  <2>1. \A q \in Rows(s)' : q.label \in HeldNow(s)
    BY <1>7 DEF HeldNow
  <2>2. \A r \in Rows(s) : \E q \in Rows(s)' : q.label = r.label
    BY <1>4
  <2> QED
    BY <2>1, <2>2 DEF HeldNow
<1>10. added'[s] = Among(added[s], HeldNow(s)')
  BY <1>3, <1>9 DEF Among, NewNow
<1>11. Placing(s)'
  BY <1>6, <1>7, <1>8, <1>10, StandingPlacing DEF IInv
<1>12. \A u \in Subjects \ {s} : Placing(u)'
  BY <1>1, OtherPlacing DEF IInv
<1>13. \A u : HeldNow(u)' = HeldNow(u)
  BY <1>1, <1>9 DEF HeldNow
<1>14. ASSUME NEW q \in Rows(Multi)' PROVE HeldTuple(q.label)'
  <2>1. \E r \in Rows(Multi) : q.label = r.label
    BY <1>1, <1>7
  <2> QED
    BY <1>13, <2>1 DEF IInv, Referring, HeldTuple
<1>15. ASSUME NEW u \in Subjects, Refers[u] # NoRef, NEW q \in Rows(u)'
       PROVE  q.value \in HeldNow(Refers[u])' \cup {NoValue}
  <2>1. CASE u = s
    BY <1>7, <1>13, <1>15, <2>1 DEF IInv, Referring, LiveValue
  <2>2. CASE u # s
    BY <1>1, <1>13, <1>15, <2>2 DEF IInv, Referring
  <2> QED
    BY <2>1, <2>2
<1> QED
  BY <1>2, <1>9, <1>11, <1>12, <1>14, <1>15 DEF IInv, Referring

\* Fewer rows of one subject.
LEMMA FewerPlacing ==
    ASSUME IInv, base' = base, NEW s \in Subjects, Rows(s)' \subseteq Rows(s),
           added'[s] = Among(added[s], HeldNow(s)')
    PROVE  Placing(s)'
<1>1. Rows(s)' \subseteq Placeds(s) /\ HeldOnce(s)'
  BY DEF IInv, Placing, HeldOnce
<1> QED
  BY <1>1, StandingPlacing DEF IInv

LEMMA RemoveStep ==
    ASSUME IInv, NEW d \in Plain, NEW gone, RemoveLabels(d, gone)
    PROVE  /\ IInv'
           /\ Rows(d)' = Gone(d, gone)
           /\ Rows(Multi)' = Rows(Multi) \ Naming(d, gone)
           /\ \A u : u # d /\ u # Multi => Rows(u)' = Rows(u)
<1>1. d \in Subjects /\ Multi \in Subjects /\ d # Multi
  BY SubjectsAssumption DEF Subjects
<1>2. PICK more : more = IF Naming(d, gone) = {} THEN {} ELSE {Multi}
  OBVIOUS
<1>3. PICK tables : tables = [x \in {d} \cup more |-> IF x = d THEN Gone(d, gone) ELSE Rows(Multi) \ Naming(d, gone)]
  OBVIOUS
<1>4. Stage(tables) /\ DOMAIN tables = {d} \cup more /\ base' = base
  BY <1>2, <1>3 DEF RemoveLabels
<1>5. /\ Staged' = Staged \cup {d} \cup more
      /\ \A u : Rows(u)' = IF u \in {d} \cup more THEN tables[u] ELSE Rows(u)
  BY <1>4, Restaged
<1>6. Rows(d)' = Gone(d, gone)
  BY <1>3, <1>5
<1>7. Rows(Multi)' = Rows(Multi) \ Naming(d, gone)
  BY <1>1, <1>2, <1>3, <1>5
<1>8. \A u : u # d /\ u # Multi => Rows(u)' = Rows(u)
  BY <1>2, <1>5
<1>9. Types'
  BY <1>1, <1>2, <1>4, <1>5, EditsAssumption DEF RemoveLabels, IInv, Types
<1>10. HeldNow(d)' = HeldNow(d) \ gone /\ HeldNow(Multi)' = {r.label : r \in Rows(Multi) \ Naming(d, gone)}
  <2>1. HeldNow(d)' = HeldNow(d) \ gone
    BY <1>6 DEF HeldNow, Gone
  <2> QED
    BY <1>7, <2>1 DEF HeldNow
<1>11. /\ added'[d] = Among(added[d], HeldNow(d)')
       /\ added'[Multi] = Among(added[Multi], HeldNow(Multi)')
       /\ \A u \in Subjects : u # d /\ u # Multi => added'[u] = added[u]
  BY <1>1, <1>10 DEF RemoveLabels, IInv, Types
<1>12. ASSUME NEW u \in Subjects PROVE Placing(u)' /\ Rows(u)' \subseteq Rows(u)
  <2>1. CASE u = d
    BY <1>4, <1>6, <1>11, <2>1, FewerPlacing DEF Gone
  <2>2. CASE u = Multi
    BY <1>4, <1>7, <1>11, <2>2, FewerPlacing
  <2>3. CASE u # d /\ u # Multi
    BY <1>4, <1>8, <1>11, <2>3, OtherPlacing DEF IInv
  <2> QED
    BY <2>1, <2>2, <2>3
<1>13. ASSUME NEW u \in Plain, NEW x \in HeldNow(u), u = d => x \notin gone
       PROVE  x \in HeldNow(u)'
  <2>1. CASE u = d
    BY <1>10, <1>13, <2>1
  <2>2. CASE u # d
    BY <1>8, <2>2, SubjectsAssumption DEF HeldNow
  <2> QED
    BY <2>1, <2>2
<1>14. ASSUME NEW r \in Rows(Multi)' PROVE HeldTuple(r.label)'
  <2>1. r \in Rows(Multi) /\ \A f \in Fields : Over[f] = d => r.label[f] \notin gone
    BY <1>7 DEF Naming
  <2>2. \A f \in Fields : r.label[f] \in HeldNow(Over[f])
    BY <2>1 DEF IInv, Referring, HeldTuple
  <2>3. \A f \in Fields : r.label[f] \in HeldNow(Over[f])'
    BY <1>13, <2>1, <2>2, OverAssumption
  <2> QED
    BY <2>3 DEF HeldTuple
<1>15. ASSUME NEW u \in Subjects, Refers[u] # NoRef, NEW r \in Rows(u)'
       PROVE  r.value \in HeldNow(Refers[u])' \cup {NoValue}
  <2>1. r \in Rows(u) /\ Refers[u] \in Plain
    BY <1>12, <1>15, RefersAssumption
  <2>2. r.value \in HeldNow(Refers[u]) \cup {NoValue}
    BY <1>15, <2>1 DEF IInv, Referring
  <2>3. Refers[u] = d => r.value \notin gone
    BY <2>1 DEF RemoveLabels, Unnamed
  <2> QED
    BY <1>13, <2>1, <2>2, <2>3
<1> QED
  BY <1>6, <1>7, <1>8, <1>9, <1>12, <1>14, <1>15 DEF IInv, Referring

LEMMA RemoveTuplesStep ==
    ASSUME IInv, NEW gone, RemoveTuples(gone)
    PROVE  /\ IInv'
           /\ Rows(Multi)' = Gone(Multi, gone)
           /\ \A u : u # Multi => Rows(u)' = Rows(u)
<1>1. /\ Rows(Multi)' = Gone(Multi, gone) /\ base' = base
      /\ \A u : u # Multi => Rows(u)' = Rows(u)
      /\ Staged' = Staged \cup {Multi}
  BY Restaged DEF RemoveTuples
<1>2. Types'
  BY <1>1, EditsAssumption DEF RemoveTuples, IInv, Types, Subjects
<1>3. HeldNow(Multi)' = HeldNow(Multi) \ gone
  BY <1>1 DEF HeldNow, Gone
<1>4. /\ added'[Multi] = Among(added[Multi], HeldNow(Multi)')
      /\ \A u \in Subjects : u # Multi => added'[u] = added[u]
  BY <1>3 DEF RemoveTuples, IInv, Types, Subjects
<1>5. \A u \in Subjects : Placing(u)'
  <2>1. Placing(Multi)'
    BY <1>1, <1>4, FewerPlacing DEF Gone, Subjects
  <2> QED
    BY <1>1, <1>4, <2>1, OtherPlacing DEF IInv
<1>6. \A u : Rows(u)' \subseteq Rows(u)
  BY <1>1 DEF Gone
<1>7. \A u \in Plain : HeldNow(u)' = HeldNow(u)
  BY <1>1, SubjectsAssumption DEF HeldNow
<1>8. ASSUME NEW r \in Rows(Multi)' PROVE HeldTuple(r.label)'
  <2>1. \A f \in Fields : r.label[f] \in HeldNow(Over[f])
    BY <1>6 DEF IInv, Referring, HeldTuple
  <2> QED
    BY <1>7, <2>1, OverAssumption DEF HeldTuple
<1>9. ASSUME NEW u \in Subjects, Refers[u] # NoRef, NEW r \in Rows(u)'
      PROVE  r.value \in HeldNow(Refers[u])' \cup {NoValue}
  BY <1>6, <1>7, <1>9, RefersAssumption DEF IInv, Referring
<1> QED
  BY <1>1, <1>2, <1>5, <1>8, <1>9 DEF IInv, Referring

\* Nothing staged, the axes are the base's, which is sound.
Unedited == base \in Bases /\ staged = << >> /\ edits \in 0 .. MaxEdits /\ added = [s \in Subjects |-> {}]

LEMMA Unstaged == Unedited => IInv
<1> SUFFICES ASSUME Unedited PROVE IInv
  OBVIOUS
<1> USE DEF Unedited
<1>1. Staged = {}
  BY DEF Staged
<1>2. \A s : Rows(s) = Numbered(s)
  BY <1>1 DEF Rows
<1>3. \A s \in Subjects : Placing(s)
  BY <1>2, NumberedPlacing
<1>4. \A s : HeldNow(s) = BaseLabels(s)
  <2> SUFFICES ASSUME NEW s PROVE HeldNow(s) = BaseLabels(s)
    OBVIOUS
  <2>1. \A r \in Numbered(s) : \E i \in BasePlaces(s) : r.label = BaseAxis(s)[i].label
    BY DEF Numbered
  <2>2. \A i \in BasePlaces(s) : \E r \in Numbered(s) : r.label = BaseAxis(s)[i].label
    <3> SUFFICES ASSUME NEW i \in BasePlaces(s)
                 PROVE  \E r \in Numbered(s) : r.label = BaseAxis(s)[i].label
      OBVIOUS
    <3>1. [label |-> BaseAxis(s)[i].label, value |-> BaseAxis(s)[i].value, position |-> i] \in Numbered(s)
      BY DEF Numbered
    <3> QED
      BY <3>1
  <2> QED
    BY <1>2, <2>1, <2>2 DEF HeldNow, BaseLabels
<1>5. \A s : \A r \in Rows(s) : \E i \in BasePlaces(s) : r.label = BaseAxis(s)[i].label /\ r.value = BaseAxis(s)[i].value
  BY <1>2 DEF Numbered
<1>6. Sound(base)
  BY BasesAssumption
<1>7. \A s : BaseLabels(s) = {r.label : r \in {BaseAxis(s)[i] : i \in DOMAIN BaseAxis(s)}}
  BY DEF BaseLabels, BasePlaces
<1>8. /\ \A i \in BasePlaces(Multi) : \A f \in Fields : BaseAxis(Multi)[i].label[f] \in BaseLabels(Over[f])
      /\ \A s \in Subjects : Refers[s] # NoRef =>
            \A i \in BasePlaces(s) : BaseAxis(s)[i].value \in BaseLabels(Refers[s]) \cup {NoValue}
  BY <1>6 DEF Sound, BaseAxis, BaseLabels, BasePlaces
<1>9. Referring
  BY <1>4, <1>5, <1>8 DEF Referring, HeldTuple
<1> QED
  BY <1>1, <1>2, <1>3, <1>9 DEF IInv, Types

LEMMA Initially == Init => IInv
  BY Unstaged, EditsAssumption DEF Init, Unedited

LEMMA Inductive == IInv /\ [Next]_vars => IInv' \/ Unedited'
<1> SUFFICES ASSUME IInv, [Next]_vars PROVE IInv' \/ Unedited'
  OBVIOUS
<1>0. Plain \subseteq Subjects /\ Multi \in Subjects /\ \A d \in Plain : d # Multi
  BY SubjectsAssumption DEF Subjects
<1>1. ASSUME NEW d \in Plain, NEW names \in Calls[d], NEW value \in Values[d], AddLabels(d, names, value)
      PROVE  IInv'
  BY <1>0, <1>1, AddStep DEF AddLabels
<1>2. ASSUME NEW names \in Calls[Multi], NEW value \in Values[Multi], AddTuples(names, value)
      PROVE  IInv'
  BY <1>0, <1>2, AddStep DEF AddTuples
<1>3. ASSUME NEW d \in Plain, NEW gone \in SUBSET Labels[d] \ {{}}, RemoveLabels(d, gone) PROVE IInv'
  BY <1>3, RemoveStep
<1>4. ASSUME NEW t \in Tuples, RemoveTuples({t}) PROVE IInv'
  BY <1>4, RemoveTuplesStep
<1>5. ASSUME NEW d \in Plain, NEW names \in Reached(d), NEW value \in Values[d], SetProperty(d, names, value)
      PROVE  IInv'
  BY <1>0, <1>5, SetStep DEF SetProperty
<1>6. ASSUME NEW names \in Selections, NEW value \in Values[Multi], SetTuples(names, value)
      PROVE  IInv'
  BY <1>0, <1>6, SetStep DEF SetTuples
<1>7. ASSUME Rollback PROVE Unedited'
  BY <1>7 DEF Rollback, IInv, Types, Unedited
<1>8. ASSUME UNCHANGED vars PROVE IInv'
  <2>1. UNCHANGED <<base, staged, edits, added>>
    BY <1>8 DEF vars
  <2>2. \A s : Rows(s)' = Rows(s)
    BY <2>1, BaseKept DEF Rows, Staged
  <2>3. Types' /\ \A s \in Subjects : Placing(s)'
    BY <2>1, <2>2, OtherPlacing DEF IInv, Types, Staged
  <2>4. Referring'
    BY <2>2 DEF IInv, Referring, HeldTuple, HeldNow
  <2> QED
    BY <2>3, <2>4 DEF IInv
<1> QED
  BY <1>1, <1>2, <1>3, <1>4, <1>5, <1>6, <1>7, <1>8 DEF Next

LEMMA Invariant == Spec => []IInv
<1>1. Init => IInv
  BY Initially
<1>2. IInv /\ [Next]_vars => IInv' \/ Unedited'
  BY Inductive
<1>3. Unedited => IInv
  BY Unstaged
<1> QED
  BY <1>1, <1>2, <1>3, PTL DEF Spec

-----------------------------------------------------------------------------
(* What the run checks, for every instance.                                *)

\* Staging tables hold rows of labels of their subject at places from 1, and
\* the history tells only of labels the base lacks.
THEOREM AxesTypeCorrect == Spec => []TypeOK
<1>1. IInv => TypeOK
  <2> SUFFICES ASSUME IInv PROVE TypeOK
    OBVIOUS
  <2>1. \A s \in Subjects : Rows(s) \subseteq Placeds(s)
    BY DEF IInv, Placing
  <2>2. \A s \in Staged : staged[s] \subseteq Placeds(s)
    BY <2>1 DEF IInv, Types, Rows
  <2>3. \A s \in Subjects : NewNow(s) \subseteq NamesOf(s) \ BaseLabels(s)
    BY <2>1 DEF NewNow, HeldNow, Placeds
  <2>4. ASSUME NEW s \in Subjects, NEW p \in added[s]
        PROVE  {p[1], p[2]} \subseteq NamesOf(s) \ BaseLabels(s)
    <3>1. p \in NewNow(s) \X NewNow(s)
      BY DEF IInv, Placing
    <3> QED
      BY <2>3, <3>1
  <2> QED
    BY <2>2, <2>4 DEF IInv, Types, TypeOK, Placeds
<1> QED
  BY <1>1, Invariant, PTL

\* A label keeps its place through every edit, one of the base removed and added
\* again takes its own back, and new ones go last (_positioned).
THEOREM AxesPlacesKept == Spec => []PlacesKept
<1>1. IInv => PlacesKept
  <2> SUFFICES ASSUME IInv, NEW s \in Subjects, NEW r \in Rows(s), NEW q \in Rows(s), r.label # q.label
               PROVE  r.position < q.position <=> Precedes(s, r.label, q.label)
    BY DEF PlacesKept
  <2>1. Placing(s) /\ r.position \in Nat /\ q.position \in Nat
    BY DEF IInv, Placing, Placeds
  <2>2. PICK n \in Nat : /\ n = Len(BaseAxis(s))
                         /\ \A x \in BaseLabels(s) : BasePlace(s, x) \in 1 .. n
    BY Based DEF IInv, Types
  <2>3. CASE r.label \in BaseLabels(s) /\ q.label \in BaseLabels(s)
    BY <2>1, <2>3 DEF Placing, Precedes
  <2>4. CASE r.label \in BaseLabels(s) /\ q.label \notin BaseLabels(s)
    BY <2>1, <2>2, <2>4 DEF Placing, Precedes
  <2>5. CASE r.label \notin BaseLabels(s) /\ q.label \in BaseLabels(s)
    BY <2>1, <2>2, <2>5 DEF Placing, Precedes
  <2>6. CASE r.label \notin BaseLabels(s) /\ q.label \notin BaseLabels(s)
    BY <2>1, <2>6 DEF Placing, Precedes
  <2> QED
    BY <2>3, <2>4, <2>5, <2>6
<1> QED
  BY <1>1, Invariant, PTL

\* The writer accepts what is staged: each label once and in the base's order, no
\* tuple naming a label that is not held, no reference to a dead one.
THEOREM StagedAxesAreAccepted == Spec => []StagedAxesAccepted
<1>1. IInv => StagedAxesAccepted
  <2> SUFFICES ASSUME IInv PROVE StagedAxesAccepted
    OBVIOUS
  <2>1. \A s \in Subjects : HeldOnce(s) /\ InBaseOrder(s)
    BY DEF IInv, Placing, InBaseOrder
  <2>2. \A r \in Rows(Multi) : HeldTuple(r.label)
    BY DEF IInv, Referring
  <2>3. ASSUME NEW d \in Plain
        PROVE  /\ NoValue \notin DeadNow(d) \cup Killed(d)
               /\ \A x \in HeldNow(d) : x \notin DeadNow(d) \cup Killed(d)
    <3>1. d \in Subjects /\ d # Multi
      BY SubjectsAssumption DEF Subjects
    <3>2. BaseLabels(d) \subseteq Labels[d]
      BY <3>1, Based DEF IInv, Types, NamesOf
    <3>3. Sound(base)
      BY BasesAssumption DEF IInv, Types
    <3>4. base.dead[d] \subseteq Labels[d] /\ base.dead[d] \cap BaseLabels(d) = {}
      BY <3>3 DEF Sound, BaseLabels, BasePlaces, BaseAxis
    <3>5. NoValue \notin Labels[d]
      BY NoValueAssumption
    <3>6. d \notin Staged => HeldNow(d) \subseteq BaseLabels(d)
      BY DEF HeldNow, Rows, Numbered, BaseLabels
    <3> QED
      BY <3>2, <3>4, <3>5, <3>6 DEF DeadNow, Killed
  <2>4. \A r \in Rows(Multi) : \A f \in Fields : r.label[f] \notin Killed(Over[f])
    BY <2>2, <2>3, OverAssumption DEF HeldTuple
  <2>5. ASSUME NEW s \in Subjects, Refers[s] # NoRef, NEW r \in Rows(s)
        PROVE  r.value \notin DeadNow(Refers[s]) \cup Killed(Refers[s])
    <3>1. Refers[s] \in Plain /\ r.value \in HeldNow(Refers[s]) \cup {NoValue}
      BY <2>5, RefersAssumption DEF IInv, Referring
    <3> QED
      BY <2>3, <3>1
  <2>6. LivingReferences
    BY <2>4, <2>5 DEF LivingReferences
  <2>7. Staged \subseteq Subjects
    BY DEF IInv, Types
  <2> QED
    BY <2>1, <2>2, <2>6, <2>7 DEF StagedAxesAccepted
<1> QED
  BY <1>1, Invariant, PTL

-----------------------------------------------------------------------------
(* The axes edited in place.                                               *)

LEMMA ValuedIs ==
    ASSUME NEW S, \A r, q \in S : r.label = q.label => r = q
    PROVE  /\ DOMAIN Valued(S) = {r.label : r \in S}
           /\ \A r \in S : Valued(S)[r.label] = r.value
  BY DEF Valued

\* What is shown of a subject: the labels it holds, each with its row's value.
LEMMA ShownIs ==
    ASSUME IInv, NEW s \in Subjects
    PROVE  /\ Shown[s] = [x \in HeldNow(s) |-> Shown[s][x]]
           /\ DOMAIN Shown[s] = HeldNow(s)
           /\ \A r \in Rows(s) : Shown[s][r.label] = r.value
<1>1. \A r, q \in Rows(s) : r.label = q.label => r = q
  BY DEF IInv, Placing, HeldOnce
<1>2. Shown[s] = Valued(Rows(s))
  BY DEF Shown
<1>3. DOMAIN Valued(Rows(s)) = HeldNow(s) /\ \A r \in Rows(s) : Valued(Rows(s))[r.label] = r.value
  BY <1>1, ValuedIs DEF HeldNow
<1> QED
  BY <1>2, <1>3 DEF Valued, HeldNow

\* No edit leaves a reference to a label that is not there: the abstract
\* invariant, of what is shown.
LEMMA ShownWhole == IInv => ReferencesHeld
<1> SUFFICES ASSUME IInv PROVE ReferencesHeld
  OBVIOUS
<1>1. \A s \in Subjects : DOMAIN Shown[s] = HeldNow(s)
  BY ShownIs
<1>2. ASSUME NEW s \in Subjects, NEW x \in DOMAIN Shown[s], Refers[s] # NoRef
      PROVE  Shown[s][x] \in DOMAIN Shown[Refers[s]] \cup {NoValue}
  <2>1. PICK r \in Rows(s) : r.label = x
    BY <1>1 DEF HeldNow
  <2>2. Refers[s] \in Subjects
    BY <1>2, RefersAssumption DEF Subjects
  <2> QED
    BY <1>1, <1>2, <2>1, <2>2, ShownIs DEF IInv, Referring
<1>3. ASSUME NEW t \in DOMAIN Shown[Multi], NEW f \in DOMAIN Over
      PROVE  t[f] \in DOMAIN Shown[Over[f]]
  <2>1. PICK r \in Rows(Multi) : r.label = t
    BY <1>1 DEF HeldNow, Subjects
  <2>2. Over[f] \in Subjects
    BY OverAssumption DEF Subjects, Fields
  <2> QED
    BY <1>1, <2>1, <2>2 DEF IInv, Referring, HeldTuple, Fields
<1> QED
  BY <1>2, <1>3 DEF ReferencesHeld, Promise!Whole, Promise!LiveValue, Promise!LiveTuple,
     Promise!Subjects, Shown, Subjects

\* No property and no tuple ever names a label that was removed.
THEOREM ReferencesAreHeld == Spec => []ReferencesHeld
<1>1. IInv => ReferencesHeld
  BY ShownWhole
<1> QED
  BY <1>1, Invariant, PTL

LEMMA StartKept == base' = base => ShownOfBase' = ShownOfBase
  BY BaseKept DEF ShownOfBase

LEMMA OtherShown ==
    ASSUME NEW u \in Subjects, Rows(u)' = Rows(u)
    PROVE  Shown'[u] = Shown[u]
  BY DEF Shown

LEMMA FewerShown ==
    ASSUME IInv, IInv', NEW u \in Subjects, Rows(u)' \subseteq Rows(u)
    PROVE  Shown'[u] = [x \in HeldNow(u)' |-> Shown[u][x]]
<1>1. /\ Shown'[u] = [x \in HeldNow(u)' |-> Shown'[u][x]]
      /\ \A r \in Rows(u)' : Shown'[u][r.label] = r.value
  <2>1. \A r, q \in Rows(u)' : r.label = q.label => r = q
    BY DEF IInv, Placing, HeldOnce
  <2>2. Shown'[u] = Valued(Rows(u)')
    BY DEF Shown
  <2>3. DOMAIN Valued(Rows(u)') = HeldNow(u)' /\ \A r \in Rows(u)' : Valued(Rows(u)')[r.label] = r.value
    BY <2>1, ValuedIs DEF HeldNow
  <2> QED
    BY <2>2, <2>3 DEF Valued, HeldNow
<1>2. ASSUME NEW x \in HeldNow(u)' PROVE Shown'[u][x] = Shown[u][x]
  <2>1. PICK r \in Rows(u)' : r.label = x
    BY DEF HeldNow
  <2> QED
    BY <1>1, <2>1, ShownIs
<1> QED
  BY <1>1, <1>2

\* Labels of one subject added or given a value: a Put, of those that change.
LEMMA PutShown ==
    ASSUME IInv, IInv', base' = base, NEW s \in Subjects, NEW names, NEW value,
           LiveValue(s, value), s = Multi => \A t \in names : HeldTuple(t),
           \A u \in Subjects \ {s} : Rows(u)' = Rows(u),
           HeldNow(s)' = HeldNow(s) \cup names,
           \A q \in Rows(s)' : IF q.label \in names THEN q.value = value
                               ELSE \E r \in Rows(s) : r.label = q.label /\ r.value = q.value
    PROVE  [Promise!Edit]_<<Shown, ShownOfBase>>
<1>1. \A r, q \in Rows(s)' : r.label = q.label => r = q
  BY DEF IInv, Placing, HeldOnce
<1>2. /\ DOMAIN Shown'[s] = HeldNow(s)'
      /\ \A r \in Rows(s)' : Shown'[s][r.label] = r.value
      /\ Shown'[s] = [x \in HeldNow(s)' |-> Shown'[s][x]]
  <2>1. Shown'[s] = Valued(Rows(s)')
    BY DEF Shown
  <2>2. DOMAIN Valued(Rows(s)') = HeldNow(s)' /\ \A r \in Rows(s)' : Valued(Rows(s)')[r.label] = r.value
    BY <1>1, ValuedIs DEF HeldNow
  <2> QED
    BY <2>1, <2>2 DEF Valued, HeldNow
<1>3. ASSUME NEW x \in HeldNow(s)'
      PROVE  Shown'[s][x] = IF x \in names THEN value ELSE Shown[s][x]
  <2>1. PICK q \in Rows(s)' : q.label = x
    BY DEF HeldNow
  <2> QED
    BY <1>2, <2>1, ShownIs
<1>4. DOMAIN Shown[s] = HeldNow(s) /\ Shown[s] = [x \in HeldNow(s) |-> Shown[s][x]]
  BY ShownIs
<1>5. PICK changed : changed = {x \in DOMAIN Shown'[s] : x \notin DOMAIN Shown[s] \/ Shown'[s][x] # Shown[s][x]}
  OBVIOUS
<1>6. changed \subseteq names /\ \A x \in changed : Shown'[s][x] = value
  BY <1>2, <1>3, <1>4, <1>5
<1>7. Shown'[s] = [x \in DOMAIN Shown[s] \cup changed |-> IF x \in changed THEN value ELSE Shown[s][x]]
  <2>1. DOMAIN Shown[s] \cup changed = HeldNow(s)'
    BY <1>2, <1>4, <1>5
  <2>2. \A x \in HeldNow(s)' : Shown'[s][x] = IF x \in changed THEN value ELSE Shown[s][x]
    BY <1>2, <1>5, <1>6
  <2> QED
    BY <1>2, <2>1, <2>2
<1>8. /\ Shown = [u \in Subjects |-> Shown[u]]
      /\ Shown' = [u \in Subjects |-> Shown'[u]]
      /\ \A u \in Subjects \ {s} : Shown'[u] = Shown[u]
  BY OtherShown DEF Shown
<1>9. ShownOfBase' = ShownOfBase
  BY StartKept
<1>10. CASE changed = {}
  <2>1. Shown'[s] = Shown[s]
    BY <1>4, <1>7, <1>10
  <2>2. Shown' = Shown
    BY <1>8, <2>1
  <2> QED
    BY <1>9, <2>2
<1>11. CASE changed # {}
  <2>1. PICK x \in changed : Shown'[s][x] = value
    BY <1>6, <1>11
  <2>2. Promise!LiveValue(s, value)
    <3>1. Refers[s] # NoRef => Refers[s] \in Subjects /\ value \in HeldNow(Refers[s]) \cup {NoValue}
      BY RefersAssumption DEF LiveValue, Subjects
    <3> QED
      BY <3>1, ShownIs DEF Promise!LiveValue
  <2>3. s = Multi => \A t \in changed : Promise!LiveTuple(t)
    <3>1. \A f \in DOMAIN Over : DOMAIN Shown[Over[f]] = HeldNow(Over[f])
      BY OverAssumption, ShownIs DEF Fields, Subjects
    <3> QED
      BY <1>6, <3>1 DEF Promise!LiveTuple, HeldTuple, Fields
  <2>4. Shown' = [Shown EXCEPT ![s] = [y \in DOMAIN Shown[s] \cup changed |->
                                          IF y \in changed THEN value ELSE Shown[s][y]]]
    BY <1>7, <1>8
  <2>5. Promise!Put(s, changed, Shown'[s][x])
    BY <2>1, <2>2, <2>3, <2>4 DEF Promise!Put
  <2>6. s \in Promise!Subjects
    BY DEF Promise!Subjects, Subjects
  <2>7. Promise!Edit
    BY <1>5, <1>9, <2>5, <2>6 DEF Promise!Edit
  <2> QED
    BY <2>7
<1> QED
  BY <1>10, <1>11

\* Labels of a dim removed, and the tuples naming them: a Drop.
LEMMA RemoveShown ==
    ASSUME IInv, IInv', NEW d \in Plain, NEW gone, RemoveLabels(d, gone)
    PROVE  Promise!Edit
<1>0. d \in Subjects /\ Multi \in Subjects /\ d # Multi
  BY SubjectsAssumption DEF Subjects
<1>1. /\ Rows(d)' = Gone(d, gone)
      /\ Rows(Multi)' = Rows(Multi) \ Naming(d, gone)
      /\ \A u \in Subjects : u # d /\ u # Multi => Rows(u)' = Rows(u)
      /\ base' = base
  BY RemoveStep DEF RemoveLabels
<1>2. \A u \in Subjects : DOMAIN Shown[u] = HeldNow(u)
  BY ShownIs
<1>3. /\ Shown'[d] = [x \in HeldNow(d)' |-> Shown[d][x]]
      /\ Shown'[Multi] = [x \in HeldNow(Multi)' |-> Shown[Multi][x]]
      /\ \A u \in Subjects : u # d /\ u # Multi => Shown'[u] = Shown[u]
  BY <1>0, <1>1, FewerShown, OtherShown DEF Gone
<1>4. PICK away, broken :
          /\ away = DOMAIN Shown[d] \ DOMAIN Shown'[d]
          /\ broken = {t \in DOMAIN Shown[Multi] : \E f \in DOMAIN Over : Over[f] = d /\ t[f] \in away}
  OBVIOUS
<1>5. HeldNow(d)' = HeldNow(d) \ gone /\ away = HeldNow(d) \cap gone
  <2>1. HeldNow(d)' = HeldNow(d) \ gone
    BY <1>1 DEF HeldNow, Gone
  <2> QED
    BY <1>0, <1>2, <1>3, <1>4, <2>1
<1>6. HeldNow(Multi)' = HeldNow(Multi) \ broken
  <2>1. ASSUME NEW r \in Rows(Multi) PROVE r \in Naming(d, gone) <=> r.label \in broken
    <3>1. r.label \in DOMAIN Shown[Multi] /\ HeldTuple(r.label)
      BY <1>0, <1>2 DEF HeldNow, IInv, Referring
    <3> QED
      BY <1>4, <1>5, <3>1 DEF Naming, HeldTuple, Fields
  <2> QED
    BY <1>1, <2>1 DEF HeldNow
<1>7. ASSUME NEW q \in Subjects, Refers[q] = d, NEW x \in DOMAIN Shown[q]
      PROVE  Shown[q][x] \notin away
  <2>1. PICK r \in Rows(q) : r.label = x
    BY <1>2 DEF HeldNow
  <2>2. Shown[q][x] = r.value /\ r.value \notin gone
    BY <1>7, <2>1, ShownIs DEF RemoveLabels, Unnamed
  <2> QED
    BY <1>5, <2>2
<1>8. /\ Shown = [u \in Subjects |-> Shown[u]]
      /\ Shown' = [u \in Subjects |-> Shown'[u]]
  BY DEF Shown
<1>9. Shown' = [Shown EXCEPT ![d] = Promise!Without(d, away),
                             ![Multi] = Promise!Without(Multi, IF d = Multi THEN away ELSE broken)]
  <2>1. Promise!Without(d, away) = Shown'[d]
    BY <1>0, <1>2, <1>3, <1>5 DEF Promise!Without
  <2>2. Promise!Without(Multi, broken) = Shown'[Multi]
    BY <1>0, <1>2, <1>3, <1>6 DEF Promise!Without
  <2> QED
    BY <1>0, <1>3, <1>8, <2>1, <2>2
<1>10. Promise!Drop(d, away)
  <2>1. \A q \in Promise!Subjects : Refers[q] = d => \A x \in DOMAIN Shown[q] : Shown[q][x] \notin away
    BY <1>7 DEF Promise!Subjects, Subjects
  <2> QED
    BY <1>4, <1>9, <2>1 DEF Promise!Drop
<1>11. ShownOfBase' = ShownOfBase /\ d \in Promise!Subjects
  BY <1>1, StartKept DEF Promise!Subjects
<1> QED
  BY <1>4, <1>10, <1>11 DEF Promise!Edit

\* Tuples removed: a Drop, no reference being to a tuple.
LEMMA RemoveTuplesShown ==
    ASSUME IInv, IInv', NEW gone, RemoveTuples(gone)
    PROVE  Promise!Edit
<1>0. Multi \in Subjects /\ \A s \in Subjects : Refers[s] # Multi
  BY SubjectsAssumption, RefersAssumption DEF Subjects
<1>1. /\ Rows(Multi)' = Gone(Multi, gone)
      /\ \A u \in Subjects : u # Multi => Rows(u)' = Rows(u)
      /\ base' = base
  BY RemoveTuplesStep DEF RemoveTuples
<1>2. DOMAIN Shown[Multi] = HeldNow(Multi)
  BY <1>0, ShownIs
<1>3. /\ Shown'[Multi] = [x \in HeldNow(Multi)' |-> Shown[Multi][x]]
      /\ \A u \in Subjects : u # Multi => Shown'[u] = Shown[u]
  BY <1>0, <1>1, FewerShown, OtherShown DEF Gone
<1>4. PICK away : away = DOMAIN Shown[Multi] \ DOMAIN Shown'[Multi]
  OBVIOUS
<1>5. HeldNow(Multi)' = HeldNow(Multi) \ away
  <2>1. HeldNow(Multi)' \subseteq HeldNow(Multi)
    BY <1>1 DEF HeldNow, Gone
  <2> QED
    BY <1>2, <1>3, <1>4, <2>1
<1>6. /\ Shown = [u \in Subjects |-> Shown[u]]
      /\ Shown' = [u \in Subjects |-> Shown'[u]]
  BY DEF Shown
<1>7. Promise!Without(Multi, away) = Shown'[Multi]
  BY <1>2, <1>3, <1>5 DEF Promise!Without
<1>8. Promise!Drop(Multi, away)
  <2>1. Shown' = [Shown EXCEPT ![Multi] = Promise!Without(Multi, away),
                               ![Multi] = Promise!Without(Multi, away)]
    BY <1>0, <1>3, <1>6, <1>7
  <2>2. \A q \in Promise!Subjects : Refers[q] # Multi
    BY <1>0 DEF Promise!Subjects, Subjects
  <2> QED
    BY <2>1, <2>2 DEF Promise!Drop
<1>9. ShownOfBase' = ShownOfBase /\ Multi \in Promise!Subjects
  BY <1>1, StartKept DEF Promise!Subjects
<1> QED
  BY <1>4, <1>8, <1>9 DEF Promise!Edit

LEMMA StepShown ==
    ASSUME IInv, IInv', [Next]_vars
    PROVE  [Promise!Edit]_<<Shown, ShownOfBase>>
<1>0. Plain \subseteq Subjects /\ Multi \in Subjects /\ \A d \in Plain : d # Multi
  BY SubjectsAssumption DEF Subjects
<1>1. ASSUME NEW s \in Subjects, NEW names \in Calls[s], NEW value \in Values[s],
             LiveValue(s, value), s = Multi => \A i \in DOMAIN names : HeldTuple(names[i]),
             AddRows(s, names, value)
      PROVE  [Promise!Edit]_<<Shown, ShownOfBase>>
  <2>1. PICK given : given = {names[i] : i \in DOMAIN names}
    OBVIOUS
  <2>2. /\ Rows(s)' = Inserted(s, names, value) /\ base' = base
        /\ \A u \in Subjects \ {s} : Rows(u)' = Rows(u)
    BY <1>1, Restaged DEF AddRows
  <2>3. HeldNow(s)' = HeldNow(s) \cup given
    <3>1. names \in Seq(NamesOf(s)) /\ \A i, j \in DOMAIN names : names[i] = names[j] => i = j
      BY CallsAssumption
    <3>2. added'[s] = added[s] \cup Later(s, names)
      BY <1>1 DEF AddRows, IInv, Types
    <3> QED
      BY <2>1, <2>2, <3>1, <3>2, InsertedPlacing DEF IInv
  <2>4. ASSUME NEW q \in Rows(s)'
        PROVE  IF q.label \in given THEN q.value = value
               ELSE \E r \in Rows(s) : r.label = q.label /\ r.value = q.value
    <3>1. CASE q \in {r \in Rows(s) : \A i \in DOMAIN names : names[i] # r.label}
      BY <2>1, <3>1
    <3>2. CASE \E i \in DOMAIN names :
                 q = [label |-> names[i], value |-> value, position |-> Placed(s, names, i)]
      <4>1. PICK i \in DOMAIN names : q = [label |-> names[i], value |-> value, position |-> Placed(s, names, i)]
        BY <3>2
      <4>2. q.label = names[i] /\ q.value = value
        BY <4>1
      <4> QED
        BY <2>1, <4>2
    <3> QED
      BY <2>2, <3>1, <3>2 DEF Inserted
  <2>5. s = Multi => \A t \in given : HeldTuple(t)
    BY <1>1, <2>1
  <2> QED
    BY <1>1, <2>2, <2>3, <2>4, <2>5, PutShown
<1>2. ASSUME NEW s \in Subjects, NEW names \in SUBSET HeldNow(s), NEW value \in Values[s],
             edits < MaxEdits, LiveValue(s, value), Stage([x \in {s} |-> Patched(s, names, value)]),
             edits' = edits + 1, UNCHANGED <<base, added>>
      PROVE  [Promise!Edit]_<<Shown, ShownOfBase>>
  <2>1. /\ Rows(s)' = Patched(s, names, value)
        /\ \A u \in Subjects \ {s} : Rows(u)' = Rows(u)
    BY <1>2, Restaged
  <2>2. HeldNow(s)' = HeldNow(s) \cup names
    BY <1>2, SetStep
  <2>3. Rows(s) \subseteq Placeds(s)
    BY DEF IInv, Placing
  <2>4. ASSUME NEW q \in Rows(s)'
        PROVE  IF q.label \in names THEN q.value = value
               ELSE \E r \in Rows(s) : r.label = q.label /\ r.value = q.value
    <3>1. PICK r \in Rows(s) : q = IF r.label \in names THEN [r EXCEPT !.value = value] ELSE r
      BY <2>1 DEF Patched
    <3>2. q.label = r.label /\ IF r.label \in names THEN q.value = value ELSE q.value = r.value
      BY <2>3, <3>1 DEF Placeds
    <3> QED
      BY <3>2
  <2>5. s = Multi => \A t \in names : HeldTuple(t)
    BY DEF IInv, Referring, HeldNow
  <2> QED
    BY <1>2, <2>1, <2>2, <2>4, <2>5, PutShown
<1>3. ASSUME NEW d \in Plain, NEW names \in Calls[d], NEW value \in Values[d], AddLabels(d, names, value)
      PROVE  [Promise!Edit]_<<Shown, ShownOfBase>>
  BY <1>0, <1>1, <1>3 DEF AddLabels
<1>4. ASSUME NEW names \in Calls[Multi], NEW value \in Values[Multi], AddTuples(names, value)
      PROVE  [Promise!Edit]_<<Shown, ShownOfBase>>
  BY <1>0, <1>1, <1>4 DEF AddTuples
<1>5. ASSUME NEW d \in Plain, NEW gone, RemoveLabels(d, gone)
      PROVE  [Promise!Edit]_<<Shown, ShownOfBase>>
  BY <1>5, RemoveShown
<1>6. ASSUME NEW t \in Tuples, RemoveTuples({t})
      PROVE  [Promise!Edit]_<<Shown, ShownOfBase>>
  BY <1>6, RemoveTuplesShown
<1>7. ASSUME NEW d \in Plain, NEW names \in Reached(d), NEW value \in Values[d], SetProperty(d, names, value)
      PROVE  [Promise!Edit]_<<Shown, ShownOfBase>>
  <2>1. names \in SUBSET HeldNow(d)
    BY DEF Reached
  <2> QED
    BY <1>0, <1>2, <1>7, <2>1 DEF SetProperty
<1>8. ASSUME NEW names \in Selections, NEW value \in Values[Multi], SetTuples(names, value)
      PROVE  [Promise!Edit]_<<Shown, ShownOfBase>>
  <2>1. \A v : {r.label : r \in {q \in Rows(Multi) : q.value = v}} \subseteq HeldNow(Multi)
    BY DEF HeldNow
  <2>2. names \in SUBSET HeldNow(Multi)
    BY <2>1 DEF Selections
  <2> QED
    BY <1>0, <1>2, <1>8, <2>2 DEF SetTuples
<1>9. ASSUME Rollback PROVE [Promise!Edit]_<<Shown, ShownOfBase>>
  <2>1. base' = base /\ Staged' = {}
    BY <1>9 DEF Rollback, Staged
  <2>2. \A s : Rows(s)' = Numbered(s)
    BY <2>1, BaseKept DEF Rows
  <2>3. Shown' = ShownOfBase
    BY <2>2 DEF Shown, ShownOfBase
  <2>4. ShownOfBase' = ShownOfBase
    BY <2>1, StartKept
  <2> QED
    BY <2>3, <2>4 DEF Promise!Edit
<1>10. ASSUME UNCHANGED vars PROVE [Promise!Edit]_<<Shown, ShownOfBase>>
  <2>1. base' = base /\ \A s : Rows(s)' = Rows(s)
    BY <1>10, BaseKept DEF vars, Rows, Staged
  <2>2. Shown' = Shown
    BY <2>1 DEF Shown
  <2> QED
    BY <2>1, <2>2, StartKept
<1> QED
  BY <1>3, <1>4, <1>5, <1>6, <1>7, <1>8, <1>9, <1>10 DEF Next

\* Copies, positions and rows replaced whole implement axes edited in place: an
\* edit changes the labels it names, and tuples go with their labels only.
THEOREM StagingImplementsEdits == Spec => ImplementsEditedAxes
<1>1. Init => Promise!Start
  <2> SUFFICES ASSUME Init PROVE Promise!Start
    OBVIOUS
  <2>1. IInv /\ \A s : Rows(s) = Numbered(s)
    BY Initially DEF Init, Rows, Staged
  <2>2. Shown = ShownOfBase
    BY <2>1 DEF Shown, ShownOfBase
  <2> QED
    BY <2>1, <2>2, ShownWhole DEF Promise!Start, ReferencesHeld
<1>2. IInv /\ IInv' /\ [Next]_vars => [Promise!Edit]_<<Shown, ShownOfBase>>
  BY StepShown
<1> QED
  BY <1>1, <1>2, Invariant, PTL DEF Spec, ImplementsEditedAxes, Promise!EditsSpec
=============================================================================
