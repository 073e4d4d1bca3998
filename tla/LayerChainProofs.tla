-------------------------- MODULE LayerChainProofs --------------------------
(***************************************************************************)
(* Citations are stable, every artifact within the depth ceiling opens,    *)
(* and rebases and compactions are faithful to what was recorded, for any  *)
(* sizes, ceilings and numbers of artifacts.                               *)
(***************************************************************************)
EXTENDS LayerChain, FiniteSetTheorems, SequenceTheorems, WellFoundedInduction, TLAPS

(***************************************************************************)
(* The inductive invariant.  What a chain serves is decided by the members *)
(* of its head, so the invariant speaks of one artifact at a time: its     *)
(* fields fit each other, its chain is closed under ancestors, the         *)
(* intervals of its members are disjoint and cover its ids, and each link  *)
(* of it passes the reader's checks.                                       *)
(***************************************************************************)

\* packs is a sequence; no more is needed of what it holds.
IsHistory == packs \in Seq({packs[p] : p \in Packs})

\* The fields of an artifact fit each other.
WellFormed(p) ==
    /\ packs[p].members \in Seq(Nat)
    /\ packs[p].members # <<>>
    /\ packs[p].members[Len(packs[p].members)] = p
    /\ packs[p].depth = Len(packs[p].members) - 1
    /\ packs[p].rowBase \in Nat
    /\ Records(p) \in Nat
    /\ packs[p].mask \subseteq 0 .. packs[p].rowBase - 1
    /\ packs[p].edges \subseteq Edge

\* Ancestors are artifacts, and theirs are among p's; they have the same base
\* and no ids p does not have.
Closed(p) ==
    \A m \in Members(p) :
        /\ m \in Packs
        /\ Members(m) \subseteq Members(p)
        /\ packs[m].members[1] = packs[p].members[1]
        /\ RowTotal(m) <= RowTotal(p)

Disjoint(p) ==
    \A m, o \in Members(p) :
        m = o \/ RowTotal(m) <= packs[o].rowBase \/ RowTotal(o) <= packs[m].rowBase

Covered(p) == \A id \in Ids(p) : \E m \in Members(p) : Owns(m, id)

Linked(p) ==
    \A i \in 2 .. Len(packs[p].members) :
        LinkAccepted(packs[p].members[i - 1], packs[p].members[i])

Sound(p) == WellFormed(p) /\ Closed(p) /\ Disjoint(p) /\ Covered(p) /\ Linked(p)

ChainInv == IsHistory /\ \A p \in Packs : Sound(p)

-----------------------------------------------------------------------------
(***************************************************************************)
(* What one more artifact leaves alone: everything about the earlier ones. *)
(***************************************************************************)

\* Appending an artifact keeps the others in their places.
LEMMA EarlierKept ==
    ASSUME IsHistory, NEW new, packs' = Append(packs, new)
    PROVE  /\ Len(packs) \in Nat
           /\ Packs = 1 .. Len(packs)
           /\ Packs' = 1 .. (Len(packs) + 1)
           /\ \A p \in Packs : packs'[p] = packs[p]
           /\ packs'[Len(packs) + 1] = new
           /\ IsHistory'
<1> DEFINE S == {packs[p] : p \in Packs}
           T == S \cup {new}
<1>1. packs \in Seq(S)
  BY DEF IsHistory
<1>2. Len(packs) \in Nat /\ Packs = 1 .. Len(packs)
  BY <1>1, LenProperties DEF Packs
<1>3. packs' \in Seq(T) /\ Len(packs') = Len(packs) + 1
  <2>1. packs \in Seq(T)
    BY <1>1, SeqMonotonic
  <2> QED
    BY <2>1 
<1>4. Packs' = 1 .. (Len(packs) + 1)
  BY <1>2, <1>3, LenProperties DEF Packs
<1>5. /\ \A p \in Packs : packs'[p] = packs[p]
      /\ packs'[Len(packs) + 1] = new
  BY <1>1, <1>2
<1>6. T = {packs'[p] : p \in Packs'}
  BY <1>2, <1>4, <1>5
<1> QED
  BY <1>2, <1>3, <1>4, <1>5, <1>6 DEF IsHistory

\* An earlier artifact stays sound: its chain lies among the earlier ones.
LEMMA EarlierSound ==
    ASSUME ChainInv, NEW new, packs' = Append(packs, new), NEW p \in Packs
    PROVE  Sound(p)'
<1>1. /\ Packs \subseteq Packs'
      /\ \A q \in Packs : packs'[q] = packs[q]
  BY EarlierKept DEF ChainInv
<1>2. Sound(p)
  BY DEF ChainInv
<1>3. \A q \in Packs : /\ Members(q)' = Members(q)
                       /\ Records(q)' = Records(q)
                       /\ RowTotal(q)' = RowTotal(q)
                       /\ Ids(q)' = Ids(q)
  BY <1>1 DEF Members, Records, RowTotal, Ids
<1>4. Members(p) \subseteq Packs
  BY <1>2 DEF Sound, Closed
<1>5. \A m \in Members(p) : \A id : Owns(m, id)' <=> Owns(m, id)
  BY <1>1, <1>3, <1>4 DEF Owns
<1>6. WellFormed(p)'
  BY <1>1, <1>2, <1>3 DEF Sound, WellFormed
<1>7. Closed(p)'
  BY <1>1, <1>2, <1>3, <1>4 DEF Sound, Closed
<1>8. Disjoint(p)'
  <2>1. Members(p)' = Members(p)
    BY <1>3
  <2>2. \A m \in Members(p) : RowTotal(m)' = RowTotal(m) /\ packs'[m] = packs[m]
    BY <1>1, <1>3, <1>4
  <2> QED
    BY <1>2, <2>1, <2>2 DEF Sound, Disjoint
<1>9. Covered(p)'
  BY <1>2, <1>3, <1>5 DEF Sound, Covered
<1>10. Linked(p)'
  <2>1. ASSUME NEW q \in Members(p), NEW c \in Members(p), LinkAccepted(q, c)
        PROVE  LinkAccepted(q, c)'
    <3>1. packs'[q] = packs[q] /\ packs'[c] = packs[c]
      BY <1>1, <1>4
    <3>2. RowTotal(q)' = RowTotal(q) /\ RowTotal(c)' = RowTotal(c) /\ Records(c)' = Records(c)
      BY <1>3, <1>4
    <3>3. \A id : Owns(c, id)' <=> Owns(c, id)
      BY <1>5
    <3> QED
      BY <2>1, <3>1, <3>2, <3>3 DEF LinkAccepted
  <2>2. packs'[p] = packs[p]
    BY <1>1
  <2>3. ASSUME NEW i \in 2 .. Len(packs[p].members)
        PROVE  LinkAccepted(packs[p].members[i - 1], packs[p].members[i])'
    <3>1. packs[p].members \in Seq(Nat) /\ Len(packs[p].members) \in Nat
      BY <1>2, LenProperties DEF Sound, WellFormed
    <3>2. i - 1 \in DOMAIN packs[p].members /\ i \in DOMAIN packs[p].members
      BY <3>1, LenProperties
    <3>3. packs[p].members[i - 1] \in Members(p) /\ packs[p].members[i] \in Members(p)
      BY <3>2 DEF Members
    <3>4. LinkAccepted(packs[p].members[i - 1], packs[p].members[i])
      BY <1>2 DEF Sound, Linked
    <3>5. PICK q \in Members(p), c \in Members(p) :
              q = packs[p].members[i - 1] /\ c = packs[p].members[i]
      BY <3>3
    <3>6. LinkAccepted(q, c)'
      BY <2>1, <3>4, <3>5
    <3> QED
      BY <2>2, <3>5, <3>6 DEF LinkAccepted, Owns, Records, RowTotal
  <2> QED
    BY <2>2, <2>3 DEF Linked
<1> QED
  BY <1>6, <1>7, <1>8, <1>9, <1>10 DEF Sound

-----------------------------------------------------------------------------
(***************************************************************************)
(* What a producer has to see to for its artifact to be sound.             *)
(***************************************************************************)

\* A layer is sound whose rows fit under the ceiling, whose mask extends its
\* parent's within the parent's ids, and whose edges lead from its mask to its
\* own rows.
LayerFits(head, n, mask, edges) ==
    /\ RowTotal(head) + n <= MaxRecords
    /\ packs[head].mask \subseteq mask
    /\ mask \subseteq 0 .. RowTotal(head) - 1
    /\ n = 0 => mask # packs[head].mask
    /\ edges \subseteq Edge
    /\ \A e \in edges : /\ e[1] \in mask
                        /\ RowTotal(head) <= e[2] /\ e[2] < RowTotal(head) + n
    /\ \A e, f \in edges : e[1] = f[1] => e = f

LEMMA LayerSound ==
    ASSUME ChainInv, NEW head \in Packs, NEW rows, NEW mask, NEW edges, NEW rebased,
           Len(rows) \in Nat, LayerFits(head, Len(rows), mask, edges),
           packs' = Append(packs, Layer(head, rows, mask, edges, rebased)),
           NEW self, self = Len(packs) + 1
    PROVE  Sound(self)'
<1>1. /\ Len(packs) \in Nat
      /\ Packs = 1 .. Len(packs)
      /\ Packs' = 1 .. (Len(packs) + 1)
      /\ \A p \in Packs : packs'[p] = packs[p]
      /\ packs'[Len(packs) + 1] = Layer(head, rows, mask, edges, rebased)
  BY EarlierKept DEF ChainInv
<1>2. self \in Nat
  BY <1>1
<1>3. /\ self \in Packs' /\ self \notin Packs
      /\ Packs' = Packs \cup {self}
      /\ packs'[self] = Layer(head, rows, mask, edges, rebased)
  BY <1>1
<1>4. Sound(head)
  BY DEF ChainInv
<1> DEFINE m == packs[head].members
<1>5. m \in Seq(Nat) /\ Len(m) \in Nat \ {0} /\ DOMAIN m = 1 .. Len(m)
  BY <1>4, LenProperties, EmptySeq DEF Sound, WellFormed
<1>6. /\ packs'[self].members = Append(m, self)
      /\ packs'[self].depth = Len(m)
      /\ packs'[self].rowBase = RowTotal(head)
      /\ packs'[self].rows = rows
      /\ packs'[self].mask = mask
      /\ packs'[self].edges = edges
  BY <1>3 DEF Layer
<1>7. /\ Append(m, self) \in Seq(Nat)
      /\ Len(Append(m, self)) = Len(m) + 1
      /\ \A i \in 1 .. Len(m) : Append(m, self)[i] = m[i]
      /\ Append(m, self)[Len(m) + 1] = self
  BY <1>5
<1>8. DOMAIN Append(m, self) = 1 .. (Len(m) + 1)
  BY <1>7, LenProperties
<1>9. /\ Members(self)' = Members(head) \cup {self}
      /\ Records(self)' = Len(rows)
      /\ RowTotal(self)' = RowTotal(head) + Len(rows)
  <2>1. Members(self)' = {Append(m, self)[i] : i \in 1 .. (Len(m) + 1)}
    BY <1>6, <1>8 DEF Members
  <2>2. Members(head) = {m[i] : i \in 1 .. Len(m)}
    BY <1>5 DEF Members
  <2>3. 1 .. (Len(m) + 1) = (1 .. Len(m)) \cup {Len(m) + 1}
    BY <1>5
  <2> HIDE DEF m
  <2>4. Members(self)' = Members(head) \cup {self}
    BY <2>1, <2>2, <2>3, <1>7
  <2> QED
    BY <2>4, <1>6 DEF Records, RowTotal
<1>10. \A q \in Packs : /\ Members(q)' = Members(q)
                        /\ Records(q)' = Records(q)
                        /\ RowTotal(q)' = RowTotal(q)
                        /\ packs'[q] = packs[q]
  BY <1>1 DEF Members, Records, RowTotal
<1>11. RowTotal(head) \in Nat
  BY <1>4 DEF Sound, WellFormed, RowTotal
<1>12. ASSUME NEW q \in Members(head)
       PROVE  /\ q \in Packs
              /\ Members(q) \subseteq Members(head)
              /\ packs[q].members[1] = m[1]
              /\ RowTotal(q) <= RowTotal(head)
              /\ RowTotal(q) \in Nat /\ packs[q].rowBase \in Nat
  <2>1. /\ q \in Packs
        /\ Members(q) \subseteq Members(head)
        /\ packs[q].members[1] = m[1]
        /\ RowTotal(q) <= RowTotal(head)
    BY <1>4 DEF Sound, Closed
  <2>2. WellFormed(q)
    BY <2>1 DEF ChainInv, Sound
  <2>3. RowTotal(q) \in Nat /\ packs[q].rowBase \in Nat
    BY <2>2 DEF WellFormed, RowTotal
  <2> QED
    BY <2>1, <2>3
<1>13. WellFormed(self)'
  <2>1. packs'[self].members \in Seq(Nat) /\ Len(packs'[self].members) = Len(m) + 1
    BY <1>6, <1>7
  <2>2. packs'[self].members # <<>>
    BY <2>1, <1>5
  <2>3. packs'[self].members[Len(packs'[self].members)] = self
    BY <2>1, <1>6, <1>7
  <2>4. packs'[self].depth = Len(packs'[self].members) - 1
    BY <2>1, <1>5, <1>6
  <2>5. packs'[self].rowBase \in Nat /\ packs'[self].mask \subseteq 0 .. packs'[self].rowBase - 1
    BY <1>6, <1>11 DEF LayerFits
  <2>6. Records(self)' \in Nat /\ packs'[self].edges \subseteq Edge
    BY <1>6, <1>9 DEF LayerFits
  <2> HIDE DEF m
  <2> QED
    BY <2>1, <2>2, <2>3, <2>4, <2>5, <2>6 DEF WellFormed, Edge
<1>14. Closed(self)'
  <2>1. packs'[self].members[1] = m[1]
    BY <1>5, <1>6, <1>7
  <2>2. ASSUME NEW q \in Members(head)
        PROVE  /\ q \in Packs'
               /\ Members(q)' \subseteq Members(self)'
               /\ packs'[q].members[1] = packs'[self].members[1]
               /\ RowTotal(q)' <= RowTotal(self)'
    <3>1. q \in Packs /\ q \in Packs'
      BY <1>3, <1>12
    <3>2. Members(q)' = Members(q) /\ RowTotal(q)' = RowTotal(q) /\ packs'[q] = packs[q]
      BY <3>1, <1>10
    <3>3. Members(q)' \subseteq Members(self)'
      BY <3>2, <1>9, <1>12
    <3>4. RowTotal(q)' <= RowTotal(self)'
      BY <3>2, <1>9, <1>11, <1>12
    <3> QED
      BY <3>1, <3>2, <3>3, <3>4, <2>1, <1>12
  <2>3. self \in Packs' /\ RowTotal(self)' <= RowTotal(self)'
    BY <1>3, <1>9, <1>11
  <2> QED
    BY <1>9, <2>2, <2>3 DEF Closed
<1>15. Disjoint(self)'
  <2>1. \A q, o \in Members(head) :
            q = o \/ RowTotal(q)' <= packs'[o].rowBase \/ RowTotal(o)' <= packs'[q].rowBase
    BY <1>4, <1>10, <1>12 DEF Sound, Disjoint
  <2>2. \A q \in Members(head) : RowTotal(q)' <= packs'[self].rowBase
    BY <1>6, <1>10, <1>12
  <2> QED
    BY <1>9, <2>1, <2>2 DEF Disjoint
<1>16. Covered(self)'
  <2>1. ASSUME NEW id \in Ids(self)'
        PROVE  \E q \in Members(self)' : Owns(q, id)'
    <3>1. CASE id < RowTotal(head)
      <4>1. id \in Ids(head)
        BY <2>1, <3>1, <1>9, <1>11 DEF Ids
      <4>2. PICK q \in Members(head) : Owns(q, id)
        BY <4>1, <1>4 DEF Sound, Covered
      <4> QED
        BY <4>2, <1>9, <1>10, <1>12 DEF Owns
    <3>2. CASE ~(id < RowTotal(head))
      <4>1. RowTotal(head) <= id /\ id < RowTotal(self)'
        BY <2>1, <3>2, <1>9, <1>11 DEF Ids
      <4> QED
        BY <4>1, <1>6, <1>9 DEF Owns
    <3> QED
      BY <3>1, <3>2
  <2> QED
    BY <2>1 DEF Covered
<1>17. LinkAccepted(head, self)'
  <2>1. packs'[head].depth = Len(m) - 1 /\ packs'[head].mask = packs[head].mask
    BY <1>4, <1>10 DEF Sound, WellFormed
  <2>2. RowTotal(head)' = RowTotal(head)
    BY <1>10
  <2>3. \A e \in edges : Owns(self, e[2])'
    BY <1>6, <1>9 DEF Owns, LayerFits
  <2> QED
    BY <1>5, <1>6, <1>9, <2>1, <2>2, <2>3 DEF LinkAccepted, LayerFits
<1>18. Linked(self)'
  <2>1. ASSUME NEW q \in Members(head), NEW c \in Members(head), LinkAccepted(q, c)
        PROVE  LinkAccepted(q, c)'
    BY <2>1, <1>10, <1>12 DEF LinkAccepted, Owns
  <2>2. ASSUME NEW i \in 2 .. (Len(m) + 1)
        PROVE  \E q, c : /\ q = Append(m, self)[i - 1] /\ c = Append(m, self)[i]
                         /\ LinkAccepted(q, c)'
    <3>1. CASE i <= Len(m)
      <4>1. i - 1 \in 1 .. Len(m) /\ i \in 1 .. Len(m)
        BY <2>2, <3>1, <1>5
      <4>2. m[i - 1] \in Members(head) /\ m[i] \in Members(head)
        BY <4>1, <1>5 DEF Members
      <4>3. PICK q \in Members(head), c \in Members(head) : q = m[i - 1] /\ c = m[i]
        BY <4>2
      <4>4. LinkAccepted(m[i - 1], m[i])
        BY <1>4, <2>2, <3>1, <1>5 DEF Sound, Linked
      <4>5. LinkAccepted(q, c)'
        BY <2>1, <4>3, <4>4
      <4>6. q = Append(m, self)[i - 1] /\ c = Append(m, self)[i]
        BY <4>1, <4>3, <1>7
      <4> HIDE DEF m
      <4> QED
        BY <4>5, <4>6
    <3>2. CASE ~(i <= Len(m))
      <4>1. i = Len(m) + 1
        BY <2>2, <3>2, <1>5
      <4>2. m[Len(m)] = head
        BY <1>4 DEF Sound, WellFormed
      <4>3. head = Append(m, self)[i - 1] /\ self = Append(m, self)[i]
        BY <4>1, <4>2, <1>5, <1>7
      <4> HIDE DEF m
      <4> QED
        BY <4>3, <1>17
    <3> QED
      BY <3>1, <3>2
  <2>3. ASSUME NEW i \in 2 .. Len(packs'[self].members)
        PROVE  LinkAccepted(packs[self].members[i - 1], packs[self].members[i])'
    <3>1. PICK q, c : /\ q = packs'[self].members[i - 1] /\ c = packs'[self].members[i]
                      /\ LinkAccepted(q, c)'
      <4>1. i \in 2 .. (Len(m) + 1)
        BY <2>3, <1>6, <1>7
      <4> HIDE DEF m
      <4> QED
        BY <4>1, <2>2, <1>6
    <3> QED
      BY <3>1 DEF LinkAccepted, Owns, Records, RowTotal
  <2> QED
    BY <2>3 DEF Linked
<1> QED
  BY <1>13, <1>14, <1>15, <1>16, <1>18 DEF Sound

\* A base without tombstones is sound by itself.
IsBase(self) ==
    /\ packs[self].members = <<self>>
    /\ packs[self].depth = 0
    /\ packs[self].rowBase = 0
    /\ packs[self].mask = {}
    /\ packs[self].edges = {}
    /\ Records(self) \in Nat

BasesSound == \A self \in Packs \cap Nat : IsBase(self) => Sound(self)

LEMMA BaseSound == BasesSound
<1> SUFFICES ASSUME NEW self \in Packs \cap Nat, IsBase(self)
             PROVE  Sound(self)
  BY DEF BasesSound
<1>1. /\ <<self>> \in Seq(Nat) /\ Len(<<self>>) = 1 /\ <<self>>[1] = self
      /\ DOMAIN <<self>> = {1}
  OBVIOUS
<1>2. Members(self) = {self} /\ RowTotal(self) = Records(self)
  BY <1>1 DEF Members, RowTotal, IsBase
<1>3. WellFormed(self)
  BY <1>1 DEF WellFormed, IsBase
<1>4. Closed(self)
  BY <1>2 DEF Closed, IsBase
<1>5. Disjoint(self)
  BY <1>2 DEF Disjoint
<1>6. Covered(self)
  BY <1>2 DEF Covered, Ids, Owns, IsBase
<1>7. Linked(self)
  BY <1>1 DEF Linked, IsBase
<1> QED
  BY <1>3, <1>4, <1>5, <1>6, <1>7 DEF Sound

-----------------------------------------------------------------------------
(***************************************************************************)
(* The producers see to it.                                                *)
(***************************************************************************)

\* What every sound artifact gives the steps below.
LEMMA SoundFacts ==
    ASSUME ChainInv, NEW p \in Packs
    PROVE  /\ packs[p].members \in Seq(Nat) /\ Len(packs[p].members) \in Nat \ {0}
           /\ DOMAIN packs[p].members = 1 .. Len(packs[p].members)
           /\ packs[p].depth = Len(packs[p].members) - 1
           /\ packs[p].rowBase \in Nat /\ Records(p) \in Nat /\ RowTotal(p) \in Nat
           /\ packs[p].rowBase <= RowTotal(p)
           /\ packs[p].mask \subseteq 0 .. packs[p].rowBase - 1
           /\ packs[p].edges \subseteq Edge
<1>1. WellFormed(p)
  BY DEF ChainInv, Sound
<1>2. Len(packs[p].members) \in Nat \ {0} /\ DOMAIN packs[p].members = 1 .. Len(packs[p].members)
  BY <1>1, LenProperties, EmptySeq DEF WellFormed
<1> QED
  BY <1>1, <1>2 DEF WellFormed, RowTotal

\* append: ids below the head's row total go into the mask, edges lead to the
\* rows appended.
LEMMA AppendFits ==
    ASSUME ChainInv, NEW head \in Packs, NEW n \in Nat,
           NEW remove \in SUBSET Ids(head), NEW supersede \in SUBSET (Ids(head) \X (0 .. n - 1)),
           AppendLayer(head, n, remove, supersede)
    PROVE  LayerFits(head, n, packs[head].mask \cup (remove \cup {s[1] : s \in supersede}),
                     {<<s[1], RowTotal(head) + s[2]>> : s \in supersede})
<1> DEFINE mask == packs[head].mask \cup (remove \cup {s[1] : s \in supersede})
           edges == {<<s[1], RowTotal(head) + s[2]>> : s \in supersede}
<1>1. /\ RowTotal(head) \in Nat /\ packs[head].rowBase \in Nat
      /\ packs[head].rowBase <= RowTotal(head)
      /\ packs[head].mask \subseteq 0 .. packs[head].rowBase - 1
  BY SoundFacts
<1>2. RowTotal(head) + n <= MaxRecords
  BY DEF AppendLayer
<1>3. packs[head].mask \subseteq mask /\ mask \subseteq 0 .. RowTotal(head) - 1
  <2>1. packs[head].mask \subseteq 0 .. RowTotal(head) - 1
    BY <1>1
  <2>2. remove \subseteq 0 .. RowTotal(head) - 1
    BY DEF Ids
  <2>3. \A s \in supersede : s[1] \in 0 .. RowTotal(head) - 1
    BY DEF Ids
  <2> QED
    BY <2>1, <2>2, <2>3
<1>4. n = 0 => mask # packs[head].mask
  BY DEF AppendLayer
<1>5. ASSUME NEW e \in edges
      PROVE  /\ e \in Edge /\ e[1] \in mask
             /\ RowTotal(head) <= e[2] /\ e[2] < RowTotal(head) + n
  <2>1. PICK s \in supersede : e = <<s[1], RowTotal(head) + s[2]>>
    BY <1>5
  <2>2. s[1] \in Nat /\ s[2] \in 0 .. n - 1
    BY <1>1 DEF Ids
  <2> QED
    BY <1>1, <2>1, <2>2 DEF Edge
<1>6. ASSUME NEW e \in edges, NEW f \in edges, e[1] = f[1]
      PROVE  e = f
  <2>1. PICK s \in supersede : e = <<s[1], RowTotal(head) + s[2]>>
    BY <1>6
  <2>2. PICK t \in supersede : f = <<t[1], RowTotal(head) + t[2]>>
    BY <1>6
  <2>3. s[1] = t[1]
    BY <1>6, <2>1, <2>2
  <2>4. s[2] = t[2]
    BY <2>3 DEF AppendLayer
  <2> QED
    BY <2>1, <2>2, <2>3, <2>4
<1> HIDE DEF mask, edges
<1>7. LayerFits(head, n, mask, edges)
  BY <1>2, <1>3, <1>4, <1>5, <1>6 DEF LayerFits
<1> QED
  BY <1>7 DEF mask, edges

\* A non-empty set of numbers up to n has a greatest one.
LEMMA GreatestExists ==
    ASSUME NEW n \in Nat, NEW S \in SUBSET (1 .. n), S # {}
    PROVE  \E x \in S : \A y \in S : y <= x
<1> DEFINE T == {n - x : x \in S}
           less == OpToRel(<, Nat)
<1>1. T \subseteq Nat /\ T # {}
  <2>1. \A x \in S : x \in 1 .. n /\ n - x \in Nat
    OBVIOUS
  <2>2. PICK x \in S : TRUE
    OBVIOUS
  <2>3. n - x \in T
    BY <2>2
  <2> QED
    BY <2>1, <2>3
<1>2. IsWellFoundedOn(less, Nat)
  BY NatLessThanWellFounded
<1>3. PICK t \in T : \A u \in T : <<u, t>> \notin less
  <2> HIDE DEF T, less
  <2> QED
    BY <1>1, <1>2, WFMin
<1>4. \A u \in T : ~(u < t)
  BY <1>1, <1>3 DEF OpToRel
<1>5. PICK x \in S : t = n - x
  BY <1>3
<1>6. \A y \in S : ~(n - y < n - x)
  BY <1>4, <1>5
<1>7. \A y \in S : y \in Int
  OBVIOUS
<1> HIDE DEF T, less
<1>8. \A y \in S : y <= x
  BY <1>6, <1>7
<1> QED
  BY <1>8

\* The fork of a layer's parent and a head of the same base lies within both:
\* it is a row total of one of the head's own chain.
LEMMA ForkBound ==
    ASSUME ChainInv, NEW p \in Packs, NEW q \in Packs,
           packs[p].members[1] = packs[q].members[1]
    PROVE  ForkRowBase(p, q) \in Nat /\ ForkRowBase(p, q) <= RowTotal(q)
<1> DEFINE m == packs[p].members
           n == packs[q].members
           common == {i \in DOMAIN m \cap DOMAIN n : \A j \in 1 .. i : m[j] = n[j]}
           fork == SharedPrefix(p, q)
<1>1. /\ Len(m) \in Nat \ {0} /\ DOMAIN m = 1 .. Len(m)
      /\ Len(n) \in Nat \ {0} /\ DOMAIN n = 1 .. Len(n)
  BY SoundFacts
<1>2. 1 \in common
  BY <1>1
<1>3. common \subseteq 1 .. Len(m)
  BY <1>1
<1>4. \E i \in common : \A j \in common : j <= i
  <2> HIDE DEF common
  <2> QED
    BY <1>1, <1>2, <1>3, GreatestExists
<1>5. fork \in common
  <2>1. fork = CHOOSE i \in common : \A j \in common : j <= i
    BY DEF SharedPrefix
  <2> HIDE DEF common, fork
  <2> QED
    BY <1>4, <2>1
<1>6. fork \in DOMAIN n /\ m[fork] = n[fork]
  BY <1>1, <1>3, <1>5
<1>7. m[fork] \in Members(q)
  BY <1>6 DEF Members
<1>8. m[fork] \in Packs /\ RowTotal(m[fork]) <= RowTotal(q)
  BY <1>7 DEF ChainInv, Sound, Closed
<1>9. RowTotal(m[fork]) \in Nat
  BY <1>8, SoundFacts
<1> QED
  BY <1>8, <1>9 DEF ForkRowBase

\* rebase: the deletions and edges that survive are of ids below the fork, and
\* the edges' new ids move with the layer's rows.
LEMMA RebaseFits ==
    ASSUME ChainInv, NEW layer \in Packs, NEW head \in Packs,
           NEW onForeign, NEW onConflict, Rebase(layer, head, onForeign, onConflict)
    PROVE  \E mask, edges :
               /\ LayerFits(head, Records(layer), mask, edges)
               /\ packs' = Append(packs, Layer(head, packs[layer].rows, mask, edges, <<layer, head>>))
<1> DEFINE parent == Parent(layer)
           fork == ForkRowBase(parent, head)
           foreign == Foreign(layer, head)
           surviving == Surviving(layer, head)
           recorded == Recorded(layer, head, onConflict)
           mask == RebasedMask(layer, head, onConflict)
           edges == {Moved(layer, e, RowTotal(head)) : e \in recorded}
<1>1. /\ packs[layer].depth >= 1
      /\ packs[head].members[1] = packs[layer].members[1]
      /\ Records(layer) = 0 => mask # packs[head].mask
      /\ RowTotal(head) + Records(layer) <= MaxRecords
      /\ packs' = Append(packs, Layer(head, packs[layer].rows, mask, edges, <<layer, head>>))
  BY DEF Rebase, Publish
<1>2. /\ RowTotal(head) \in Nat /\ packs[head].rowBase <= RowTotal(head)
      /\ packs[head].rowBase \in Nat
      /\ packs[head].mask \subseteq 0 .. packs[head].rowBase - 1
  BY SoundFacts
<1>3. /\ packs[layer].rowBase \in Nat /\ Records(layer) \in Nat
      /\ packs[layer].mask \subseteq 0 .. packs[layer].rowBase - 1
      /\ packs[layer].edges \subseteq Edge
  BY SoundFacts
<1>4. parent \in Packs /\ packs[parent].members[1] = packs[layer].members[1]
  <2>1. parent \in Members(layer)
    <3>1. Len(packs[layer].members) - 1 \in DOMAIN packs[layer].members
      BY <1>1, SoundFacts
    <3> QED
      BY <3>1 DEF Parent, Members
  <2> QED
    BY <2>1 DEF ChainInv, Sound, Closed
<1>5. fork \in Nat /\ fork <= RowTotal(head)
  BY <1>1, <1>4, ForkBound
<1>6. recorded \subseteq surviving
  BY DEF Recorded
<1>7. LinkAccepted(parent, layer)
  <2>1. Len(packs[layer].members) \in 2 .. Len(packs[layer].members)
    BY <1>1, SoundFacts
  <2>2. packs[layer].members[Len(packs[layer].members)] = layer
    BY DEF ChainInv, Sound, WellFormed
  <2> QED
    BY <2>1, <2>2 DEF ChainInv, Sound, Linked, Parent
<1>8. \A x \in Delta(layer) \ foreign : x \in 0 .. RowTotal(head) - 1
  BY <1>2, <1>3, <1>5 DEF Delta, Foreign
<1>9. ASSUME NEW e \in recorded
      PROVE  /\ e \in packs[layer].edges /\ e \in Edge
             /\ e[1] \in 0 .. RowTotal(head) - 1
             /\ packs[layer].rowBase <= e[2] /\ e[2] < packs[layer].rowBase + Records(layer)
  <2>1. e \in packs[layer].edges /\ e[1] \notin foreign
    BY <1>6, <1>9 DEF Surviving
  <2>2. e \in Edge /\ e[1] \in Nat
    BY <2>1, <1>3 DEF Edge
  <2>3. ~(e[1] >= fork)
    BY <2>1 DEF Foreign
  <2>4. Owns(layer, e[2])
    BY <2>1, <1>7 DEF LinkAccepted
  <2> QED
    BY <2>1, <2>2, <2>3, <2>4, <1>2, <1>5 DEF Owns, RowTotal
<1>10. packs[head].mask \subseteq mask /\ mask \subseteq 0 .. RowTotal(head) - 1
  <2>1. packs[head].mask \subseteq 0 .. RowTotal(head) - 1
    BY <1>2
  <2>2. \A e \in recorded : e[1] \in 0 .. RowTotal(head) - 1
    BY <1>9
  <2> QED
    BY <2>1, <2>2, <1>8 DEF RebasedMask
<1>11. ASSUME NEW e \in recorded
       PROVE  LET moved == Moved(layer, e, RowTotal(head))
              IN  /\ moved \in Edge /\ moved[1] = e[1] /\ moved[1] \in mask
                  /\ RowTotal(head) <= moved[2]
                  /\ moved[2] < RowTotal(head) + Records(layer)
  <2>1. e[1] \in Nat /\ e[2] \in Nat
    BY <1>9 DEF Edge
  <2>2. e[1] \in mask
    BY <1>11 DEF RebasedMask
  <2> HIDE DEF mask, recorded
  <2> QED
    BY <2>1, <2>2, <1>2, <1>3, <1>9 DEF Moved, Edge
<1>12. ASSUME NEW e \in edges, NEW f \in edges, e[1] = f[1]
       PROVE  e = f
  <2>1. PICK x \in recorded : e = Moved(layer, x, RowTotal(head))
    BY <1>12
  <2>2. PICK y \in recorded : f = Moved(layer, y, RowTotal(head))
    BY <1>12
  <2>3. x[1] = y[1]
    BY <1>12, <2>1, <2>2 DEF Moved
  <2>4. x \in packs[layer].edges /\ y \in packs[layer].edges
    BY <1>9
  <2>5. x = y
    BY <2>3, <2>4, <1>7 DEF LinkAccepted
  <2> QED
    BY <2>1, <2>2, <2>5
<1>13. LayerFits(head, Records(layer), mask, edges)
  <2>1. \A e \in edges : /\ e \in Edge /\ e[1] \in mask
                         /\ RowTotal(head) <= e[2]
                         /\ e[2] < RowTotal(head) + Records(layer)
    BY <1>11
  <2> HIDE DEF mask, edges
  <2> QED
    BY <1>1, <1>10, <1>12, <2>1 DEF LayerFits
<1> QED
  BY <1>1, <1>13

\* An append or a rebase writes a layer that fits.
LEMMA NewLayerSound ==
    ASSUME ChainInv, NEW head \in Packs, NEW rows, NEW mask, NEW edges, NEW rebased,
           Len(rows) \in Nat, LayerFits(head, Len(rows), mask, edges),
           packs' = Append(packs, Layer(head, rows, mask, edges, rebased))
    PROVE  ChainInv'
<1>1. /\ Len(packs) \in Nat
      /\ Packs = 1 .. Len(packs)
      /\ Packs' = 1 .. (Len(packs) + 1)
      /\ IsHistory'
  BY EarlierKept DEF ChainInv
<1>2. \A p \in Packs : Sound(p)'
  BY EarlierSound
<1>3. \A self : self = Len(packs) + 1 => Sound(self)'
  BY LayerSound
<1>4. \A p \in Packs' : p \in Packs \/ p = Len(packs) + 1
  BY <1>1
<1> QED
  BY <1>1, <1>2, <1>3, <1>4 DEF ChainInv

\* A compaction writes a base: it has as many records as the head has live ids.
LEMMA CompactSound ==
    ASSUME ChainInv, NEW head \in Packs, Compact(head)
    PROVE  ChainInv'
<1> DEFINE rows == CopiedRows(head, LiveIds(head))
           new == Base(Len(packs) + 1, rows, LineageOf(head))
<1>1. packs' = Append(packs, new)
  BY DEF Compact, Publish
<1> HIDE DEF rows
<1>2. /\ Len(packs) \in Nat
      /\ Packs = 1 .. Len(packs)
      /\ Packs' = 1 .. (Len(packs) + 1)
      /\ packs'[Len(packs) + 1] = new
      /\ IsHistory'
  BY <1>1, EarlierKept DEF ChainInv
<1>3. Cardinality(Live(head)) \in Nat
  <2>1. RowTotal(head) \in Nat
    BY SoundFacts
  <2>2. IsFiniteSet(Ids(head))
    BY <2>1, FS_Interval DEF Ids
  <2>3. IsFiniteSet(Live(head))
    BY <2>2, FS_Subset DEF Live
  <2> QED
    BY <2>3, FS_CardinalityType
<1>4. Len(rows) \in Nat
  BY <1>3 DEF rows, CopiedRows, LiveIds
<1>5. ASSUME NEW self, self = Len(packs) + 1
      PROVE  Sound(self)'
  <2>1. self \in (Packs \cap Nat)'
    BY <1>2, <1>5
  <2>2. IsBase(self)'
    BY <1>2, <1>4, <1>5 DEF IsBase, Base, Records
  <2>3. BasesSound'
    BY BaseSound, PTL
  <2> QED
    BY <2>1, <2>2, <2>3 DEF BasesSound
<1>6. \A p \in Packs : Sound(p)'
  BY <1>1, EarlierSound
<1>7. \A p \in Packs' : p \in Packs \/ p = Len(packs) + 1
  BY <1>2
<1> QED
  BY <1>2, <1>5, <1>6, <1>7 DEF ChainInv

-----------------------------------------------------------------------------
LEMMA ChainInit == Init => ChainInv
<1> SUFFICES ASSUME Init PROVE ChainInv
  OBVIOUS
<1>1. PICK n \in BaseRows : packs = <<Base(1, FreshRows(1, n), NoLineage)>>
  BY DEF Init
<1>2. Packs = {1} /\ packs[1] = Base(1, FreshRows(1, n), NoLineage)
  BY <1>1 DEF Packs
<1>3. IsHistory
  BY <1>1, <1>2 DEF IsHistory
<1>4. Len(FreshRows(1, n)) \in Nat
  BY BaseAssumption DEF FreshRows
<1>5. IsBase(1)
  BY <1>2, <1>4 DEF IsBase, Base, Records
<1> QED
  BY <1>2, <1>3, <1>5, BaseSound DEF ChainInv, BasesSound

LEMMA ChainStep == ChainInv /\ [Next]_packs => ChainInv'
<1> SUFFICES ASSUME ChainInv, [Next]_packs PROVE ChainInv'
  OBVIOUS
<1>1. ASSUME NEW head \in Packs, NEW n \in 0 .. MaxNew,
             NEW remove \in Few(Ids(head)), NEW supersede \in Few(Ids(head) \X (0 .. n - 1)),
             AppendLayer(head, n, remove, supersede)
      PROVE  ChainInv'
  <2>1. n \in Nat /\ remove \in SUBSET Ids(head)
        /\ supersede \in SUBSET (Ids(head) \X (0 .. n - 1))
    BY BoundAssumption DEF Few
  <2> DEFINE rows == FreshRows(Len(packs) + 1, n)
             mask == packs[head].mask \cup (remove \cup {s[1] : s \in supersede})
             edges == {<<s[1], RowTotal(head) + s[2]>> : s \in supersede}
  <2>2. Len(rows) = n
    BY <2>1 DEF FreshRows
  <2>3. LayerFits(head, n, mask, edges)
    BY <1>1, <2>1, AppendFits
  <2>4. packs' = Append(packs, Layer(head, rows, mask, edges, <<>>))
    BY <1>1 DEF AppendLayer, Publish
  <2> HIDE DEF rows, mask, edges
  <2> QED
    BY <2>1, <2>2, <2>3, <2>4, NewLayerSound
<1>2. ASSUME NEW layer \in Packs, NEW head \in Packs, NEW onForeign, NEW onConflict,
             Rebase(layer, head, onForeign, onConflict)
      PROVE  ChainInv'
  <2>1. Len(packs[layer].rows) \in Nat
    BY SoundFacts DEF Records
  <2> QED
    BY <1>2, <2>1, RebaseFits, NewLayerSound DEF Records
<1>3. ASSUME NEW head \in Packs, Compact(head)
      PROVE  ChainInv'
  BY <1>3, CompactSound
<1>4. CASE UNCHANGED packs
  <2>1. IsHistory' /\ Packs' = Packs
    BY <1>4 DEF ChainInv, IsHistory, Packs
  <2>2. ASSUME NEW p \in Packs
        PROVE  Sound(p)'
    <3>1. Sound(p)
      BY DEF ChainInv
    <3>2. /\ \A q : Records(q)' = Records(q) /\ Members(q)' = Members(q)
          /\ \A q : RowTotal(q)' = RowTotal(q) /\ Ids(q)' = Ids(q)
          /\ \A q, id : Owns(q, id)' <=> Owns(q, id)
      BY <1>4 DEF Records, RowTotal, Members, Ids, Owns
    <3>3. WellFormed(p)'
      BY <1>4, <3>1, <3>2 DEF Sound, WellFormed
    <3>4. Closed(p)'
      BY <1>4, <2>1, <3>1, <3>2 DEF Sound, Closed
    <3>5. Disjoint(p)' /\ Covered(p)'
      BY <1>4, <3>1, <3>2 DEF Sound, Disjoint, Covered
    <3>6. ASSUME NEW q, NEW c, LinkAccepted(q, c) PROVE LinkAccepted(q, c)'
      BY <1>4, <3>2, <3>6 DEF LinkAccepted
    <3>7. Linked(p)'
      <4>1. ASSUME NEW i \in 2 .. Len(packs'[p].members)
            PROVE  LinkAccepted(packs[p].members[i - 1], packs[p].members[i])'
        <5>1. PICK q, c : /\ q = packs[p].members[i - 1] /\ c = packs[p].members[i]
                          /\ LinkAccepted(q, c)
          BY <1>4, <3>1 DEF Sound, Linked
        <5>2. LinkAccepted(q, c)'
          BY <5>1, <3>6
        <5> QED
          BY <1>4, <5>1, <5>2 DEF LinkAccepted, Owns, Records, RowTotal
      <4> QED
        BY <4>1 DEF Linked
    <3> QED
      BY <3>3, <3>4, <3>5, <3>7 DEF Sound
  <2> QED
    BY <2>1, <2>2 DEF ChainInv
<1> QED
  BY <1>1, <1>2, <1>3, <1>4 DEF Next

LEMMA ChainInvariant == Spec => []ChainInv
  BY ChainInit, ChainStep, PTL DEF Spec

-----------------------------------------------------------------------------
\* An id names one row of one member under every head of its history, for any
\* chain of any depth (buildAncestry, ownerOf).
THEOREM CitationsAreStable == Spec => []CitationsStable
<1>1. ChainInv => CitationsStable
  <2> SUFFICES ASSUME ChainInv, NEW p \in Packs, NEW id \in Ids(p)
               PROVE  /\ \E m \in Members(p) : {o \in Members(p) : Owns(o, id)} = {m}
                      /\ \A a \in Members(p) : id < RowTotal(a) => Row(a, id) = Row(p, id)
    BY DEF CitationsStable
  <2>1. Covered(p) /\ Disjoint(p) /\ Closed(p)
    BY DEF ChainInv, Sound
  <2>2. PICK m \in Members(p) : Owns(m, id)
    BY <2>1 DEF Covered
  <2>3. id \in Nat
    BY SoundFacts DEF Ids
  <2>4. ASSUME NEW o \in Members(p), Owns(o, id)
        PROVE  o = m
    <3>1. o \in Packs /\ m \in Packs
      BY <2>1 DEF Closed
    <3>2. /\ packs[o].rowBase \in Nat /\ RowTotal(o) \in Nat
          /\ packs[m].rowBase \in Nat /\ RowTotal(m) \in Nat
      BY <3>1, SoundFacts
    <3>3. o = m \/ RowTotal(o) <= packs[m].rowBase \/ RowTotal(m) <= packs[o].rowBase
      BY <2>1 DEF Disjoint
    <3> QED
      BY <2>2, <2>3, <2>4, <3>2, <3>3 DEF Owns
  <2>5. OwnerOf(p, id) = m
    BY <2>2, <2>4 DEF OwnerOf
  <2>6. ASSUME NEW a \in Members(p), id < RowTotal(a)
        PROVE  OwnerOf(a, id) = m
    <3>1. a \in Packs /\ Members(a) \subseteq Members(p)
      BY <2>1 DEF Closed
    <3>2. id \in Ids(a)
      BY <2>3, <2>6, <3>1, SoundFacts DEF Ids
    <3>3. \E o \in Members(a) : Owns(o, id)
      BY <3>1, <3>2 DEF ChainInv, Sound, Covered
    <3>4. \A o \in Members(a) : Owns(o, id) => o = m
      BY <2>4, <3>1
    <3> QED
      BY <3>3, <3>4 DEF OwnerOf
  <2> QED
    BY <2>2, <2>4, <2>5, <2>6 DEF Row
<1> QED
  BY <1>1, ChainInvariant, PTL

\* Whatever is appended, rebased and compacted, in whatever order, an artifact
\* a reader refuses is one too deep (openPikeletChain, parseLayerManifest).
THEOREM OnlyDepthRefused == Spec => []OnlyDepthIsRefused
<1>1. ChainInv => OnlyDepthIsRefused
  <2> SUFFICES ASSUME ChainInv, NEW p \in Packs, packs[p].depth <= MaxDepth
               PROVE  Opens(p)
    BY DEF OnlyDepthIsRefused
  <2>1. Linked(p) /\ packs[p].depth = Len(packs[p].members) - 1
    BY SoundFacts DEF ChainInv, Sound
  <2> QED
    BY <2>1 DEF Opens, Linked
<1> QED
  BY <1>1, ChainInvariant, PTL

-----------------------------------------------------------------------------
(***************************************************************************)
(* What the second invariant adds: chains are paths of one tree, masks     *)
(* accumulate along them, and an artifact says how it was written.         *)
(***************************************************************************)

\* The chain of an ancestor is p's own chain up to it.
Prefixed(p) ==
    \A i \in DOMAIN packs[p].members :
        /\ Len(packs[packs[p].members[i]].members) = i
        /\ \A j \in 1 .. i : packs[packs[p].members[i]].members[j] = packs[p].members[j]

\* Masks are cumulative, and a base has no edges.
Accumulates(p) == \A m \in Members(p) : packs[m].mask \subseteq packs[p].mask
Bare(p) == packs[p].depth = 0 => packs[p].edges = {}

TreeInv == \A p \in Packs : Prefixed(p) /\ Accumulates(p) /\ Bare(p)

Resolutions == {"refuse", "skip", "keep-both"}

\* An artifact a rebase wrote.
RebaseOf(p, layer, head, onConflict) ==
    /\ packs[p].rebased = <<layer, head>>
    /\ packs[layer].depth >= 1
    /\ packs[head].members[1] = packs[layer].members[1]
    /\ onConflict = "refuse" => Conflicts(layer, head) = {}
    /\ packs[p].members = Append(packs[head].members, p)
    /\ packs[p].rows = packs[layer].rows
    /\ packs[p].mask = RebasedMask(layer, head, onConflict)
    /\ packs[p].edges = {Moved(layer, e, RowTotal(head)) : e \in Recorded(layer, head, onConflict)}

Rebased(p) ==
    packs[p].rebased # <<>> =>
        \E layer, head \in Packs, onConflict \in Resolutions : RebaseOf(p, layer, head, onConflict)

\* An artifact a compaction wrote.
Compacted(p) ==
    packs[p].lineage # NoLineage =>
        \E head \in Packs :
            /\ packs[p].members = <<p>>
            /\ packs[p].rowBase = 0
            /\ packs[p].lineage = LineageOf(head)
            /\ packs[p].rows = CopiedRows(head, LiveIds(head))

Fields == {"members", "depth", "rowBase", "rows", "mask", "edges", "lineage", "rebased"}

\* What TypeOK says of an artifact and WellFormed does not.
Typed(p) ==
    /\ DOMAIN packs[p] = Fields
    /\ packs[p].rows \in Seq(Packs \X Nat)
    /\ packs[p].lineage \in Lineages
    /\ packs[p].rebased \in Seq(Packs)

ToldInv == \A p \in Packs : Rebased(p) /\ Compacted(p) /\ Typed(p)


\* Earlier artifacts are what they were.
Kept == Packs \subseteq Packs' /\ \A p \in Packs : packs'[p] = packs[p]

LEMMA Same ==
    ASSUME ChainInv, Kept, NEW p \in Packs
    PROVE  /\ p \in Packs' /\ packs'[p] = packs[p]
           /\ Members(p)' = Members(p) /\ Members(p) \subseteq Packs
           /\ Records(p)' = Records(p) /\ RowTotal(p)' = RowTotal(p)
           /\ Ids(p)' = Ids(p) /\ Live(p)' = Live(p)
           /\ \A id : Owns(p, id)' <=> Owns(p, id)
<1>1. p \in Packs' /\ packs'[p] = packs[p]
  BY DEF Kept
<1>2. Members(p) \subseteq Packs
  BY DEF ChainInv, Sound, Closed
<1> QED
  BY <1>1, <1>2 DEF Members, Records, RowTotal, Ids, Live, Owns

LEMMA EarlierTree ==
    ASSUME ChainInv, TreeInv, Kept, NEW p \in Packs
    PROVE  (Prefixed(p) /\ Accumulates(p) /\ Bare(p))'
<1>1. Prefixed(p) /\ Accumulates(p) /\ Bare(p)
  BY DEF TreeInv
<1>2. packs'[p] = packs[p] /\ Members(p)' = Members(p) /\ Members(p) \subseteq Packs
  BY Same
<1>3. \A m \in Members(p) : packs'[m] = packs[m]
  BY <1>2, Same
<1>4. \A i \in DOMAIN packs[p].members : packs'[packs[p].members[i]] = packs[packs[p].members[i]]
  BY <1>3 DEF Members
<1>5. Prefixed(p)'
  <2>1. ASSUME NEW i \in DOMAIN packs[p].members, NEW m, m = packs[p].members[i]
        PROVE  /\ Len(packs'[m].members) = i
               /\ \A j \in 1 .. i : packs'[m].members[j] = packs[p].members[j]
    BY <1>1, <1>4, <2>1 DEF Prefixed
  <2> QED
    BY <1>2, <2>1 DEF Prefixed
<1>6. Accumulates(p)' /\ Bare(p)'
  BY <1>1, <1>2, <1>3 DEF Accumulates, Bare
<1> QED
  BY <1>5, <1>6

\* A new layer's chain is its parent's and itself.
LEMMA LayerTree ==
    ASSUME ChainInv, ChainInv', TreeInv, Kept, NEW head \in Packs, NEW self \in Packs',
           packs'[self].members = Append(packs[head].members, self),
           packs[head].mask \subseteq packs'[self].mask
    PROVE  (Prefixed(self) /\ Accumulates(self) /\ Bare(self))'
<1> DEFINE m == packs[head].members
<1>1. m \in Seq(Nat) /\ Len(m) \in Nat \ {0} /\ DOMAIN m = 1 .. Len(m)
  BY SoundFacts
<1>2. self \in Nat
  BY DEF ChainInv, IsHistory, Packs
<1>3. /\ Len(Append(m, self)) = Len(m) + 1
      /\ DOMAIN Append(m, self) = 1 .. (Len(m) + 1)
      /\ \A i \in 1 .. Len(m) : Append(m, self)[i] = m[i]
      /\ Append(m, self)[Len(m) + 1] = self
  BY <1>1, <1>2
<1>4. ASSUME NEW i \in 1 .. Len(m)
      PROVE  /\ Len(packs'[m[i]].members) = i
             /\ \A j \in 1 .. i : packs'[m[i]].members[j] = m[j]
  <2>1. m[i] \in Members(head)
    BY <1>1 DEF Members
  <2>2. packs'[m[i]] = packs[m[i]]
    BY <2>1, Same
  <2>3. Prefixed(head)
    BY DEF TreeInv
  <2> QED
    BY <1>1, <2>2, <2>3 DEF Prefixed
<1>5. ASSUME NEW i \in 1 .. (Len(m) + 1), NEW q, q = Append(m, self)[i]
      PROVE  /\ Len(packs'[q].members) = i
             /\ \A j \in 1 .. i : packs'[q].members[j] = Append(m, self)[j]
  <2>1. CASE i \in 1 .. Len(m)
    <3>1. q = m[i] /\ \A j \in 1 .. i : Append(m, self)[j] = m[j]
      BY <2>1, <1>3, <1>5
    <3> HIDE DEF m
    <3> QED
      BY <3>1, <2>1, <1>4
  <2>2. CASE i = Len(m) + 1
    BY <2>2, <1>3, <1>5
  <2> QED
    BY <2>1, <2>2, <1>1
<1>6. Prefixed(self)'
  <2> HIDE DEF m
  <2>1. packs'[self].members = Append(m, self)
    BY DEF m
  <2> QED
    BY <1>3, <1>5, <2>1 DEF Prefixed
<1>7. Members(self)' = Members(head) \cup {self}
  <2>1. Members(self)' = {Append(m, self)[i] : i \in 1 .. (Len(m) + 1)}
    BY <1>3 DEF Members
  <2>2. Members(head) = {m[i] : i \in 1 .. Len(m)}
    BY <1>1 DEF Members
  <2>3. 1 .. (Len(m) + 1) = (1 .. Len(m)) \cup {Len(m) + 1}
    BY <1>1
  <2> HIDE DEF m
  <2> QED
    BY <2>1, <2>2, <2>3, <1>3
<1>8. Accumulates(self)'
  <2>1. \A q \in Members(head) : packs'[q] = packs[q] /\ packs[q].mask \subseteq packs[head].mask
    BY Same DEF TreeInv, Accumulates
  <2> QED
    BY <1>7, <2>1 DEF Accumulates
<1>9. Bare(self)'
  <2>1. packs'[self].depth = Len(packs'[self].members) - 1
    <3>1. WellFormed(self)'
      BY DEF ChainInv, Sound
    <3> QED
      BY <3>1 DEF WellFormed
  <2> QED
    BY <1>1, <1>3, <2>1 DEF Bare
<1> QED
  BY <1>6, <1>8, <1>9

\* A base's chain is itself.
BasesBare == \A self : IsBase(self) => Prefixed(self) /\ Accumulates(self) /\ Bare(self)

LEMMA BaseTree == BasesBare
<1> SUFFICES ASSUME NEW self, IsBase(self)
             PROVE  Prefixed(self) /\ Accumulates(self) /\ Bare(self)
  BY DEF BasesBare
<1> DEFINE m == packs[self].members
<1>1. m = <<self>> /\ Len(m) = 1 /\ m[1] = self /\ DOMAIN m = {1}
  BY DEF IsBase
<1>2. Members(self) = {self}
  BY <1>1 DEF Members
<1>3. Prefixed(self)
  <2>1. ASSUME NEW i \in DOMAIN m
        PROVE  i = 1 /\ packs[m[i]].members = m
    <3>1. i = 1
      BY <1>1
    <3>2. m[i] = self
      BY <1>1, <3>1
    <3> QED
      BY <3>1, <3>2
  <2> HIDE DEF m
  <2>2. ASSUME NEW i \in DOMAIN m
        PROVE  /\ Len(packs[m[i]].members) = i
               /\ \A j \in 1 .. i : packs[m[i]].members[j] = m[j]
    BY <1>1, <2>1
  <2> QED
    BY <2>2 DEF Prefixed, m
<1> QED
  BY <1>2, <1>3 DEF Accumulates, Bare, IsBase

-----------------------------------------------------------------------------
(***************************************************************************)
(* What is computed from earlier artifacts is computed from them again.    *)
(***************************************************************************)

LEMMA SupersessionsKept ==
    ASSUME ChainInv, Kept, NEW p \in Packs
    PROVE  Supersessions(p)' = Supersessions(p)
<1>1. Members(p)' = Members(p) /\ \A m \in Members(p) : packs'[m] = packs[m]
  BY Same
<1> DEFINE own(m) == {<<e[1], e[2], packs[m].depth>> : e \in packs[m].edges}
<1>2. \A m \in Members(p) : own(m)' = own(m)
  BY <1>1
<1>3. Supersessions(p) = UNION {own(m) : m \in Members(p)}
  BY DEF Supersessions
<1>4. Supersessions(p)' = UNION {own(m)' : m \in Members(p)}
  BY <1>1 DEF Supersessions
<1> HIDE DEF own
<1> QED
  BY <1>2, <1>3, <1>4

LEMMA ParentKept ==
    ASSUME ChainInv, Kept, NEW p \in Packs
    PROVE  Parent(p)' = Parent(p)
  BY Same DEF Parent

LEMMA ParentIn ==
    ASSUME ChainInv, NEW p \in Packs, packs[p].depth >= 1
    PROVE  Parent(p) \in Members(p) /\ Parent(p) \in Packs
<1>1. Len(packs[p].members) - 1 \in DOMAIN packs[p].members
  BY SoundFacts
<1>2. Parent(p) \in Members(p)
  BY <1>1 DEF Parent, Members
<1> QED
  BY <1>2 DEF ChainInv, Sound, Closed

LEMMA DeltaKept ==
    ASSUME ChainInv, Kept, NEW p \in Packs, packs[p].depth >= 1
    PROVE  Delta(p)' = Delta(p)
<1>1. Parent(p) \in Packs
  BY ParentIn
<1>2. packs'[p] = packs[p] /\ packs'[Parent(p)] = packs[Parent(p)]
  BY <1>1, Same
<1> QED
  BY <1>2, ParentKept DEF Delta

\* Chains of the same base have a longest common prefix.
LEMMA SharedFacts ==
    ASSUME ChainInv, NEW p \in Packs, NEW q \in Packs,
           packs[p].members[1] = packs[q].members[1]
    PROVE  LET m == packs[p].members
               n == packs[q].members
               i == SharedPrefix(p, q)
           IN  /\ i \in DOMAIN m /\ i \in DOMAIN n
               /\ \A j \in 1 .. i : m[j] = n[j]
               /\ \A k \in DOMAIN m \cap DOMAIN n : (\A j \in 1 .. k : m[j] = n[j]) => k <= i
               /\ m[i] \in Members(p) /\ m[i] \in Members(q) /\ m[i] \in Packs
<1> DEFINE m == packs[p].members
           n == packs[q].members
           common == {i \in DOMAIN m \cap DOMAIN n : \A j \in 1 .. i : m[j] = n[j]}
           fork == SharedPrefix(p, q)
<1>1. /\ Len(m) \in Nat \ {0} /\ DOMAIN m = 1 .. Len(m)
      /\ Len(n) \in Nat \ {0} /\ DOMAIN n = 1 .. Len(n)
  BY SoundFacts
<1>2. 1 \in common
  BY <1>1
<1>3. common \subseteq 1 .. Len(m)
  BY <1>1
<1>4. \E i \in common : \A j \in common : j <= i
  <2> HIDE DEF common
  <2> QED
    BY <1>1, <1>2, <1>3, GreatestExists
<1>5. fork \in common /\ \A j \in common : j <= fork
  <2>1. fork = CHOOSE i \in common : \A j \in common : j <= i
    BY DEF SharedPrefix
  <2> HIDE DEF common, fork
  <2> QED
    BY <1>4, <2>1
<1>6. fork \in DOMAIN m /\ fork \in DOMAIN n /\ \A j \in 1 .. fork : m[j] = n[j]
  BY <1>5
<1>7. m[fork] = n[fork]
  BY <1>1, <1>6
<1>8. m[fork] \in Members(p) /\ m[fork] \in Members(q)
  BY <1>6, <1>7 DEF Members
<1>9. m[fork] \in Packs
  BY <1>8 DEF ChainInv, Sound, Closed
<1>10. \A k \in DOMAIN m \cap DOMAIN n : (\A j \in 1 .. k : m[j] = n[j]) => k <= fork
  BY <1>5
<1> QED
  BY <1>6, <1>8, <1>9, <1>10

LEMMA ForkKept ==
    ASSUME ChainInv, Kept, NEW p \in Packs, NEW q \in Packs,
           packs[p].members[1] = packs[q].members[1]
    PROVE  ForkRowBase(p, q)' = ForkRowBase(p, q)
<1>1. packs'[p] = packs[p] /\ packs'[q] = packs[q]
  BY Same
<1>2. SharedPrefix(p, q)' = SharedPrefix(p, q)
  BY <1>1 DEF SharedPrefix
<1>3. packs[p].members[SharedPrefix(p, q)] \in Packs
  BY SharedFacts
<1> QED
  BY <1>1, <1>2, <1>3, Same DEF ForkRowBase

LEMMA RebaseKept ==
    ASSUME ChainInv, Kept, NEW layer \in Packs, NEW head \in Packs, NEW onConflict,
           packs[layer].depth >= 1,
           packs[head].members[1] = packs[layer].members[1]
    PROVE  /\ Conflicts(layer, head)' = Conflicts(layer, head)
           /\ Recorded(layer, head, onConflict)' = Recorded(layer, head, onConflict)
           /\ RebasedMask(layer, head, onConflict)' = RebasedMask(layer, head, onConflict)
           /\ \A e, n : Moved(layer, e, n)' = Moved(layer, e, n)
<1>1. packs'[layer] = packs[layer] /\ packs'[head] = packs[head]
  BY Same
<1>2. Parent(layer) \in Packs /\ Parent(layer) \in Members(layer)
  BY ParentIn
<1>3. packs[Parent(layer)].members[1] = packs[head].members[1]
  BY <1>2 DEF ChainInv, Sound, Closed
<1>4. ForkRowBase(Parent(layer), head)' = ForkRowBase(Parent(layer), head)
  <2>1. PICK q \in Packs : q = Parent(layer)
    BY <1>2
  <2>2. ForkRowBase(q, head)' = ForkRowBase(q, head)
    BY <1>3, <2>1, ForkKept
  <2>3. Parent(layer)' = q
    BY <2>1, ParentKept
  <2>4. ForkRowBase(Parent(layer), head)' = ForkRowBase(q, head)'
    BY <1>1, <2>3, Zenon DEF ForkRowBase, SharedPrefix
  <2> QED
    BY <2>1, <2>2, <2>4
<1>5. Delta(layer)' = Delta(layer)
  BY DeltaKept
<1>6. Foreign(layer, head)' = Foreign(layer, head)
  BY <1>1, <1>4, <1>5 DEF Foreign
<1>7. Surviving(layer, head)' = Surviving(layer, head)
  BY <1>1, <1>6 DEF Surviving
<1>8. Conflicts(layer, head)' = Conflicts(layer, head)
  BY <1>7, SupersessionsKept DEF Conflicts
<1>9. Recorded(layer, head, onConflict)' = Recorded(layer, head, onConflict)
  BY <1>7, <1>8 DEF Recorded
<1>10. RebasedMask(layer, head, onConflict)' = RebasedMask(layer, head, onConflict)
  BY <1>1, <1>5, <1>6, <1>9 DEF RebasedMask
<1> QED
  BY <1>1, <1>8, <1>9, <1>10 DEF Moved

LEMMA ContentKept ==
    ASSUME ChainInv, Kept, NEW p \in Packs, NEW id \in Ids(p)
    PROVE  Content(p, id)' = Content(p, id)
<1>1. /\ Members(p)' = Members(p)
      /\ \A m : Owns(m, id)' <=> (packs'[m].rowBase <= id /\ id < RowTotal(m)')
  BY Same DEF Owns
<1>2. \A m \in Members(p) : Owns(m, id)' <=> Owns(m, id)
  BY Same
<1>3. OwnerOf(p, id)' = OwnerOf(p, id)
  BY <1>1, <1>2, Zenon DEF OwnerOf
<1>4. OwnerOf(p, id) \in Members(p)
  <2>1. \E m \in Members(p) : Owns(m, id)
    BY DEF ChainInv, Sound, Covered
  <2> QED
    BY <2>1 DEF OwnerOf
<1>5. packs'[OwnerOf(p, id)] = packs[OwnerOf(p, id)]
  BY <1>4, Same
<1> QED
  BY <1>3, <1>5 DEF Content

LEMMA LineageKept ==
    ASSUME ChainInv, Kept, NEW p \in Packs
    PROVE  LineageOf(p)' = LineageOf(p)
<1>1. packs'[p] = packs[p]
  BY Same
<1>2. \A i \in DOMAIN packs[p].members : RowTotal(packs[p].members[i])' = RowTotal(packs[p].members[i])
  BY Same DEF Members
<1> QED
  BY <1>1, <1>2, SupersessionsKept DEF LineageOf

-----------------------------------------------------------------------------
(***************************************************************************)
(* Numbering a finite set of naturals in ascending order.                  *)
(***************************************************************************)

Below(S, x) == {y \in S : y < x}

\* The number of elements below one of a finite set's is its place in it:
\* places ascend and every place is taken.
LEMMA Places ==
    ASSUME NEW n \in Nat, NEW S \in SUBSET (0 .. n - 1)
    PROVE  /\ IsFiniteSet(S) /\ Cardinality(S) \in Nat
           /\ \A x \in S : Cardinality(Below(S, x)) \in 0 .. Cardinality(S) - 1
           /\ \A x, y \in S : x < y => Cardinality(Below(S, x)) < Cardinality(Below(S, y))
           /\ \A k \in 0 .. Cardinality(S) - 1 : \E x \in S : Cardinality(Below(S, x)) = k
<1>1. IsFiniteSet(S) /\ Cardinality(S) \in Nat
  <2>1. IsFiniteSet(0 .. n - 1)
    BY FS_Interval
  <2> QED
    BY <2>1, FS_Subset, FS_CardinalityType
<1>2. \A x : IsFiniteSet(Below(S, x)) /\ Cardinality(Below(S, x)) \in Nat
  <2>1. \A x : Below(S, x) \in SUBSET S
    BY DEF Below
  <2> QED
    BY <1>1, <2>1, FS_Subset, FS_CardinalityType
<1>3. \A x \in S : x \in Nat
  OBVIOUS
<1>4. ASSUME NEW T, T \subseteq S, NEW U \in SUBSET T, U # T
      PROVE  Cardinality(U) < Cardinality(T)
  <2>1. IsFiniteSet(T)
    BY <1>1, <1>4, FS_Subset
  <2>2. IsFiniteSet(U) /\ Cardinality(U) <= Cardinality(T) /\ Cardinality(T) # Cardinality(U)
    BY <2>1, <1>4, FS_Subset
  <2>3. Cardinality(U) \in Nat /\ Cardinality(T) \in Nat
    BY <2>1, <2>2, FS_CardinalityType
  <2> QED
    BY <2>2, <2>3
<1>5. \A x \in S : Cardinality(Below(S, x)) \in 0 .. Cardinality(S) - 1
  <2>1. ASSUME NEW x \in S
        PROVE  Cardinality(Below(S, x)) < Cardinality(S)
    <3>1. Below(S, x) \in SUBSET S /\ x \notin Below(S, x)
      BY <1>3 DEF Below
    <3> QED
      BY <3>1, <1>4
  <2> QED
    BY <2>1, <1>1, <1>2
<1>6. \A x, y \in S : x < y => Cardinality(Below(S, x)) < Cardinality(Below(S, y))
  <2>1. ASSUME NEW x \in S, NEW y \in S, x < y
        PROVE  Cardinality(Below(S, x)) < Cardinality(Below(S, y))
    <3>1. \A z \in Below(S, x) : z \in Below(S, y)
      <4>1. ASSUME NEW z \in S, z < x
            PROVE  z < y
        BY <2>1, <4>1, <1>3
      <4> QED
        BY <4>1 DEF Below
    <3>2. Below(S, y) \subseteq S /\ x \in Below(S, y)
      BY <2>1 DEF Below
    <3>3. x \notin Below(S, x)
      BY <1>3 DEF Below
    <3> QED
      BY <3>1, <3>2, <3>3, <1>4
  <2> QED
    BY <2>1
<1>7. \A k \in 0 .. Cardinality(S) - 1 : \E x \in S : Cardinality(Below(S, x)) = k
  <2> DEFINE T == 0 .. Cardinality(S) - 1
             place == [x \in S |-> Cardinality(Below(S, x))]
  <2>1. \A x, y \in S : x = y \/ x < y \/ y < x
    BY <1>3
  <2>2. \A x, y \in S : Cardinality(Below(S, x)) = Cardinality(Below(S, y)) => x = y
    BY <1>2, <1>6, <2>1
  <2>3. place \in Injection(S, T)
    BY <1>5, <2>2 DEF Injection, IsInjective
  <2>4. IsFiniteSet(T) /\ Cardinality(T) = Cardinality(S)
    <3>1. 0 \in Int /\ Cardinality(S) - 1 \in Int
      BY <1>1
    <3>2. /\ IsFiniteSet(T)
          /\ Cardinality(T) = IF 0 > Cardinality(S) - 1 THEN 0 ELSE Cardinality(S) - 1 - 0 + 1
      BY <3>1, FS_Interval
    <3> QED
      BY <3>2, <1>1
  <2>5. place \in Surjection(S, T)
    <3> HIDE DEF place, T
    <3> QED
      BY <2>3, <2>4, FS_Injection
  <2> QED
    BY <2>5 DEF Surjection
<1> QED
  BY <1>1, <1>5, <1>6, <1>7

\* The live ids in order, each once.
LEMMA LiveAt ==
    ASSUME ChainInv, NEW p \in Packs
    PROVE  /\ Cardinality(Live(p)) \in Nat
           /\ \A i \in 1 .. Cardinality(Live(p)) : LiveIds(p)[i] \in Live(p)
           /\ \A x \in Live(p) : /\ Cardinality(Below(Live(p), x)) \in 0 .. Cardinality(Live(p)) - 1
                                 /\ LiveIds(p)[Cardinality(Below(Live(p), x)) + 1] = x
<1> DEFINE S == Live(p)
<1>1. RowTotal(p) \in Nat /\ S \in SUBSET (0 .. RowTotal(p) - 1)
  BY SoundFacts DEF Live, Ids
<1> HIDE DEF S
<1>2. /\ Cardinality(S) \in Nat
      /\ \A x \in S : Cardinality(Below(S, x)) \in 0 .. Cardinality(S) - 1
      /\ \A x, y \in S : x < y => Cardinality(Below(S, x)) < Cardinality(Below(S, y))
      /\ \A k \in 0 .. Cardinality(S) - 1 : \E x \in S : Cardinality(Below(S, x)) = k
  BY <1>1, Places
<1>3. \A i \in 1 .. Cardinality(S) :
          LiveIds(p)[i] = CHOOSE x \in S : Cardinality(Below(S, x)) = i - 1
  BY DEF LiveIds, Below, S
<1>4. ASSUME NEW i \in 1 .. Cardinality(S)
      PROVE  LiveIds(p)[i] \in S /\ Cardinality(Below(S, LiveIds(p)[i])) = i - 1
  <2>1. i - 1 \in 0 .. Cardinality(S) - 1
    BY <1>2
  <2>2. \E x \in S : Cardinality(Below(S, x)) = i - 1
    BY <1>2, <2>1
  <2> QED
    BY <1>3, <2>2
<1>5. ASSUME NEW x \in S
      PROVE  LiveIds(p)[Cardinality(Below(S, x)) + 1] = x
  <2>1. PICK i \in 1 .. Cardinality(S) : i = Cardinality(Below(S, x)) + 1
    BY <1>2
  <2>2. PICK y \in S : y = LiveIds(p)[i] /\ Cardinality(Below(S, y)) = i - 1
    BY <1>4
  <2>3. Cardinality(Below(S, y)) = Cardinality(Below(S, x))
    BY <1>2, <2>1, <2>2
  <2>4. x \in Nat /\ y \in Nat
    BY <1>1
  <2>5. ~(x < y) /\ ~(y < x)
    BY <1>2, <2>3
  <2> QED
    BY <2>1, <2>2, <2>4, <2>5
<1> QED
  BY <1>2, <1>4, <1>5 DEF S

LEMMA CopiedKept ==
    ASSUME ChainInv, Kept, NEW p \in Packs
    PROVE  CopiedRows(p, LiveIds(p))' = CopiedRows(p, LiveIds(p))
<1>1. Live(p)' = Live(p)
  BY Same
<1>2. LiveIds(p)' = LiveIds(p)
  BY <1>1 DEF LiveIds
<1>3. DOMAIN LiveIds(p) = 1 .. Cardinality(Live(p))
  BY DEF LiveIds
<1>4. \A i \in DOMAIN LiveIds(p) : LiveIds(p)[i] \in Ids(p)
  BY <1>3, LiveAt DEF Live
<1>5. \A i \in DOMAIN LiveIds(p) : Content(p, LiveIds(p)[i])' = Content(p, LiveIds(p)[i])
  <2>1. ASSUME NEW i \in DOMAIN LiveIds(p), NEW x, x = LiveIds(p)[i]
        PROVE  Content(p, x)' = Content(p, x)
    BY <1>4, <2>1, ContentKept
  <2> QED
    BY <1>2, <2>1 DEF Content
<1> QED
  BY <1>2, <1>5 DEF CopiedRows

-----------------------------------------------------------------------------
(***************************************************************************)
(* How an artifact was written stays so, and so do its types.              *)
(***************************************************************************)

\* The only member that owns an id, and its row.
LEMMA OwnerFacts ==
    ASSUME ChainInv, NEW p \in Packs, NEW id \in Ids(p)
    PROVE  LET m == OwnerOf(p, id)
           IN  /\ m \in Members(p) /\ m \in Packs /\ Owns(m, id)
               /\ \A o \in Members(p) : Owns(o, id) => o = m
               /\ id - packs[m].rowBase + 1 \in 1 .. Records(m)
<1> DEFINE m == OwnerOf(p, id)
<1>1. m \in Members(p) /\ Owns(m, id)
  <2>1. \E o \in Members(p) : Owns(o, id)
    BY DEF ChainInv, Sound, Covered
  <2> QED
    BY <2>1 DEF OwnerOf
<1>2. m \in Packs
  BY <1>1 DEF ChainInv, Sound, Closed
<1>3. id \in Nat
  BY SoundFacts DEF Ids
<1> HIDE DEF m
<1>4. packs[m].rowBase \in Nat /\ Records(m) \in Nat /\ RowTotal(m) = packs[m].rowBase + Records(m)
  BY <1>2, SoundFacts DEF RowTotal
<1>5. ASSUME NEW o \in Members(p), Owns(o, id)
      PROVE  o = m
  <2>1. o \in Packs
    BY DEF ChainInv, Sound, Closed
  <2>2. packs[o].rowBase \in Nat /\ RowTotal(o) \in Nat
    BY <2>1, SoundFacts
  <2>3. o = m \/ RowTotal(o) <= packs[m].rowBase \/ RowTotal(m) <= packs[o].rowBase
    BY <1>1 DEF ChainInv, Sound, Disjoint
  <2> QED
    BY <1>1, <1>3, <1>4, <1>5, <2>2, <2>3 DEF Owns
<1>6. id - packs[m].rowBase + 1 \in 1 .. Records(m)
  BY <1>1, <1>3, <1>4 DEF Owns
<1> QED
  BY <1>1, <1>2, <1>5, <1>6 DEF m

LEMMA ContentType ==
    ASSUME ChainInv, ToldInv, NEW p \in Packs, NEW id \in Ids(p)
    PROVE  Content(p, id) \in Packs \X Nat
<1> DEFINE m == OwnerOf(p, id)
<1>1. m \in Packs /\ id - packs[m].rowBase + 1 \in 1 .. Records(m)
  BY OwnerFacts
<1>2. packs[m].rows \in Seq(Packs \X Nat)
  BY <1>1 DEF ToldInv, Typed
<1>3. packs[m].rows[id - packs[m].rowBase + 1] \in Packs \X Nat
  BY <1>1, <1>2 DEF Records
<1> QED
  BY <1>3 DEF Content

\* Sequences over the artifacts remain so when there are more of them.
LEMMA TypesGrow ==
    ASSUME Packs \subseteq Packs'
    PROVE  /\ Seq(Packs) \subseteq Seq(Packs')
           /\ Seq(Packs \X Nat) \subseteq Seq(Packs' \X Nat)
           /\ Lineages \subseteq Lineages'
<1> DEFINE Entry == [pack : Packs, rowTotal : Nat]
           NextEntry == [pack : Packs', rowTotal : Nat]
           Rest == SUBSET (Nat \X Nat \X Nat)
<1>1. Seq(Packs) \subseteq Seq(Packs')
  BY SeqMonotonic
<1>2. Packs \X Nat \subseteq Packs' \X Nat
  OBVIOUS
<1>3. Seq(Packs \X Nat) \subseteq Seq(Packs' \X Nat)
  <2>1. \A S, T : S \subseteq T => Seq(S) \subseteq Seq(T)
    BY SeqMonotonic
  <2> QED
    BY <1>2, <2>1
<1>4. Entry \subseteq NextEntry
  OBVIOUS
<1>5. Seq(Entry) \subseteq Seq(NextEntry)
  <2> HIDE DEF Entry, NextEntry
  <2> QED
    BY <1>4, SeqMonotonic
<1>6. Lineages = [heads : Seq(Entry), mask : SUBSET Nat, edges : Rest]
  BY DEF Lineages
<1>7. Lineages' = [heads : Seq(NextEntry), mask : SUBSET Nat, edges : Rest]
  BY DEF Lineages
<1>8. Lineages \subseteq Lineages'
  <2> HIDE DEF Entry, NextEntry, Rest
  <2> QED
    BY <1>5, <1>6, <1>7
<1> QED
  BY <1>1, <1>3, <1>8

LEMMA EarlierTold ==
    ASSUME ChainInv, ToldInv, Kept, NEW p \in Packs
    PROVE  (Rebased(p) /\ Compacted(p) /\ Typed(p))'
<1>1. packs'[p] = packs[p] /\ Packs \subseteq Packs'
  BY DEF Kept
<1>2. Rebased(p)'
  <2> SUFFICES ASSUME packs[p].rebased # <<>>
               PROVE  Rebased(p)'
    BY <1>1 DEF Rebased
  <2>1. PICK layer \in Packs, head \in Packs, onConflict \in Resolutions :
            RebaseOf(p, layer, head, onConflict)
    BY DEF ToldInv, Rebased
  <2>2. packs[layer].depth >= 1 /\ packs[head].members[1] = packs[layer].members[1]
    BY <2>1 DEF RebaseOf
  <2>3. packs'[layer] = packs[layer] /\ packs'[head] = packs[head] /\ RowTotal(head)' = RowTotal(head)
    BY Same
  <2>4. /\ Conflicts(layer, head)' = Conflicts(layer, head)
        /\ Recorded(layer, head, onConflict)' = Recorded(layer, head, onConflict)
        /\ RebasedMask(layer, head, onConflict)' = RebasedMask(layer, head, onConflict)
        /\ \A e, n : Moved(layer, e, n)' = Moved(layer, e, n)
    BY <2>2, RebaseKept
  <2>5. {Moved(layer, e, RowTotal(head))' : e \in Recorded(layer, head, onConflict)'}
            = {Moved(layer, e, RowTotal(head)) : e \in Recorded(layer, head, onConflict)}
    <3>1. \A e : Moved(layer, e, RowTotal(head))' = Moved(layer, e, RowTotal(head))
      BY <2>3, <2>4 DEF Moved
    <3> QED
      BY <2>4, <3>1
  <2>6. RebaseOf(p, layer, head, onConflict)'
    BY <1>1, <2>1, <2>3, <2>4, <2>5 DEF RebaseOf
  <2> QED
    BY <1>1, <2>6 DEF Rebased
<1>3. Compacted(p)'
  <2> SUFFICES ASSUME packs[p].lineage # NoLineage
               PROVE  Compacted(p)'
    BY <1>1 DEF Compacted, NoLineage
  <2>1. PICK head \in Packs :
            /\ packs[p].members = <<p>>
            /\ packs[p].rowBase = 0
            /\ packs[p].lineage = LineageOf(head)
            /\ packs[p].rows = CopiedRows(head, LiveIds(head))
    BY DEF ToldInv, Compacted
  <2>2. /\ LineageOf(head)' = LineageOf(head)
        /\ CopiedRows(head, LiveIds(head))' = CopiedRows(head, LiveIds(head))
    BY LineageKept, CopiedKept
  <2> QED
    BY <1>1, <2>1, <2>2 DEF Compacted
<1>4. Typed(p)'
  <2>1. Typed(p)
    BY DEF ToldInv
  <2> QED
    BY <1>1, <2>1, TypesGrow DEF Typed
<1> QED
  BY <1>2, <1>3, <1>4

-----------------------------------------------------------------------------
(***************************************************************************)
(* Every producer tells how it wrote its artifact.                         *)
(***************************************************************************)

\* One more artifact leaves the earlier ones in place.
LEMMA AppendKeeps ==
    ASSUME ChainInv, NEW new, packs' = Append(packs, new)
    PROVE  /\ Kept
           /\ Len(packs) + 1 \in Packs' /\ Len(packs) + 1 \in Nat
           /\ packs'[Len(packs) + 1] = new
           /\ \A p \in Packs' : p \in Packs \/ p = Len(packs) + 1
<1>1. /\ Len(packs) \in Nat /\ Packs = 1 .. Len(packs)
      /\ Packs' = 1 .. (Len(packs) + 1)
      /\ \A p \in Packs : packs'[p] = packs[p]
      /\ packs'[Len(packs) + 1] = new
  BY EarlierKept DEF ChainInv
<1> QED
  BY <1>1 DEF Kept

LEMMA LayerTold ==
    ASSUME ChainInv, ChainInv', TreeInv, ToldInv,
           NEW head \in Packs, NEW rows, NEW mask, NEW edges, NEW rebased,
           packs' = Append(packs, Layer(head, rows, mask, edges, rebased)),
           packs[head].mask \subseteq mask,
           rows \in Seq(Packs' \X Nat), rebased \in Seq(Packs),
           NEW self, self = Len(packs) + 1, Rebased(self)'
    PROVE  TreeInv' /\ ToldInv'
<1>1. /\ Kept /\ self \in Packs' /\ self \in Nat
      /\ packs'[self] = Layer(head, rows, mask, edges, rebased)
      /\ \A p \in Packs' : p \in Packs \/ p = self
  BY AppendKeeps
<1>2. /\ packs'[self].members = Append(packs[head].members, self)
      /\ packs'[self].mask = mask
      /\ packs'[self].rows = rows
      /\ packs'[self].lineage = NoLineage
      /\ packs'[self].rebased = rebased
      /\ DOMAIN packs'[self] = Fields
  BY <1>1 DEF Layer, Fields
<1>3. (Prefixed(self) /\ Accumulates(self) /\ Bare(self))'
  BY <1>1, <1>2, LayerTree
<1>4. Compacted(self)'
  BY <1>2 DEF Compacted, NoLineage
<1>5. Typed(self)'
  <2>1. rebased \in Seq(Packs')
    BY <1>1, TypesGrow DEF Kept
  <2>2. NoLineage \in Lineages'
    BY DEF NoLineage, Lineages
  <2>3. NoLineage' = NoLineage
    BY DEF NoLineage
  <2> QED
    BY <1>2, <2>1, <2>2 DEF Typed
<1>6. \A p \in Packs : (Prefixed(p) /\ Accumulates(p) /\ Bare(p))'
  BY <1>1, EarlierTree
<1>7. \A p \in Packs : (Rebased(p) /\ Compacted(p) /\ Typed(p))'
  BY <1>1, EarlierTold
<1>8. TreeInv'
  BY <1>1, <1>3, <1>6 DEF TreeInv
<1>9. ToldInv'
  BY <1>1, <1>4, <1>5, <1>7 DEF ToldInv
<1> QED
  BY <1>8, <1>9

LEMMA BaseTold ==
    ASSUME ChainInv, TreeInv, ToldInv, NEW rows, NEW lineage,
           NEW self, self = Len(packs) + 1,
           packs' = Append(packs, Base(self, rows, lineage)),
           rows \in Seq(Packs' \X Nat), lineage \in Lineages', Compacted(self)'
    PROVE  TreeInv' /\ ToldInv'
<1>1. /\ Kept /\ self \in Packs' /\ self \in Nat
      /\ packs'[self] = Base(self, rows, lineage)
      /\ \A p \in Packs' : p \in Packs \/ p = self
  BY AppendKeeps
<1>2. /\ packs'[self].members = <<self>> /\ packs'[self].depth = 0
      /\ packs'[self].rowBase = 0
      /\ packs'[self].rows = rows
      /\ packs'[self].mask = {} /\ packs'[self].edges = {}
      /\ packs'[self].lineage = lineage
      /\ packs'[self].rebased = <<>>
      /\ DOMAIN packs'[self] = Fields
  BY <1>1 DEF Base, Fields
<1>3. IsBase(self)'
  <2>1. Len(rows) \in Nat
    BY LenProperties
  <2> QED
    BY <1>2, <2>1 DEF IsBase, Records
<1>4. (Prefixed(self) /\ Accumulates(self) /\ Bare(self))'
  <2>1. BasesBare'
    BY BaseTree, PTL
  <2> QED
    BY <1>3, <2>1 DEF BasesBare
<1>5. Rebased(self)'
  BY <1>2 DEF Rebased
<1>6. Typed(self)'
  <2>1. <<>> \in Seq(Packs')
    OBVIOUS
  <2> QED
    BY <1>2, <2>1 DEF Typed
<1>7. \A p \in Packs : (Prefixed(p) /\ Accumulates(p) /\ Bare(p))'
  BY <1>1, EarlierTree
<1>8. \A p \in Packs : (Rebased(p) /\ Compacted(p) /\ Typed(p))'
  BY <1>1, EarlierTold
<1>9. TreeInv'
  BY <1>1, <1>4, <1>7 DEF TreeInv
<1>10. ToldInv'
  BY <1>1, <1>5, <1>6, <1>8 DEF ToldInv
<1> QED
  BY <1>9, <1>10

LEMMA FreshType ==
    ASSUME NEW self, NEW n \in Nat, NEW S, self \in S
    PROVE  FreshRows(self, n) \in Seq(S \X Nat) /\ Len(FreshRows(self, n)) = n
<1>1. \A i \in 1 .. n : FreshRows(self, n)[i] \in S \X Nat
  BY DEF FreshRows
<1>2. DOMAIN FreshRows(self, n) = 1 .. n /\ FreshRows(self, n) = [i \in 1 .. n |-> FreshRows(self, n)[i]]
  BY DEF FreshRows
<1>3. FreshRows(self, n) \in [1 .. n -> S \X Nat]
  BY <1>1, <1>2
<1> QED
  BY <1>2, <1>3

LEMMA AppendTold ==
    ASSUME ChainInv, ChainInv', TreeInv, ToldInv,
           NEW head \in Packs, NEW n \in 0 .. MaxNew,
           NEW remove \in Few(Ids(head)), NEW supersede \in Few(Ids(head) \X (0 .. n - 1)),
           AppendLayer(head, n, remove, supersede)
    PROVE  TreeInv' /\ ToldInv'
<1> DEFINE self == Len(packs) + 1
           rows == FreshRows(self, n)
           mask == packs[head].mask \cup (remove \cup {s[1] : s \in supersede})
           edges == {<<s[1], RowTotal(head) + s[2]>> : s \in supersede}
           new == Layer(head, rows, mask, edges, <<>>)
<1>1. packs' = Append(packs, new)
  BY DEF AppendLayer, Publish
<1>2. n \in Nat
  BY BoundAssumption
<1>3. PICK s : s = self
  OBVIOUS
<1> HIDE DEF mask, edges
<1>4. s \in Packs' /\ packs'[s] = new
  <2> HIDE DEF new
  <2> QED
    BY <1>1, <1>3, AppendKeeps
<1>5. FreshRows(s, n) \in Seq(Packs' \X Nat)
  BY <1>2, <1>4, FreshType
<1>6. Rebased(s)'
  BY <1>4 DEF Rebased, Layer
<1>7. packs[head].mask \subseteq mask
  BY DEF mask
<1>8. <<>> \in Seq(Packs)
  OBVIOUS
<1> QED
  BY <1>1, <1>3, <1>5, <1>6, <1>7, <1>8, LayerTold

LEMMA RebaseTold ==
    ASSUME ChainInv, ChainInv', TreeInv, ToldInv,
           NEW layer \in Packs, NEW head \in Packs, NEW onForeign, NEW onConflict \in Resolutions,
           Rebase(layer, head, onForeign, onConflict)
    PROVE  TreeInv' /\ ToldInv'
<1>1. PICK mask, edges, recorded :
          /\ mask = RebasedMask(layer, head, onConflict)
          /\ recorded = Recorded(layer, head, onConflict)
          /\ edges = {Moved(layer, e, RowTotal(head)) : e \in recorded}
  OBVIOUS
<1>2. PICK s : s = Len(packs) + 1
  OBVIOUS
<1>3. packs' = Append(packs, Layer(head, packs[layer].rows, mask, edges, <<layer, head>>))
  BY <1>1 DEF Rebase, Publish
<1>4. /\ packs[layer].depth >= 1
      /\ packs[head].members[1] = packs[layer].members[1]
      /\ onConflict = "refuse" => Conflicts(layer, head) = {}
  BY DEF Rebase
<1>5. /\ Kept /\ s \in Packs'
      /\ packs'[s] = Layer(head, packs[layer].rows, mask, edges, <<layer, head>>)
  BY <1>2, <1>3, AppendKeeps
<1>6. packs'[layer] = packs[layer] /\ packs'[head] = packs[head] /\ RowTotal(head)' = RowTotal(head)
  BY <1>5, Same
<1>7. /\ Conflicts(layer, head)' = Conflicts(layer, head)
      /\ Recorded(layer, head, onConflict)' = Recorded(layer, head, onConflict)
      /\ RebasedMask(layer, head, onConflict)' = RebasedMask(layer, head, onConflict)
      /\ \A e, n : Moved(layer, e, n)' = Moved(layer, e, n)
  BY <1>4, <1>5, RebaseKept
<1>8. RebaseOf(s, layer, head, onConflict)'
  <2>1. /\ packs'[s].rebased = <<layer, head>>
        /\ packs'[s].members = Append(packs[head].members, s)
        /\ packs'[s].rows = packs[layer].rows
        /\ packs'[s].mask = mask
        /\ packs'[s].edges = edges
    BY <1>2, <1>5 DEF Layer
  <2>2. edges = {Moved(layer, e, RowTotal(head))' : e \in Recorded(layer, head, onConflict)'}
    <3>1. \A e : Moved(layer, e, RowTotal(head))' = Moved(layer, e, RowTotal(head))
      BY <1>6, <1>7 DEF Moved
    <3> QED
      BY <1>1, <1>7, <3>1
  <2> QED
    BY <1>1, <1>4, <1>6, <1>7, <2>1, <2>2 DEF RebaseOf
<1>9. Rebased(s)'
  BY <1>5, <1>8 DEF Rebased, Kept
<1>10. packs[head].mask \subseteq mask
  BY <1>1 DEF RebasedMask
<1>11. packs[layer].rows \in Seq(Packs' \X Nat) /\ <<layer, head>> \in Seq(Packs)
  <2>1. packs[layer].rows \in Seq(Packs \X Nat)
    BY DEF ToldInv, Typed
  <2> QED
    BY <1>5, <2>1, TypesGrow DEF Kept
<1> QED
  BY <1>2, <1>3, <1>9, <1>10, <1>11, LayerTold

LEMMA LineageType ==
    ASSUME ChainInv, NEW p \in Packs
    PROVE  LineageOf(p) \in Lineages
<1> DEFINE m == packs[p].members
           heads == [i \in DOMAIN m |-> [pack |-> m[i], rowTotal |-> RowTotal(m[i])]]
           Entry == [pack : Packs, rowTotal : Nat]
<1>1. Len(m) \in Nat /\ DOMAIN m = 1 .. Len(m)
  BY SoundFacts
<1>2. \A i \in 1 .. Len(m) : m[i] \in Packs /\ RowTotal(m[i]) \in Nat
  <2>1. \A i \in 1 .. Len(m) : m[i] \in Members(p)
    BY <1>1 DEF Members
  <2>2. \A q \in Members(p) : q \in Packs
    BY DEF ChainInv, Sound, Closed
  <2> QED
    BY <2>1, <2>2, SoundFacts
<1>3. heads \in Seq(Entry)
  <2>1. \A i \in 1 .. Len(m) : heads[i] \in Entry
    BY <1>1, <1>2
  <2>2. heads \in [1 .. Len(m) -> Entry]
    <3> HIDE DEF Entry, m
    <3> QED
      BY <1>1, <2>1
  <2> HIDE DEF Entry, heads
  <2> QED
    BY <1>1, <2>2
<1>4. packs[p].mask \in SUBSET Nat
  BY SoundFacts
<1>5. Supersessions(p) \in SUBSET (Nat \X Nat \X Nat)
  <2>1. ASSUME NEW q \in Members(p), NEW e \in packs[q].edges
        PROVE  <<e[1], e[2], packs[q].depth>> \in Nat \X Nat \X Nat
    <3>1. q \in Packs
      BY DEF ChainInv, Sound, Closed
    <3>2. packs[q].edges \subseteq Edge /\ packs[q].depth \in Nat
      BY <3>1, SoundFacts
    <3> QED
      BY <3>2 DEF Edge
  <2> QED
    BY <2>1 DEF Supersessions
<1> HIDE DEF heads
<1>6. LineageOf(p) = [heads |-> heads, mask |-> packs[p].mask, edges |-> Supersessions(p)]
  BY DEF LineageOf, heads
<1> QED
  BY <1>3, <1>4, <1>5, <1>6 DEF Lineages, Entry

LEMMA CopiedType ==
    ASSUME ChainInv, ToldInv, NEW p \in Packs
    PROVE  /\ CopiedRows(p, LiveIds(p)) \in Seq(Packs \X Nat)
           /\ Len(CopiedRows(p, LiveIds(p))) = Cardinality(Live(p))
           /\ DOMAIN CopiedRows(p, LiveIds(p)) = 1 .. Cardinality(Live(p))
<1> DEFINE n == Cardinality(Live(p))
<1>1. /\ n \in Nat
      /\ DOMAIN LiveIds(p) = 1 .. n
      /\ \A i \in 1 .. n : LiveIds(p)[i] \in Ids(p)
  BY LiveAt DEF LiveIds, Live
<1>2. CopiedRows(p, LiveIds(p)) = [i \in 1 .. n |-> Content(p, LiveIds(p)[i])]
  BY <1>1 DEF CopiedRows
<1>3. \A i \in 1 .. n : Content(p, LiveIds(p)[i]) \in Packs \X Nat
  BY <1>1, ContentType
<1> HIDE DEF n
<1>4. CopiedRows(p, LiveIds(p)) \in [1 .. n -> Packs \X Nat]
  BY <1>2, <1>3
<1> QED
  BY <1>1, <1>4 DEF n

LEMMA CompactTold ==
    ASSUME ChainInv, TreeInv, ToldInv, NEW head \in Packs, Compact(head)
    PROVE  TreeInv' /\ ToldInv'
<1>1. PICK s, rows, lineage :
          s = Len(packs) + 1 /\ rows = CopiedRows(head, LiveIds(head)) /\ lineage = LineageOf(head)
  OBVIOUS
<1>2. packs' = Append(packs, Base(s, rows, lineage))
  BY <1>1 DEF Compact, Publish
<1>3. Kept /\ s \in Packs' /\ packs'[s] = Base(s, rows, lineage)
  BY <1>1, <1>2, AppendKeeps
<1>4. rows \in Seq(Packs' \X Nat) /\ lineage \in Lineages'
  <2>1. rows \in Seq(Packs \X Nat) /\ lineage \in Lineages
    BY <1>1, CopiedType, LineageType
  <2> QED
    BY <1>3, <2>1, TypesGrow DEF Kept
<1>5. Compacted(s)'
  <2>1. /\ packs'[s].members = <<s>> /\ packs'[s].rowBase = 0
        /\ packs'[s].lineage = lineage /\ packs'[s].rows = rows
    BY <1>3 DEF Base
  <2>2. LineageOf(head)' = lineage /\ CopiedRows(head, LiveIds(head))' = rows
    BY <1>1, <1>3, LineageKept, CopiedKept
  <2>3. head \in Packs'
    BY <1>3 DEF Kept
  <2> QED
    BY <2>1, <2>2, <2>3 DEF Compacted
<1> QED
  BY <1>1, <1>2, <1>4, <1>5, BaseTold

LEMMA StillTold ==
    ASSUME ChainInv, TreeInv, ToldInv, UNCHANGED packs
    PROVE  TreeInv' /\ ToldInv'
<1>1. Packs' = Packs /\ Kept
  BY DEF Kept, Packs
<1>2. \A p \in Packs : (Prefixed(p) /\ Accumulates(p) /\ Bare(p))'
  BY <1>1, EarlierTree
<1>3. \A p \in Packs : (Rebased(p) /\ Compacted(p) /\ Typed(p))'
  BY <1>1, EarlierTold
<1> QED
  BY <1>1, <1>2, <1>3 DEF TreeInv, ToldInv

LEMMA ToldInit == Init => TreeInv /\ ToldInv
<1> SUFFICES ASSUME Init PROVE TreeInv /\ ToldInv
  OBVIOUS
<1>1. PICK n \in BaseRows : packs = <<Base(1, FreshRows(1, n), NoLineage)>>
  BY DEF Init
<1>2. Packs = {1} /\ packs[1] = Base(1, FreshRows(1, n), NoLineage)
  BY <1>1 DEF Packs
<1>3. n \in Nat
  BY BaseAssumption
<1>4. FreshRows(1, n) \in Seq(Packs \X Nat) /\ Len(FreshRows(1, n)) = n
  BY <1>2, <1>3, FreshType
<1>5. IsBase(1)
  BY <1>2, <1>3, <1>4 DEF IsBase, Base, Records
<1>6. TreeInv
  BY <1>2, <1>5, BaseTree DEF TreeInv, BasesBare
<1>7. /\ packs[1].rows = FreshRows(1, n) /\ packs[1].lineage = NoLineage
      /\ packs[1].rebased = <<>> /\ DOMAIN packs[1] = Fields
  BY <1>2 DEF Base, Fields
<1>8. NoLineage \in Lineages /\ <<>> \in Seq(Packs)
  BY DEF NoLineage, Lineages
<1>9. Typed(1)
  BY <1>4, <1>7, <1>8 DEF Typed
<1>10. Rebased(1) /\ Compacted(1)
  BY <1>7 DEF Rebased, Compacted
<1> QED
  BY <1>2, <1>6, <1>9, <1>10 DEF ToldInv

LEMMA ToldStep == ChainInv /\ ChainInv' /\ TreeInv /\ ToldInv /\ [Next]_packs => TreeInv' /\ ToldInv'
<1> SUFFICES ASSUME ChainInv, ChainInv', TreeInv, ToldInv, [Next]_packs
             PROVE  TreeInv' /\ ToldInv'
  OBVIOUS
<1>1. ASSUME NEW head \in Packs, NEW n \in 0 .. MaxNew,
             NEW remove \in Few(Ids(head)), NEW supersede \in Few(Ids(head) \X (0 .. n - 1)),
             AppendLayer(head, n, remove, supersede)
      PROVE  TreeInv' /\ ToldInv'
  BY <1>1, AppendTold
<1>2. ASSUME NEW layer \in Packs, NEW head \in Packs, NEW onForeign, NEW onConflict \in Resolutions,
             Rebase(layer, head, onForeign, onConflict)
      PROVE  TreeInv' /\ ToldInv'
  BY <1>2, RebaseTold
<1>3. ASSUME NEW head \in Packs, Compact(head)
      PROVE  TreeInv' /\ ToldInv'
  BY <1>3, CompactTold
<1>4. CASE UNCHANGED packs
  BY <1>4, StillTold
<1> QED
  BY <1>1, <1>2, <1>3, <1>4 DEF Next, Resolutions

LEMMA FullInvariant == Spec => [](ChainInv /\ TreeInv /\ ToldInv)
<1>1. Init => ChainInv /\ TreeInv /\ ToldInv
  BY ChainInit, ToldInit
<1>2. (ChainInv /\ TreeInv /\ ToldInv) /\ [Next]_packs => (ChainInv /\ TreeInv /\ ToldInv)'
  BY ChainStep, ToldStep
<1> QED
  BY <1>1, <1>2, PTL DEF Spec

-----------------------------------------------------------------------------
(***************************************************************************)
(* The edges of a chain.                                                   *)
(***************************************************************************)

\* The member at a place of the chain and its link to the one before.
LEMMA MemberAt ==
    ASSUME ChainInv, TreeInv, NEW p \in Packs, NEW i \in 1 .. Len(packs[p].members)
    PROVE  LET q == packs[p].members[i]
           IN  /\ q \in Packs /\ q \in Members(p)
               /\ Len(packs[q].members) = i /\ packs[q].depth = i - 1
               /\ \A j \in 1 .. i : packs[q].members[j] = packs[p].members[j]
               /\ packs[q].mask \subseteq packs[p].mask
               /\ RowTotal(q) <= RowTotal(p)
               /\ i > 1 => LinkAccepted(packs[p].members[i - 1], q)
<1> DEFINE q == packs[p].members[i]
<1>1. Len(packs[p].members) \in Nat /\ i \in DOMAIN packs[p].members
  BY SoundFacts
<1>2. q \in Members(p)
  BY <1>1 DEF Members
<1>3. q \in Packs /\ RowTotal(q) <= RowTotal(p)
  BY <1>2 DEF ChainInv, Sound, Closed
<1>4. Len(packs[q].members) = i /\ \A j \in 1 .. i : packs[q].members[j] = packs[p].members[j]
  BY <1>1 DEF TreeInv, Prefixed
<1>5. packs[q].depth = i - 1
  BY <1>3, <1>4, SoundFacts
<1>6. packs[q].mask \subseteq packs[p].mask
  BY <1>2 DEF TreeInv, Accumulates
<1>7. i > 1 => LinkAccepted(packs[p].members[i - 1], q)
  <2>1. ASSUME i > 1 PROVE i \in 2 .. Len(packs[p].members)
    BY <1>1, <2>1
  <2> QED
    BY <2>1 DEF ChainInv, Sound, Linked
<1> QED
  BY <1>2, <1>3, <1>4, <1>5, <1>6, <1>7

\* An edge comes from the layer at its depth, which names in it a record of its
\* own for an id below its own.
LEMMA EdgeFacts ==
    ASSUME ChainInv, TreeInv, NEW p \in Packs, NEW e \in Supersessions(p)
    PROVE  /\ e = <<e[1], e[2], e[3]>>
           /\ e[1] \in Nat /\ e[2] \in Nat
           /\ e[3] \in 1 .. Len(packs[p].members) - 1
           /\ e[1] \in packs[p].mask /\ e[1] < e[2]
           /\ e[1] \in Ids(p) /\ e[2] \in Ids(p)
           /\ <<e[1], e[2]>> \in packs[packs[p].members[e[3] + 1]].edges
           /\ e[1] < packs[packs[p].members[e[3] + 1]].rowBase
           /\ RowTotal(packs[p].members[e[3]]) <= e[2]
           /\ e[2] < RowTotal(packs[p].members[e[3] + 1])
<1> DEFINE m == packs[p].members
<1>1. Len(m) \in Nat \ {0} /\ DOMAIN m = 1 .. Len(m)
  BY SoundFacts
<1>2. PICK q \in Members(p) : \E g \in packs[q].edges : e = <<g[1], g[2], packs[q].depth>>
  BY DEF Supersessions
<1> PICK f \in packs[q].edges : e = <<f[1], f[2], packs[q].depth>>
  BY <1>2
<1>3. PICK i \in 1 .. Len(m) : q = m[i]
  BY <1>1 DEF Members
<1>4. /\ q \in Packs /\ packs[q].depth = i - 1
      /\ packs[q].mask \subseteq packs[p].mask
      /\ RowTotal(q) <= RowTotal(p)
      /\ i > 1 => LinkAccepted(m[i - 1], q)
  BY <1>3, MemberAt
<1>5. f \in Edge /\ f = <<f[1], f[2]>>
  <2>1. packs[q].edges \subseteq Edge
    BY <1>4, SoundFacts
  <2> QED
    BY <1>2, <2>1 DEF Edge
<1>6. i > 1
  <2>1. packs[q].depth # 0
    BY <1>2, <1>4 DEF TreeInv, Bare
  <2> QED
    BY <1>4, <2>1
<1>7. /\ packs[q].rowBase = RowTotal(m[i - 1])
      /\ f[1] \in packs[q].mask /\ Owns(q, f[2])
  BY <1>2, <1>4, <1>6 DEF LinkAccepted
<1>8. /\ packs[q].rowBase \in Nat /\ RowTotal(q) \in Nat /\ RowTotal(p) \in Nat
      /\ packs[q].rowBase <= RowTotal(q)
      /\ packs[q].mask \subseteq 0 .. packs[q].rowBase - 1
  BY <1>4, SoundFacts
<1>9. f[1] \in Nat /\ f[1] < packs[q].rowBase /\ packs[q].rowBase <= f[2] /\ f[2] < RowTotal(q)
  BY <1>7, <1>8 DEF Owns
<1>10. f[2] \in Nat
  BY <1>5 DEF Edge
<1>11. e[1] = f[1] /\ e[2] = f[2] /\ e[3] = i - 1
  BY <1>2, <1>4
<1>12. e[3] \in 1 .. Len(m) - 1 /\ m[e[3] + 1] = q /\ m[e[3]] = m[i - 1]
  BY <1>1, <1>3, <1>6, <1>11
<1>13. e[1] \in Ids(p) /\ e[2] \in Ids(p)
  BY <1>4, <1>8, <1>9, <1>10, <1>11 DEF Ids
<1>14. e = <<e[1], e[2], e[3]>>
  BY <1>2, <1>4, <1>11
<1>15. <<e[1], e[2]>> \in packs[q].edges
  BY <1>2, <1>5, <1>11
<1>16. e[1] \in packs[p].mask
  BY <1>4, <1>7, <1>11
<1> HIDE DEF m
<1>17. /\ <<e[1], e[2]>> \in packs[m[e[3] + 1]].edges
       /\ e[1] < packs[m[e[3] + 1]].rowBase
       /\ RowTotal(m[e[3]]) <= e[2]
       /\ e[2] < RowTotal(m[e[3] + 1])
  BY <1>7, <1>9, <1>11, <1>12, <1>15
<1>18. e[1] \in Nat /\ e[2] \in Nat /\ e[1] < e[2]
  BY <1>8, <1>9, <1>10, <1>11
<1> QED
  BY <1>12, <1>13, <1>14, <1>16, <1>17, <1>18 DEF m

\* Of one id a layer has one edge.
LEMMA EdgesDiffer ==
    ASSUME ChainInv, TreeInv, NEW p \in Packs,
           NEW e \in Supersessions(p), NEW f \in Supersessions(p),
           e[1] = f[1], e[3] = f[3]
    PROVE  e = f
<1> DEFINE i == e[3] + 1
           q == packs[p].members[i]
<1>1. /\ e[3] \in 1 .. Len(packs[p].members) - 1
      /\ <<e[1], e[2]>> \in packs[q].edges /\ <<f[1], f[2]>> \in packs[q].edges
      /\ e = <<e[1], e[2], e[3]>> /\ f = <<f[1], f[2], f[3]>>
  BY EdgeFacts
<1>2. i \in 1 .. Len(packs[p].members) /\ i > 1
  BY <1>1, SoundFacts
<1>3. LinkAccepted(packs[p].members[i - 1], q)
  BY <1>2, MemberAt
<1>4. <<e[1], e[2]>> = <<f[1], f[2]>>
  <2> HIDE DEF q
  <2>1. \A x, y \in packs[q].edges : x[1] = y[1] => x = y
    BY <1>3 DEF LinkAccepted
  <2>2. <<e[1], e[2]>>[1] = <<f[1], f[2]>>[1]
    OBVIOUS
  <2> QED
    BY <1>1, <2>1, <2>2
<1> QED
  BY <1>1, <1>4

\* The lineage of any artifact passes the checks.
LEMMA LineagePasses ==
    ASSUME ChainInv, TreeInv, NEW p \in Packs
    PROVE  LineageAccepted(LineageOf(p))
<1> DEFINE m == packs[p].members
           l == LineageOf(p)
<1>1. Len(m) \in Nat \ {0} /\ DOMAIN m = 1 .. Len(m)
  BY SoundFacts
<1>2. /\ l.heads = [i \in 1 .. Len(m) |-> [pack |-> m[i], rowTotal |-> RowTotal(m[i])]]
      /\ l.mask = packs[p].mask /\ l.edges = Supersessions(p)
  BY <1>1 DEF LineageOf
<1> HIDE DEF l
<1>3. /\ Len(l.heads) = Len(m)
      /\ \A i \in 1 .. Len(m) : l.heads[i].pack = m[i] /\ l.heads[i].rowTotal = RowTotal(m[i])
  BY <1>1, <1>2
<1>4. \A i \in 2 .. Len(m) : l.heads[i - 1].rowTotal <= l.heads[i].rowTotal
  <2>1. ASSUME NEW i \in 2 .. Len(m)
        PROVE  RowTotal(m[i - 1]) <= RowTotal(m[i])
    <3>1. i \in 1 .. Len(m) /\ i > 1
      BY <1>1
    <3>2. m[i] \in Packs /\ packs[m[i]].rowBase = RowTotal(m[i - 1])
      BY <3>1, MemberAt DEF LinkAccepted
    <3> QED
      BY <3>2, SoundFacts
  <2>2. \A i \in 2 .. Len(m) : i - 1 \in 1 .. Len(m) /\ i \in 1 .. Len(m)
    BY <1>1
  <2> QED
    BY <1>3, <2>1, <2>2
<1>5. \A i, j \in 1 .. Len(m) : l.heads[i].pack = l.heads[j].pack => i = j
  <2>1. \A i \in 1 .. Len(m) : Len(packs[m[i]].members) = i
    BY MemberAt
  <2> HIDE DEF m
  <2> QED
    BY <1>3, <2>1
<1>6. l.mask \subseteq 0 .. l.heads[Len(m)].rowTotal - 1
  <2>1. m[Len(m)] = p
    BY DEF ChainInv, Sound, WellFormed
  <2>2. l.heads[Len(m)].rowTotal = RowTotal(p)
    BY <1>1, <1>3, <2>1
  <2>3. packs[p].mask \subseteq 0 .. RowTotal(p) - 1
    BY SoundFacts
  <2> QED
    BY <1>2, <2>2, <2>3
<1>7. ASSUME NEW e \in l.edges
      PROVE  /\ e[1] \in l.mask /\ e[1] < e[2]
             /\ e[3] \in 1 .. Len(m) - 1
             /\ l.heads[e[3]].rowTotal <= e[2] /\ e[2] < l.heads[e[3] + 1].rowTotal
  <2>1. /\ e[1] \in packs[p].mask /\ e[1] < e[2]
        /\ e[3] \in 1 .. Len(m) - 1
        /\ RowTotal(m[e[3]]) <= e[2] /\ e[2] < RowTotal(m[e[3] + 1])
    BY <1>2, EdgeFacts
  <2>2. e[3] \in 1 .. Len(m) /\ e[3] + 1 \in 1 .. Len(m)
    BY <1>1, <2>1
  <2> HIDE DEF m
  <2> QED
    BY <1>2, <1>3, <2>1, <2>2
<1>8. \A e, f \in l.edges : e[1] = f[1] /\ e[3] = f[3] => e = f
  BY <1>2, EdgesDiffer
<1> HIDE DEF m
<1> QED
  BY <1>3, <1>4, <1>5, <1>6, <1>7, <1>8 DEF LineageAccepted, l

-----------------------------------------------------------------------------
(***************************************************************************)
(* Rows of different chains.                                               *)
(***************************************************************************)

\* An ancestor's ids name the same rows under its descendants.
LEMMA RowUnder ==
    ASSUME ChainInv, NEW p \in Packs, NEW a \in Members(p), NEW id \in Ids(a)
    PROVE  /\ a \in Packs /\ id \in Ids(p)
           /\ OwnerOf(p, id) = OwnerOf(a, id)
           /\ Row(p, id) = Row(a, id)
           /\ Content(p, id) = Content(a, id)
<1>1. a \in Packs /\ Members(a) \subseteq Members(p) /\ RowTotal(a) <= RowTotal(p)
  BY DEF ChainInv, Sound, Closed
<1>2. id \in Ids(p)
  <2>1. RowTotal(a) \in Nat /\ RowTotal(p) \in Nat
    BY <1>1, SoundFacts
  <2> QED
    BY <1>1, <2>1 DEF Ids
<1>3. OwnerOf(a, id) \in Members(p) /\ Owns(OwnerOf(a, id), id)
  BY <1>1, OwnerFacts
<1>4. OwnerOf(p, id) = OwnerOf(a, id)
  BY <1>2, <1>3, OwnerFacts
<1> QED
  BY <1>1, <1>2, <1>4 DEF Row, Content

\* A row stands for one id, in whichever chain.
LEMMA RowIds ==
    ASSUME ChainInv, NEW p \in Packs, NEW q \in Packs, NEW x \in Ids(p), NEW y \in Ids(q),
           Row(p, x) = Row(q, y)
    PROVE  x = y /\ OwnerOf(p, x) = OwnerOf(q, y)
<1>1. OwnerOf(p, x) = OwnerOf(q, y)
  BY DEF Row
<1>2. x - packs[OwnerOf(p, x)].rowBase = y - packs[OwnerOf(p, x)].rowBase
  BY <1>1 DEF Row
<1>3. OwnerOf(p, x) \in Packs
  BY OwnerFacts
<1>4. packs[OwnerOf(p, x)].rowBase \in Nat /\ x \in Int /\ y \in Int
  BY <1>3, SoundFacts DEF Ids
<1> QED
  BY <1>1, <1>2, <1>4

\* A layer's parent has the ids below the layer's own.
LEMMA ParentFacts ==
    ASSUME ChainInv, TreeInv, NEW p \in Packs, packs[p].depth >= 1
    PROVE  /\ Parent(p) \in Packs /\ Parent(p) \in Members(p)
           /\ LinkAccepted(Parent(p), p)
           /\ packs[p].rowBase = RowTotal(Parent(p))
           /\ packs[p].mask \subseteq Ids(Parent(p))
           /\ packs[Parent(p)].mask \subseteq packs[p].mask
           /\ \A e \in packs[p].edges : /\ e \in Edge /\ e[1] \in packs[p].mask /\ e[1] \in Ids(Parent(p))
                                        /\ e[2] \in Nat /\ Owns(p, e[2]) /\ e[2] \in Ids(p)
           /\ packs[Parent(p)].members[1] = packs[p].members[1]
<1>1. Parent(p) \in Packs /\ Parent(p) \in Members(p)
  BY ParentIn
<1>2. LinkAccepted(Parent(p), p)
  <2>1. Len(packs[p].members) \in 2 .. Len(packs[p].members)
    BY SoundFacts
  <2>2. packs[p].members[Len(packs[p].members)] = p
    BY DEF ChainInv, Sound, WellFormed
  <2> QED
    BY <2>1, <2>2 DEF ChainInv, Sound, Linked, Parent
<1>3. packs[p].rowBase = RowTotal(Parent(p)) /\ packs[Parent(p)].mask \subseteq packs[p].mask
  BY <1>2 DEF LinkAccepted
<1>4. packs[p].mask \subseteq Ids(Parent(p))
  BY <1>3, SoundFacts DEF Ids
<1>5. ASSUME NEW e \in packs[p].edges
      PROVE  /\ e \in Edge /\ e[1] \in packs[p].mask /\ e[1] \in Ids(Parent(p))
             /\ e[2] \in Nat /\ Owns(p, e[2]) /\ e[2] \in Ids(p)
  <2>1. e \in Edge /\ e[2] \in Nat
    BY SoundFacts DEF Edge
  <2>2. e[1] \in packs[p].mask /\ Owns(p, e[2])
    BY <1>2 DEF LinkAccepted
  <2>3. RowTotal(p) \in Nat
    BY SoundFacts
  <2> QED
    BY <1>4, <2>1, <2>2, <2>3 DEF Owns, Ids
<1>6. packs[Parent(p)].members[1] = packs[p].members[1]
  BY <1>1 DEF ChainInv, Sound, Closed
<1> QED
  BY <1>1, <1>2, <1>3, <1>4, <1>5, <1>6

\* The rows a layer's parent and a head share are those below their fork.
LEMMA SharedRows ==
    ASSUME ChainInv, TreeInv, NEW p \in Packs, NEW q \in Packs,
           packs[p].members[1] = packs[q].members[1]
    PROVE  /\ \A x \in Nat : x < ForkRowBase(p, q) =>
                  x \in Ids(p) /\ x \in Ids(q) /\ Row(p, x) = Row(q, x)
           /\ \A x \in Ids(p), y \in Ids(q) : Row(p, x) = Row(q, y) =>
                  x = y /\ x < ForkRowBase(p, q)
<1> DEFINE m == packs[p].members
           n == packs[q].members
<1>1. PICK i : i = SharedPrefix(p, q)
  OBVIOUS
<1>2. /\ Len(m) \in Nat /\ DOMAIN m = 1 .. Len(m)
      /\ Len(n) \in Nat /\ DOMAIN n = 1 .. Len(n)
  BY SoundFacts
<1>3. /\ i \in DOMAIN m /\ i \in DOMAIN n
      /\ \A k \in DOMAIN m \cap DOMAIN n : (\A j \in 1 .. k : m[j] = n[j]) => k <= i
      /\ m[i] \in Members(p) /\ m[i] \in Members(q) /\ m[i] \in Packs
  BY <1>1, SharedFacts
<1>4. PICK c \in Packs : c = m[i] /\ c \in Members(p) /\ c \in Members(q)
  BY <1>3
<1>5. ForkRowBase(p, q) = RowTotal(c) /\ RowTotal(c) \in Nat
  BY <1>1, <1>4, SoundFacts DEF ForkRowBase
<1>6. ASSUME NEW x \in Nat, x < ForkRowBase(p, q)
      PROVE  x \in Ids(p) /\ x \in Ids(q) /\ Row(p, x) = Row(q, x)
  <2>1. x \in Ids(c)
    BY <1>5, <1>6 DEF Ids
  <2> QED
    BY <1>4, <2>1, RowUnder
<1>7. ASSUME NEW x \in Ids(p), NEW y \in Ids(q), Row(p, x) = Row(q, y)
      PROVE  x = y /\ x < ForkRowBase(p, q)
  <2>1. x = y /\ OwnerOf(p, x) = OwnerOf(q, y)
    BY <1>7, RowIds
  <2>2. PICK o \in Packs : /\ o = OwnerOf(p, x) /\ o \in Members(p) /\ o \in Members(q)
                           /\ Owns(o, x)
    BY <2>1, OwnerFacts
  <2>3. PICK j \in 1 .. Len(m) : o = m[j]
    BY <2>2, <1>2 DEF Members
  <2>4. PICK k \in 1 .. Len(n) : o = n[k]
    BY <2>2, <1>2 DEF Members
  <2>5. Len(packs[o].members) = j /\ \A h \in 1 .. j : packs[o].members[h] = m[h]
    BY <2>3, MemberAt
  <2>6. Len(packs[o].members) = k /\ \A h \in 1 .. k : packs[o].members[h] = n[h]
    BY <2>4, MemberAt
  <2>7. j = k /\ \A h \in 1 .. j : m[h] = n[h]
    BY <2>5, <2>6
  <2>8. j <= i
    <3> HIDE DEF m, n
    <3> QED
      BY <1>2, <1>3, <2>7
  <2>9. o \in Members(c)
    <3>1. i \in 1 .. Len(m) /\ j \in 1 .. i
      BY <1>2, <1>3, <2>8
    <3>2. Len(packs[c].members) = i /\ packs[c].members[j] = m[j]
      BY <1>4, <3>1, MemberAt
    <3>3. j \in DOMAIN packs[c].members
      BY <3>1, <3>2, SoundFacts
    <3> QED
      BY <2>3, <3>2, <3>3 DEF Members
  <2>10. RowTotal(o) <= RowTotal(c)
    BY <2>9 DEF ChainInv, Sound, Closed
  <2>11. x \in Int /\ RowTotal(o) \in Nat
    BY SoundFacts DEF Ids
  <2> QED
    BY <1>5, <2>1, <2>2, <2>10, <2>11 DEF Owns
<1> QED
  BY <1>6, <1>7

-----------------------------------------------------------------------------
(***************************************************************************)
(* A rebase replays what the layer itself did.                             *)
(***************************************************************************)

LEMMA MaskIds ==
    ASSUME ChainInv, NEW p \in Packs
    PROVE  packs[p].mask \subseteq Ids(p)
<1>1. /\ packs[p].rowBase \in Nat /\ RowTotal(p) \in Nat
      /\ packs[p].rowBase <= RowTotal(p)
      /\ packs[p].mask \subseteq 0 .. packs[p].rowBase - 1
  BY SoundFacts
<1> QED
  BY <1>1 DEF Ids

LEMMA RebasedParent ==
    ASSUME ChainInv, TreeInv, NEW p \in Packs,
           NEW layer \in Packs, NEW head \in Packs, NEW onConflict \in Resolutions,
           RebaseOf(p, layer, head, onConflict)
    PROVE  /\ Parent(p) = head /\ head \in Members(p) /\ packs[p].depth >= 1
           /\ packs[p].rowBase = RowTotal(head)
           /\ Members(p) = Members(head) \cup {p}
           /\ packs[p].depth = Len(packs[head].members)
           /\ packs[layer].depth >= 1
           /\ Parent(layer) \in Packs
           /\ packs[Parent(layer)].members[1] = packs[head].members[1]
           /\ onConflict = "refuse" => Conflicts(layer, head) = {}
           /\ packs[p].rebased[1] = layer /\ packs[p].rebased[2] = head
           /\ packs[p].rows = packs[layer].rows
           /\ packs[p].mask = RebasedMask(layer, head, onConflict)
           /\ packs[p].edges = {Moved(layer, e, RowTotal(head)) : e \in Recorded(layer, head, onConflict)}
<1> DEFINE m == packs[head].members
<1>1. packs[p].members = Append(m, p)
  BY DEF RebaseOf
<1>2. m \in Seq(Nat) /\ Len(m) \in Nat \ {0} /\ DOMAIN m = 1 .. Len(m) /\ m[Len(m)] = head
  BY SoundFacts DEF ChainInv, Sound, WellFormed
<1>3. p \in Nat
  BY DEF ChainInv, IsHistory, Packs
<1>4. /\ Len(Append(m, p)) = Len(m) + 1
      /\ DOMAIN Append(m, p) = 1 .. (Len(m) + 1)
      /\ \A i \in 1 .. Len(m) : Append(m, p)[i] = m[i]
      /\ Append(m, p)[Len(m) + 1] = p
  BY <1>2, <1>3
<1> HIDE DEF m
<1>5. Parent(p) = head
  <2>1. Parent(p) = Append(m, p)[Len(Append(m, p)) - 1]
    BY <1>1 DEF Parent
  <2>2. Len(Append(m, p)) - 1 = Len(m) /\ Len(m) \in 1 .. Len(m)
    BY <1>2, <1>4
  <2>3. Append(m, p)[Len(m)] = m[Len(m)]
    BY <1>4, <2>2
  <2> QED
    BY <1>2, <2>1, <2>2, <2>3
<1>6. packs[p].depth = Len(m) /\ packs[p].depth >= 1
  <2>1. packs[p].depth = Len(Append(m, p)) - 1
    BY <1>1, SoundFacts
  <2> QED
    BY <1>2, <1>4, <2>1
<1>7. Parent(p) \in Members(p) /\ packs[p].rowBase = RowTotal(Parent(p))
  BY <1>6, ParentFacts
<1>8. Members(p) = Members(head) \cup {p}
  <2>1. Members(p) = {Append(m, p)[i] : i \in 1 .. (Len(m) + 1)}
    BY <1>1, <1>4 DEF Members
  <2>2. Members(head) = {m[i] : i \in 1 .. Len(m)}
    BY <1>2 DEF Members, m
  <2>3. 1 .. (Len(m) + 1) = (1 .. Len(m)) \cup {Len(m) + 1}
    BY <1>2
  <2> QED
    BY <2>1, <2>2, <2>3, <1>4
<1>9. packs[layer].depth >= 1 /\ packs[head].members[1] = packs[layer].members[1]
  BY DEF RebaseOf
<1>10. Parent(layer) \in Packs /\ packs[Parent(layer)].members[1] = packs[head].members[1]
  BY <1>9, ParentFacts
<1>11. packs[p].rebased[1] = layer /\ packs[p].rebased[2] = head
  BY DEF RebaseOf
<1> QED
  BY <1>5, <1>6, <1>7, <1>8, <1>9, <1>10, <1>11 DEF RebaseOf, m

\* What the layer did to rows the new head has is what is not foreign.
LEMMA NotForeign ==
    ASSUME ChainInv, TreeInv, NEW layer \in Packs, NEW head \in Packs,
           packs[layer].depth >= 1,
           packs[Parent(layer)].members[1] = packs[head].members[1],
           NEW x \in packs[layer].mask
    PROVE  /\ x < ForkRowBase(Parent(layer), head) <=> Row(layer, x) \in Rows(head)
           /\ x < ForkRowBase(Parent(layer), head) => x \in Ids(head) /\ Row(layer, x) = Row(head, x)
           /\ \A y \in Ids(head) : Row(layer, x) = Row(head, y) => x = y
           /\ x \in Ids(layer) /\ x \in Ids(Parent(layer)) /\ x \in Nat
           /\ Row(layer, x) = Row(Parent(layer), x)
<1>1. PICK q \in Packs : q = Parent(layer)
  BY ParentFacts
<1>2. q \in Members(layer) /\ x \in Ids(q) /\ x \in Nat
  BY <1>1, ParentFacts, SoundFacts DEF Ids
<1>3. x \in Ids(layer) /\ Row(layer, x) = Row(q, x)
  BY <1>2, RowUnder
<1>4. /\ x < ForkRowBase(q, head) => x \in Ids(head) /\ Row(q, x) = Row(head, x)
      /\ \A y \in Ids(head) : Row(q, x) = Row(head, y) => x = y /\ x < ForkRowBase(q, head)
  BY <1>1, <1>2, SharedRows
<1>5. x < ForkRowBase(q, head) <=> Row(layer, x) \in Rows(head)
  BY <1>3, <1>4 DEF Rows
<1> QED
  BY <1>1, <1>2, <1>3, <1>4, <1>5

LEMMA ReplaysOwn ==
    ASSUME ChainInv, TreeInv, ToldInv
    PROVE  RebaseReplaysOwn
<1> SUFFICES ASSUME NEW p \in Packs, packs[p].rebased # <<>>,
                    NEW layer, NEW head, NEW did,
                    layer = packs[p].rebased[1], head = packs[p].rebased[2],
                    did = (DeletedRows(layer) \ DeletedRows(Parent(layer)))
                              \cup {Row(layer, e[1]) : e \in packs[layer].edges}
             PROVE  /\ DeletedRows(p) = DeletedRows(head) \cup (did \cap Rows(head))
                    /\ Parent(p) = head
                    /\ packs[p].rows = packs[layer].rows
  BY DEF RebaseReplaysOwn
<1>1. PICK onConflict \in Resolutions :
          layer \in Packs /\ head \in Packs /\ RebaseOf(p, layer, head, onConflict)
  <2>1. PICK l \in Packs, h \in Packs, c \in Resolutions : RebaseOf(p, l, h, c)
    BY DEF ToldInv, Rebased
  <2>2. l = layer /\ h = head
    BY <2>1 DEF RebaseOf
  <2> QED
    BY <2>1, <2>2
<1> DEFINE q == Parent(layer)
           fork == ForkRowBase(q, head)
<1>2. /\ Parent(p) = head /\ head \in Members(p)
      /\ packs[layer].depth >= 1 /\ q \in Packs
      /\ packs[q].members[1] = packs[head].members[1]
      /\ onConflict = "refuse" => Conflicts(layer, head) = {}
      /\ packs[p].rows = packs[layer].rows
      /\ packs[p].mask = RebasedMask(layer, head, onConflict)
  BY <1>1, RebasedParent
<1>3. \A id \in Ids(head) : Row(p, id) = Row(head, id)
  BY <1>1, <1>2, RowUnder
<1>4. packs[head].mask \subseteq Ids(head)
  BY <1>1, MaskIds
<1>5. \A x \in packs[layer].mask :
          /\ x < fork <=> Row(layer, x) \in Rows(head)
          /\ x < fork => x \in Ids(head) /\ Row(layer, x) = Row(head, x)
          /\ \A y \in Ids(head) : Row(layer, x) = Row(head, y) => x = y
          /\ x \in Ids(layer) /\ x \in Ids(q) /\ x \in Nat
          /\ Row(layer, x) = Row(q, x)
  BY <1>1, <1>2, NotForeign
<1>6. /\ packs[q].mask \subseteq packs[layer].mask
      /\ \A e \in packs[layer].edges : e[1] \in packs[layer].mask
  BY <1>1, <1>2, ParentFacts
<1>7. fork \in Nat
  BY <1>1, <1>2, ForkBound
<1>8. \A x \in packs[layer].mask : ~(x >= fork) <=> x < fork
  BY <1>5, <1>7
\* an id the layer deleted names a row it deleted itself
<1>9. ASSUME NEW x \in Delta(layer)
      PROVE  x \in packs[layer].mask /\ Row(layer, x) \in did
  <2>1. x \in packs[layer].mask /\ x \notin packs[q].mask
    BY <1>9 DEF Delta
  <2>2. Row(layer, x) \in DeletedRows(layer)
    BY <2>1 DEF DeletedRows
  <2>3. ASSUME NEW y \in packs[q].mask, Row(layer, x) = Row(q, y)
        PROVE  FALSE
    <3>1. y \in packs[layer].mask
      BY <1>6
    <3>2. Row(layer, x) = Row(layer, y) /\ x \in Ids(layer) /\ y \in Ids(layer)
      BY <1>5, <2>1, <2>3, <3>1
    <3>3. x = y
      BY <1>1, <3>2, RowIds
    <3> QED
      BY <2>1, <3>3
  <2>4. Row(layer, x) \notin DeletedRows(q)
    BY <2>3 DEF DeletedRows
  <2> QED
    BY <2>1, <2>2, <2>4
<1>10. ASSUME NEW e \in Recorded(layer, head, onConflict)
       PROVE  e \in packs[layer].edges /\ e[1] \notin Foreign(layer, head)
  BY DEF Recorded, Surviving
<1>11. ASSUME NEW id \in packs[p].mask
       PROVE  Row(p, id) \in DeletedRows(head) \cup (did \cap Rows(head))
  <2>1. CASE id \in packs[head].mask
    BY <2>1, <1>3, <1>4 DEF DeletedRows
  <2>2. ASSUME id \in packs[layer].mask, Row(layer, id) \in did, id \notin Foreign(layer, head),
               id \in Delta(layer) \cup {e[1] : e \in packs[layer].edges}
        PROVE  Row(p, id) \in did \cap Rows(head)
    <3>1. id < fork
      BY <2>2, <1>8 DEF Foreign
    <3> HIDE DEF fork
    <3>2. Row(p, id) = Row(layer, id) /\ Row(layer, id) \in Rows(head)
      BY <1>3, <1>5, <2>2, <3>1
    <3> QED
      BY <2>2, <3>2
  <2>3. CASE id \in Delta(layer) \ Foreign(layer, head)
    BY <2>2, <2>3, <1>9
  <2>4. CASE \E e \in Recorded(layer, head, onConflict) : id = e[1]
    <3>1. PICK e \in Recorded(layer, head, onConflict) : id = e[1]
      BY <2>4
    <3>2. e \in packs[layer].edges /\ id \notin Foreign(layer, head)
      BY <1>10, <3>1
    <3>3. id \in packs[layer].mask /\ Row(layer, id) \in did
      BY <1>6, <3>1, <3>2
    <3> QED
      BY <2>2, <3>1, <3>2, <3>3
  <2> QED
    BY <1>2, <2>1, <2>3, <2>4 DEF RebasedMask
<1>12. packs[head].mask \subseteq packs[p].mask
  BY <1>2 DEF RebasedMask
<1>13. ASSUME NEW x \in packs[layer].mask, Row(layer, x) \in Rows(head),
              x \in Delta(layer) \/ \E e \in packs[layer].edges : x = e[1]
       PROVE  Row(layer, x) \in DeletedRows(p)
  <2>1. x < fork /\ x \in Ids(head) /\ Row(layer, x) = Row(head, x)
    BY <1>5, <1>13
  <2>2. x \notin Foreign(layer, head)
    BY <1>8, <2>1 DEF Foreign
  <2>3. x \in packs[p].mask
    <3>1. CASE x \in Delta(layer)
      BY <1>2, <2>2, <3>1 DEF RebasedMask
    <3>2. CASE \E e \in packs[layer].edges : x = e[1]
      <4>1. PICK e \in packs[layer].edges : x = e[1]
        BY <3>2
      <4>2. e \in Surviving(layer, head)
        BY <2>2, <4>1 DEF Surviving
      <4>3. CASE e \in Recorded(layer, head, onConflict)
        BY <1>2, <4>1, <4>3 DEF RebasedMask
      <4>4. CASE e \notin Recorded(layer, head, onConflict)
        <5>1. From(Supersessions(head), x) # {}
          BY <4>1, <4>2, <4>4 DEF Recorded, Conflicts
        <5>2. PICK f \in Supersessions(head) : f[1] = x
          BY <5>1 DEF From
        <5>3. x \in packs[head].mask
          BY <1>1, <5>2, EdgeFacts
        <5> QED
          BY <1>12, <5>3
      <4> QED
        BY <4>3, <4>4
    <3> QED
      BY <1>13, <3>1, <3>2
  <2>4. Row(p, x) = Row(layer, x)
    BY <1>3, <2>1
  <2> QED
    BY <2>3, <2>4 DEF DeletedRows
<1>14. ASSUME NEW r \in did \cap Rows(head)
       PROVE  r \in DeletedRows(p)
  <2>1. CASE r \in DeletedRows(layer) \ DeletedRows(q)
    <3>1. PICK x \in packs[layer].mask : r = Row(layer, x)
      BY <2>1 DEF DeletedRows
    <3>2. x \notin packs[q].mask
      <4>1. Row(layer, x) = Row(q, x)
        BY <1>5
      <4> QED
        BY <2>1, <3>1, <4>1 DEF DeletedRows
    <3>3. x \in Delta(layer)
      BY <3>2 DEF Delta
    <3> QED
      BY <1>13, <1>14, <3>1, <3>3
  <2>2. CASE \E e \in packs[layer].edges : r = Row(layer, e[1])
    <3>1. PICK e \in packs[layer].edges : r = Row(layer, e[1])
      BY <2>2
    <3>2. e[1] \in packs[layer].mask
      BY <1>6
    <3> QED
      BY <1>13, <1>14, <3>1, <3>2
  <2> QED
    BY <1>14, <2>1, <2>2
<1>15. DeletedRows(head) \subseteq DeletedRows(p)
  BY <1>3, <1>4, <1>12 DEF DeletedRows
<1>16. DeletedRows(p) \subseteq DeletedRows(head) \cup (did \cap Rows(head))
  BY <1>11 DEF DeletedRows
<1> QED
  BY <1>2, <1>14, <1>15, <1>16

-----------------------------------------------------------------------------
(***************************************************************************)
(* Following supersessions.  A walk along edges that lead to higher ids    *)
(* ends, so the function that says where exists.                           *)
(***************************************************************************)

LEMMA LeastNat ==
    ASSUME NEW T \in SUBSET Nat, T # {}
    PROVE  \E t \in T : \A u \in T : t <= u
<1> DEFINE less == OpToRel(<, Nat)
<1>1. IsWellFoundedOn(less, Nat)
  BY NatLessThanWellFounded
<1>2. PICK t \in T : \A u \in T : <<u, t>> \notin less
  <2> HIDE DEF less
  <2> QED
    BY <1>1, WFMin
<1>3. \A u \in T : ~(u < t)
  BY <1>2 DEF OpToRel
<1>4. \A u \in T : t <= u
  BY <1>3
<1> QED
  BY <1>4

\* The equation of a walk holds from x on.
WalksFrom(f, n, x, stops, next, last) ==
    \A y \in 0 .. n - 1 : y >= x => f[y] = IF y \in stops THEN last[y] ELSE f[next[y]]

LEMMA WalkExists ==
    ASSUME NEW n \in Nat, NEW stops, NEW next, NEW last,
           \A x \in 0 .. n - 1 : x \notin stops => next[x] \in 0 .. n - 1 /\ x < next[x]
    PROVE  \E f : f = [x \in 0 .. n - 1 |-> f[x]] /\ WalksFrom(f, n, 0, stops, next, last)
<1> DEFINE Good(k) == \E f : /\ f = [x \in 0 .. n - 1 |-> f[x]]
                             /\ WalksFrom(f, n, n - k, stops, next, last)
           T == {k \in Nat : ~Good(k)}
<1>1. Good(0)
  <2> DEFINE g == [x \in 0 .. n - 1 |-> x]
  <2>1. \A x \in 0 .. n - 1 : ~(x >= n - 0)
    OBVIOUS
  <2>2. g = [x \in 0 .. n - 1 |-> g[x]]
    OBVIOUS
  <2> HIDE DEF g
  <2>3. WalksFrom(g, n, n - 0, stops, next, last)
    BY <2>1 DEF WalksFrom
  <2> QED
    BY <2>2, <2>3
<1>2. ASSUME NEW k \in Nat, Good(k)
      PROVE  Good(k + 1)
  <2>1. PICK f : /\ f = [x \in 0 .. n - 1 |-> f[x]]
                 /\ WalksFrom(f, n, n - k, stops, next, last)
    BY <1>2
  <2> DEFINE z == n - (k + 1)
             value == IF z \in stops THEN last[z] ELSE f[next[z]]
             g == [x \in 0 .. n - 1 |-> IF x = z THEN value ELSE f[x]]
  <2>2. \A x \in 0 .. n - 1 : x # z => g[x] = f[x]
    OBVIOUS
  <2>3. z \in 0 .. n - 1 => g[z] = value
    OBVIOUS
  <2>4. g = [x \in 0 .. n - 1 |-> g[x]]
    OBVIOUS
  <2> HIDE DEF g, value
  <2>5. ASSUME NEW y \in 0 .. n - 1, y >= z
        PROVE  g[y] = IF y \in stops THEN last[y] ELSE g[next[y]]
    <3>1. y \notin stops => next[y] \in 0 .. n - 1 /\ next[y] # z /\ g[next[y]] = f[next[y]]
      <4>1. ASSUME y \notin stops PROVE next[y] \in 0 .. n - 1 /\ y < next[y]
        BY <4>1
      <4>2. ASSUME y \notin stops PROVE next[y] # z
        BY <2>5, <4>1, <4>2
      <4> HIDE DEF z
      <4> QED
        BY <2>2, <4>1, <4>2
    <3>2. CASE y = z
      BY <2>3, <3>1, <3>2 DEF value
    <3>3. CASE y # z
      <4>1. y >= n - k
        BY <2>5, <3>3
      <4>2. f[y] = IF y \in stops THEN last[y] ELSE f[next[y]]
        BY <2>1, <4>1 DEF WalksFrom
      <4> QED
        BY <2>2, <3>1, <3>3, <4>2
    <3> QED
      BY <3>2, <3>3
  <2>6. WalksFrom(g, n, n - (k + 1), stops, next, last)
    BY <2>5 DEF WalksFrom
  <2> QED
    BY <2>4, <2>6
<1> HIDE DEF Good
<1>3. T = {}
  <2> SUFFICES ASSUME T # {} PROVE FALSE
    OBVIOUS
  <2>1. PICK t \in T : \A u \in T : t <= u
    <3>1. T \in SUBSET Nat
      OBVIOUS
    <3> HIDE DEF T
    <3> QED
      BY <3>1, LeastNat
  <2>2. t \in Nat /\ t # 0
    BY <1>1
  <2>3. t - 1 \in Nat /\ ~(t <= t - 1)
    BY <2>2
  <2>4. Good(t - 1)
    BY <2>1, <2>3
  <2>5. Good((t - 1) + 1)
    BY <1>2, <2>3, <2>4
  <2>6. (t - 1) + 1 = t
    BY <2>2
  <2> QED
    BY <2>5, <2>6
<1>4. Good(n)
  BY <1>3
<1>5. n - n = 0
  OBVIOUS
<1> QED
  BY <1>4, <1>5 DEF Good

\* The deepest and the shallowest edge of an id.
LEMMA Extremes ==
    ASSUME ChainInv, TreeInv, NEW p \in Packs, NEW x, From(Supersessions(p), x) # {}
    PROVE  /\ \E e \in From(Supersessions(p), x) :
                  \A f \in From(Supersessions(p), x) : e[3] >= f[3]
           /\ \E e \in From(Supersessions(p), x) :
                  \A f \in From(Supersessions(p), x) : e[3] <= f[3]
           /\ \A e, f \in From(Supersessions(p), x) : e[3] = f[3] => e = f
           /\ \A e \in From(Supersessions(p), x) : e[3] \in Nat
<1> DEFINE F == From(Supersessions(p), x)
           depths == {e[3] : e \in F}
           n == Len(packs[p].members) - 1
<1>1. \A e \in F : e \in Supersessions(p) /\ e[1] = x /\ e[3] \in 1 .. n
  BY EdgeFacts DEF From
<1>2. n \in Nat
  BY SoundFacts
<1> HIDE DEF F, n
<1>3. depths \in SUBSET (1 .. n) /\ depths # {}
  BY <1>1 DEF F
<1>4. PICK d \in depths : \A c \in depths : c <= d
  <2> HIDE DEF depths
  <2> QED
    BY <1>2, <1>3, GreatestExists
<1>5. PICK b \in depths : \A c \in depths : b <= c
  <2>1. depths \in SUBSET Nat
    BY <1>3
  <2> HIDE DEF depths
  <2> QED
    BY <1>3, <2>1, LeastNat
<1>6. \E e \in F : \A f \in F : e[3] >= f[3]
  <2>1. PICK e \in F : d = e[3]
    BY <1>4
  <2>2. \A f \in F : f[3] <= e[3] /\ f[3] \in Nat /\ e[3] \in Nat
    BY <1>1, <1>4, <2>1
  <2> QED
    BY <2>2
<1>7. \E e \in F : \A f \in F : e[3] <= f[3]
  BY <1>5
<1>8. \A e, f \in F : e[3] = f[3] => e = f
  BY <1>1, EdgesDiffer
<1>9. \A e \in F : e[3] \in Nat
  BY <1>1
<1> QED
  BY <1>6, <1>7, <1>8, <1>9 DEF F

LEMMA LatestFacts ==
    ASSUME ChainInv, TreeInv, NEW p \in Packs, NEW x, From(Supersessions(p), x) # {}
    PROVE  LET y == Latest(Supersessions(p), x)
           IN  /\ x \in Ids(p) /\ y \in Ids(p) /\ x < y /\ x \in packs[p].mask
               /\ \A e \in From(Supersessions(p), x) :
                      (\A f \in From(Supersessions(p), x) : e[3] >= f[3]) => y = e[2]
<1> DEFINE F == From(Supersessions(p), x)
<1>1. /\ \E e \in F : \A f \in F : e[3] >= f[3]
      /\ \A e, f \in F : e[3] = f[3] => e = f
      /\ \A e \in F : e[3] \in Nat
  BY Extremes
<1>2. PICK e \in F : /\ e = CHOOSE g \in F : \A f \in F : g[3] >= f[3]
                     /\ \A f \in F : e[3] >= f[3]
  <2> HIDE DEF F
  <2> QED
    BY <1>1
<1>3. Latest(Supersessions(p), x) = e[2]
  BY <1>2 DEF Latest
<1>4. e \in Supersessions(p) /\ e[1] = x
  BY DEF From
<1>5. x \in Ids(p) /\ e[2] \in Ids(p) /\ x < e[2] /\ x \in packs[p].mask
  BY <1>4, EdgeFacts
<1>6. ASSUME NEW g \in F, \A f \in F : g[3] >= f[3]
      PROVE  g = e
  <2>1. g[3] >= e[3] /\ e[3] >= g[3]
    BY <1>2, <1>6
  <2> HIDE DEF F
  <2> QED
    BY <1>1, <2>1
<1> QED
  BY <1>3, <1>5, <1>6

LEMMA CurrentSteps ==
    ASSUME ChainInv, TreeInv, NEW p \in Packs, NEW x \in Ids(p)
    PROVE  Current(p, x) = IF From(Supersessions(p), x) = {} THEN x
                           ELSE Current(p, Latest(Supersessions(p), x))
<1> DEFINE S == Supersessions(p)
           n == RowTotal(p)
           stops == {y \in Ids(p) : From(S, y) = {}}
           next == [y \in Ids(p) |-> Latest(S, y)]
           last == [y \in Ids(p) |-> y]
           end == CHOOSE f : f = [y \in Ids(p) |-> IF From(S, y) = {} THEN y ELSE f[Latest(S, y)]]
<1>1. n \in Nat /\ Ids(p) = 0 .. n - 1
  BY SoundFacts DEF Ids
<1>2. \A y \in Ids(p) : y \notin stops => next[y] \in Ids(p) /\ y < next[y]
  <2>1. \A y \in Ids(p) : From(S, y) # {} => Latest(S, y) \in Ids(p) /\ y < Latest(S, y)
    BY LatestFacts
  <2> QED
    BY <2>1
<1>3. \A y \in Ids(p) : (y \in stops <=> From(S, y) = {}) /\ next[y] = Latest(S, y) /\ last[y] = y
  OBVIOUS
<1> HIDE DEF stops, next, last, S, n
<1>4. PICK f : f = [y \in 0 .. n - 1 |-> f[y]] /\ WalksFrom(f, n, 0, stops, next, last)
  <2>1. \A y \in 0 .. n - 1 : y \notin stops => next[y] \in 0 .. n - 1 /\ y < next[y]
    BY <1>1, <1>2
  <2> QED
    BY <1>1, <2>1, WalkExists
<1>5. f = [y \in Ids(p) |-> IF From(S, y) = {} THEN y ELSE f[Latest(S, y)]]
  <2>1. \A y \in Ids(p) : y >= 0
    BY <1>1
  <2>2. \A y \in Ids(p) : f[y] = IF From(S, y) = {} THEN y ELSE f[Latest(S, y)]
    BY <1>1, <1>3, <1>4, <2>1 DEF WalksFrom
  <2> QED
    BY <1>1, <1>4, <2>2
<1>6. end = [y \in Ids(p) |-> IF From(S, y) = {} THEN y ELSE end[Latest(S, y)]]
  BY <1>5
<1>7. \A y : Current(p, y) = end[y]
  BY DEF Current, S
<1> HIDE DEF end
<1> QED
  BY <1>6, <1>7 DEF S

LEMMA ImmediateFacts ==
    ASSUME ChainInv, TreeInv, NEW p \in Packs, NEW x,
           NEW e \in From(Supersessions(p), x),
           \A f \in From(Supersessions(p), x) : e[3] <= f[3]
    PROVE  Immediate(Supersessions(p), x) = e[2]
<1> DEFINE F == From(Supersessions(p), x)
<1>1. \A g, f \in F : g[3] = f[3] => g = f
  BY Extremes
<1>2. \A g \in F : g[3] \in Nat
  BY Extremes
<1>3. PICK g \in F : /\ g = CHOOSE h \in F : \A f \in F : h[3] <= f[3]
                     /\ \A f \in F : g[3] <= f[3]
  <2>1. e \in F /\ \A f \in F : e[3] <= f[3]
    OBVIOUS
  <2> HIDE DEF F
  <2> QED
    BY <2>1
<1>4. g[3] <= e[3] /\ e[3] <= g[3] /\ e \in F
  BY <1>3
<1>5. g = e
  <2> HIDE DEF F
  <2> QED
    BY <1>1, <1>2, <1>4
<1>6. Immediate(Supersessions(p), x) = g[2]
  BY <1>3 DEF Immediate
<1> QED
  BY <1>5, <1>6

\* Of an id that a layer superseded, the rebased layer adds the layer's edge,
\* moved, or none.
LEMMA RebasedFrom ==
    ASSUME ChainInv, TreeInv, NEW p \in Packs,
           NEW layer \in Packs, NEW head \in Packs, NEW onConflict \in Resolutions,
           RebaseOf(p, layer, head, onConflict),
           NEW e \in packs[layer].edges, NEW new,
           new = <<e[1], RowTotal(head) + (e[2] - packs[layer].rowBase), packs[p].depth>>
    PROVE  /\ From(Supersessions(p), e[1]) =
                  From(Supersessions(head), e[1])
                      \cup (IF e \in Recorded(layer, head, onConflict) THEN {new} ELSE {})
           /\ \A f \in From(Supersessions(head), e[1]) : f[3] < packs[p].depth
<1>1. /\ Members(p) = Members(head) \cup {p}
      /\ packs[p].depth = Len(packs[head].members)
      /\ packs[layer].depth >= 1
      /\ packs[p].edges = {Moved(layer, f, RowTotal(head)) : f \in Recorded(layer, head, onConflict)}
  BY RebasedParent
<1> DEFINE own == {<<f[1], f[2], packs[p].depth>> : f \in packs[p].edges}
<1>2. Supersessions(p) = Supersessions(head) \cup own
  BY <1>1 DEF Supersessions
<1>3. \A f \in packs[layer].edges : f[1] = e[1] => f = e
  <2>1. LinkAccepted(Parent(layer), layer)
    BY <1>1, ParentFacts
  <2> QED
    BY <2>1 DEF LinkAccepted
<1>4. Recorded(layer, head, onConflict) \subseteq packs[layer].edges
  BY DEF Recorded, Surviving
<1>5. own = {<<f[1], RowTotal(head) + (f[2] - packs[layer].rowBase), packs[p].depth>> :
                 f \in Recorded(layer, head, onConflict)}
  <2>1. \A f : Moved(layer, f, RowTotal(head)) = <<f[1], RowTotal(head) + (f[2] - packs[layer].rowBase)>>
    BY DEF Moved
  <2>2. \A f : Moved(layer, f, RowTotal(head))[1] = f[1]
               /\ Moved(layer, f, RowTotal(head))[2] = RowTotal(head) + (f[2] - packs[layer].rowBase)
    BY <2>1
  <2> QED
    BY <1>1, <2>2
<1> HIDE DEF own
<1>6. From(own, e[1]) = IF e \in Recorded(layer, head, onConflict) THEN {new} ELSE {}
  <2>1. ASSUME NEW g \in own, g[1] = e[1]
        PROVE  e \in Recorded(layer, head, onConflict) /\ g = new
    <3>1. PICK f \in Recorded(layer, head, onConflict) :
              g = <<f[1], RowTotal(head) + (f[2] - packs[layer].rowBase), packs[p].depth>>
      BY <1>5
    <3>2. f[1] = e[1]
      BY <2>1, <3>1
    <3>3. f = e
      BY <1>3, <1>4, <3>2
    <3> QED
      BY <3>1, <3>3
  <2>2. ASSUME e \in Recorded(layer, head, onConflict)
        PROVE  new \in own /\ new[1] = e[1]
    BY <1>5, <2>2
  <2> QED
    BY <2>1, <2>2 DEF From
<1>7. From(Supersessions(p), e[1]) = From(Supersessions(head), e[1]) \cup From(own, e[1])
  BY <1>2 DEF From
<1>8. ASSUME NEW f \in From(Supersessions(head), e[1])
      PROVE  f[3] < packs[p].depth
  <2>1. f \in Supersessions(head)
    BY DEF From
  <2>2. f[3] \in 1 .. Len(packs[head].members) - 1 /\ Len(packs[head].members) \in Nat
    BY <2>1, EdgeFacts, SoundFacts
  <2> QED
    BY <1>1, <2>2
<1> QED
  BY <1>6, <1>7, <1>8

\* The replacement is where the walk ends, and a copy.
LEMMA Replaced ==
    ASSUME ChainInv, TreeInv, NEW p \in Packs,
           NEW layer \in Packs, NEW head \in Packs, NEW onConflict \in Resolutions,
           RebaseOf(p, layer, head, onConflict),
           NEW e \in Recorded(layer, head, onConflict)
    PROVE  /\ Content(p, Current(p, e[1])) = Content(layer, e[2])
           /\ OwnerOf(p, Current(p, e[1])) = p
<1> DEFINE y == RowTotal(head) + (e[2] - packs[layer].rowBase)
           new == <<e[1], y, packs[p].depth>>
<1>1. /\ packs[p].rowBase = RowTotal(head) /\ packs[p].depth >= 1
      /\ packs[layer].depth >= 1
      /\ packs[p].rows = packs[layer].rows
  BY RebasedParent
<1>2. e \in packs[layer].edges
  BY DEF Recorded, Surviving
<1>3. e[2] \in Nat /\ Owns(layer, e[2]) /\ e[2] \in Ids(layer)
  BY <1>1, <1>2, ParentFacts
<1>4. /\ packs[p].rowBase \in Nat /\ packs[layer].rowBase \in Nat
      /\ Records(p) \in Nat /\ Records(p) = Records(layer)
      /\ RowTotal(p) = packs[p].rowBase + Records(p)
      /\ RowTotal(layer) = packs[layer].rowBase + Records(layer)
  BY <1>1, SoundFacts DEF RowTotal, Records
<1>5. /\ y \in Nat /\ packs[p].rowBase <= y /\ y < RowTotal(p)
      /\ y - packs[p].rowBase = e[2] - packs[layer].rowBase
  BY <1>1, <1>3, <1>4 DEF Owns
<1>6. y \in Ids(p) /\ Owns(p, y)
  BY <1>4, <1>5 DEF Ids, Owns
<1>7. p \in Members(p) /\ layer \in Members(layer)
  <2>1. \A q \in Packs : q \in Members(q)
    <3>1. ASSUME NEW q \in Packs
          PROVE  packs[q].members[Len(packs[q].members)] = q /\ Len(packs[q].members) \in DOMAIN packs[q].members
      BY SoundFacts DEF ChainInv, Sound, WellFormed
    <3> QED
      BY <3>1 DEF Members
  <2> QED
    BY <2>1
<1>8. OwnerOf(p, y) = p /\ OwnerOf(layer, e[2]) = layer
  BY <1>3, <1>6, <1>7, OwnerFacts
<1>9. Content(p, y) = Content(layer, e[2])
  BY <1>1, <1>5, <1>8 DEF Content
<1>10. From(Supersessions(p), y) = {}
  <2> SUFFICES ASSUME From(Supersessions(p), y) # {} PROVE FALSE
    OBVIOUS
  <2>1. y \in packs[p].mask
    BY LatestFacts
  <2>2. y < packs[p].rowBase
    BY <2>1, SoundFacts
  <2> QED
    BY <1>4, <1>5, <2>2
<1> HIDE DEF y
<1>11. Current(p, y) = y
  BY <1>6, <1>10, CurrentSteps
<1>12. /\ From(Supersessions(p), e[1]) = From(Supersessions(head), e[1]) \cup {new}
       /\ \A f \in From(Supersessions(head), e[1]) : f[3] < packs[p].depth
  BY <1>2, RebasedFrom DEF y
<1>13. \A f \in From(Supersessions(p), e[1]) : new[3] >= f[3]
  <2>1. \A f \in From(Supersessions(p), e[1]) : f[3] \in Nat
    BY Extremes
  <2>2. packs[p].depth \in Nat
    <3>1. packs[p].depth = Len(packs[p].members) - 1 /\ Len(packs[p].members) \in Nat \ {0}
      BY SoundFacts
    <3> QED
      BY <3>1
  <2>3. new[3] = packs[p].depth
    OBVIOUS
  <2> HIDE DEF new
  <2> QED
    BY <1>12, <2>1, <2>2, <2>3
<1>14. /\ e[1] \in Ids(p)
       /\ Latest(Supersessions(p), e[1]) = y
  <2>1. new \in From(Supersessions(p), e[1]) /\ new[2] = y
    BY <1>12
  <2>2. From(Supersessions(p), e[1]) # {}
    BY <2>1
  <2>3. /\ e[1] \in Ids(p)
        /\ \A g \in From(Supersessions(p), e[1]) :
               (\A f \in From(Supersessions(p), e[1]) : g[3] >= f[3]) =>
                   Latest(Supersessions(p), e[1]) = g[2]
    BY <2>2, LatestFacts
  <2> HIDE DEF new
  <2> QED
    BY <1>13, <2>1, <2>3
<1>15. Current(p, e[1]) = y
  <2>1. From(Supersessions(p), e[1]) # {}
    BY <1>12
  <2> QED
    BY <1>11, <1>14, <2>1, CurrentSteps
<1> QED
  BY <1>8, <1>9, <1>15

\* What a rebase owes to an edge of the layer.
Succeeded(p, layer, head, e) ==
    LET x == e[1]
        before == From(Supersessions(head), x)
        replaced == /\ Content(p, Current(p, x)) = Content(layer, e[2])
                    /\ OwnerOf(p, Current(p, x)) = p
    IN  IF before = {} THEN replaced
        ELSE /\ Immediate(Supersessions(p), x) = Immediate(Supersessions(head), x)
             /\ \/ replaced
                \/ From(Supersessions(p), x) = before

LEMMA SuccessorKept ==
    ASSUME ChainInv, TreeInv, NEW p \in Packs,
           NEW layer \in Packs, NEW head \in Packs, NEW onConflict \in Resolutions,
           RebaseOf(p, layer, head, onConflict),
           NEW e \in packs[layer].edges, Row(layer, e[1]) \in Rows(head)
    PROVE  Succeeded(p, layer, head, e)
<1>2. /\ packs[layer].depth >= 1 /\ Parent(layer) \in Packs
      /\ packs[Parent(layer)].members[1] = packs[head].members[1]
      /\ onConflict = "refuse" => Conflicts(layer, head) = {}
  BY RebasedParent
<1>3. e[1] \in packs[layer].mask
  BY <1>2, ParentFacts
<1>4. e[1] < ForkRowBase(Parent(layer), head) /\ e[1] \in Nat
  BY <1>2, <1>3, NotForeign
<1>5. ForkRowBase(Parent(layer), head) \in Nat
  BY <1>2, ForkBound
<1>6. e \in Surviving(layer, head)
  <2>1. ~(e[1] >= ForkRowBase(Parent(layer), head))
    BY <1>4, <1>5
  <2> QED
    BY <2>1 DEF Surviving, Foreign
<1> DEFINE x == e[1]
           before == From(Supersessions(head), x)
           recorded == e \in Recorded(layer, head, onConflict)
<1> PICK new : new = <<e[1], RowTotal(head) + (e[2] - packs[layer].rowBase), packs[p].depth>>
  OBVIOUS
<1>7. /\ From(Supersessions(p), x) = before \cup (IF recorded THEN {new} ELSE {})
      /\ \A f \in before : f[3] < packs[p].depth
  <2> HIDE DEF x, before, recorded
  <2>2. /\ From(Supersessions(p), e[1]) =
               From(Supersessions(head), e[1])
                   \cup (IF e \in Recorded(layer, head, onConflict) THEN {new} ELSE {})
        /\ \A f \in From(Supersessions(head), e[1]) : f[3] < packs[p].depth
    BY RebasedFrom
  <2> QED
    BY <2>2 DEF x, before, recorded
<1>8. recorded => /\ Content(p, Current(p, x)) = Content(layer, e[2])
                  /\ OwnerOf(p, Current(p, x)) = p
  BY Replaced
<1>9. before = {} => recorded
  BY <1>6 DEF Recorded, Conflicts
<1>10. ASSUME before # {}
       PROVE  Immediate(Supersessions(p), x) = Immediate(Supersessions(head), x)
  <2>1. PICK f \in before : \A g \in before : f[3] <= g[3]
    BY <1>10, Extremes
  <2>2. Immediate(Supersessions(head), x) = f[2]
    BY <2>1, ImmediateFacts
  <2>3. \A g \in before : g[3] \in Nat
    BY Extremes
  <2>4. packs[p].depth \in Nat /\ new[3] = packs[p].depth
    <3>1. packs[p].depth = Len(packs[p].members) - 1 /\ Len(packs[p].members) \in Nat \ {0}
      BY SoundFacts
    <3>2. new[3] = packs[p].depth
      OBVIOUS
    <3> QED
      BY <3>1, <3>2
  <2>5. \A g \in From(Supersessions(p), x) : f[3] <= g[3]
    <3> HIDE DEF before, recorded
    <3> QED
      BY <1>7, <2>1, <2>3, <2>4
  <2>6. f \in From(Supersessions(p), x)
    BY <1>7
  <2>7. Immediate(Supersessions(p), x) = f[2]
    <3> HIDE DEF before, x
    <3> QED
      BY <2>5, <2>6, ImmediateFacts
  <2> QED
    BY <2>2, <2>7
<1>11. ~recorded => From(Supersessions(p), x) = before
  BY <1>7
<1> QED
  BY <1>8, <1>9, <1>10, <1>11 DEF Succeeded

LEMMA KeepsSuccessors ==
    ASSUME ChainInv, TreeInv, ToldInv
    PROVE  RebaseKeepsSuccessors
<1>1. ASSUME NEW p \in Packs, packs[p].rebased # <<>>
      PROVE  \A e \in packs[packs[p].rebased[1]].edges :
                 Row(packs[p].rebased[1], e[1]) \in Rows(packs[p].rebased[2]) =>
                     Succeeded(p, packs[p].rebased[1], packs[p].rebased[2], e)
  <2>1. PICK layer \in Packs, head \in Packs, onConflict \in Resolutions :
            RebaseOf(p, layer, head, onConflict)
    BY <1>1 DEF ToldInv, Rebased
  <2>2. packs[p].rebased[1] = layer /\ packs[p].rebased[2] = head
    BY <2>1 DEF RebaseOf
  <2>3. \A e \in packs[layer].edges :
            Row(layer, e[1]) \in Rows(head) => Succeeded(p, layer, head, e)
    BY <2>1, SuccessorKept
  <2> QED
    BY <2>2, <2>3
<1> QED
  BY <1>1, Zenon DEF RebaseKeepsSuccessors, Succeeded

-----------------------------------------------------------------------------
(***************************************************************************)
(* A citation through a compaction.                                        *)
(***************************************************************************)

\* What the walk through a lineage finds for an id x when the citation was of id.
Fates(h, id, fate) ==
    \A x \in Ids(h) :
        fate[x] = IF x \notin packs[h].mask
                  THEN <<IF x = id THEN "live" ELSE "superseded",
                         x - Cardinality(Below(packs[h].mask, x))>>
                  ELSE IF From(Supersessions(h), x) = {} THEN Deleted
                  ELSE fate[Latest(Supersessions(h), x)]

LEMMA TranslateWalks ==
    ASSUME ChainInv, TreeInv, NEW base, NEW h \in Packs,
           packs[base].lineage = LineageOf(h),
           NEW cited \in Members(h), NEW id \in Ids(cited)
    PROVE  \E fate : Fates(h, id, fate) /\ TranslateCitation(base, cited, id) = fate[id]
<1> DEFINE m == packs[h].members
           l == packs[base].lineage
           n == l.heads[Len(l.heads)].rowTotal
           entries == {i \in DOMAIN l.heads : l.heads[i].pack = cited}
           live(x) == <<IF x = id THEN "live" ELSE "superseded",
                        x - Cardinality({y \in l.mask : y < x})>>
           end == CHOOSE f : f = [x \in 0 .. n - 1 |->
                      IF x \notin l.mask THEN live(x)
                      ELSE IF From(l.edges, x) = {} THEN Deleted ELSE f[Latest(l.edges, x)]]
<1>1. Len(m) \in Nat \ {0} /\ DOMAIN m = 1 .. Len(m) /\ m[Len(m)] = h
  BY SoundFacts DEF ChainInv, Sound, WellFormed
<1>2. /\ l.heads = [i \in 1 .. Len(m) |-> [pack |-> m[i], rowTotal |-> RowTotal(m[i])]]
      /\ l.mask = packs[h].mask /\ l.edges = Supersessions(h)
  BY <1>1 DEF LineageOf
<1>3. LineageAccepted(l)
  BY LineagePasses
<1>4. /\ Len(l.heads) = Len(m) /\ DOMAIN l.heads = 1 .. Len(m)
      /\ \A i \in 1 .. Len(m) : l.heads[i].pack = m[i] /\ l.heads[i].rowTotal = RowTotal(m[i])
  BY <1>1, <1>2
<1>5. n = RowTotal(h) /\ n \in Nat /\ Ids(h) = 0 .. n - 1
  <2>1. n = RowTotal(h)
    BY <1>1, <1>4
  <2>2. RowTotal(h) \in Nat
    BY SoundFacts
  <2> HIDE DEF n
  <2> QED
    BY <2>1, <2>2 DEF Ids
<1>6. entries # {} /\ ~(\A i \in entries : id >= l.heads[i].rowTotal)
  <2>1. PICK i \in 1 .. Len(m) : cited = m[i]
    BY <1>1 DEF Members
  <2>2. i \in entries /\ l.heads[i].rowTotal = RowTotal(cited)
    BY <1>4, <2>1
  <2>3. RowTotal(cited) \in Nat /\ id \in 0 .. RowTotal(cited) - 1
    <3>1. cited \in Packs
      BY DEF ChainInv, Sound, Closed
    <3> QED
      BY <3>1, SoundFacts DEF Ids
  <2>4. ~(id >= RowTotal(cited))
    BY <2>3
  <2> HIDE DEF entries, l
  <2> QED
    BY <2>2, <2>4
<1>7. TranslateCitation(base, cited, id) = end[id]
  <2>1. TranslateCitation(base, cited, id) =
            IF ~LineageAccepted(l) THEN Unreadable
            ELSE IF entries = {} THEN NotOnThisHistory
            ELSE IF \A i \in entries : id >= l.heads[i].rowTotal THEN Postdates
            ELSE end[id]
    BY Zenon DEF TranslateCitation
  <2> HIDE DEF entries, l, end
  <2> QED
    BY <1>3, <1>6, <2>1
<1> DEFINE S == Supersessions(h)
           stops == {x \in Ids(h) : x \notin packs[h].mask \/ From(S, x) = {}}
           next == [x \in Ids(h) |-> Latest(S, x)]
           last == [x \in Ids(h) |-> IF x \notin packs[h].mask THEN live(x) ELSE Deleted]
<1>8. \A x \in Ids(h) : x \notin stops => next[x] \in Ids(h) /\ x < next[x]
  <2>1. \A x \in Ids(h) : From(S, x) # {} => Latest(S, x) \in Ids(h) /\ x < Latest(S, x)
    BY LatestFacts
  <2> QED
    BY <2>1
<1>9. \A x \in Ids(h) : /\ x \in stops <=> (x \notin packs[h].mask \/ From(S, x) = {})
                        /\ next[x] = Latest(S, x)
                        /\ last[x] = IF x \notin packs[h].mask THEN live(x) ELSE Deleted
  OBVIOUS
<1>10. \A x : live(x) = <<IF x = id THEN "live" ELSE "superseded",
                          x - Cardinality(Below(packs[h].mask, x))>>
  BY <1>2 DEF Below
<1> HIDE DEF l, n, stops, next, last, S, live
<1>11. PICK f : f = [x \in 0 .. n - 1 |-> f[x]] /\ WalksFrom(f, n, 0, stops, next, last)
  <2>1. \A x \in 0 .. n - 1 : x \notin stops => next[x] \in 0 .. n - 1 /\ x < next[x]
    BY <1>5, <1>8
  <2> QED
    BY <1>5, <2>1, WalkExists
<1>12. f = [x \in 0 .. n - 1 |->
                IF x \notin l.mask THEN live(x)
                ELSE IF From(l.edges, x) = {} THEN Deleted ELSE f[Latest(l.edges, x)]]
  <2>1. \A x \in Ids(h) : x >= 0
    BY <1>5
  <2>2. l.mask = packs[h].mask /\ l.edges = S
    BY <1>2 DEF S
  <2>3. \A x \in Ids(h) : f[x] = IF x \notin l.mask THEN live(x)
                                 ELSE IF From(l.edges, x) = {} THEN Deleted ELSE f[Latest(l.edges, x)]
    BY <1>5, <1>9, <1>11, <2>1, <2>2 DEF WalksFrom
  <2> QED
    BY <1>5, <1>11, <2>3
<1>13. end = [x \in 0 .. n - 1 |->
                 IF x \notin l.mask THEN live(x)
                 ELSE IF From(l.edges, x) = {} THEN Deleted ELSE end[Latest(l.edges, x)]]
  BY <1>12
<1> HIDE DEF end
<1>14. Fates(h, id, end)
  <2>1. l.mask = packs[h].mask /\ l.edges = Supersessions(h)
    BY <1>2
  <2>2. \A x \in Ids(h) : end[x] = IF x \notin packs[h].mask THEN live(x)
                                   ELSE IF From(Supersessions(h), x) = {} THEN Deleted
                                   ELSE end[Latest(Supersessions(h), x)]
    BY <1>5, <1>13, <2>1
  <2> QED
    BY <1>10, <2>2 DEF Fates
<1> QED
  BY <1>7, <1>14

\* The walk through the lineage ends where the walk through the chain did.
LEMMA FateIs ==
    ASSUME ChainInv, TreeInv, NEW h \in Packs, NEW id, NEW fate, Fates(h, id, fate),
           NEW z \in Ids(h)
    PROVE  LET now == Current(h, z)
           IN  /\ now \in Ids(h)
               /\ fate[z] = IF now \in Live(h)
                            THEN <<IF now = id THEN "live" ELSE "superseded",
                                   now - Cardinality(Below(packs[h].mask, now))>>
                            ELSE Deleted
<1> DEFINE S == Supersessions(h)
           n == RowTotal(h)
           Right(x) == LET now == Current(h, x)
                       IN  /\ now \in Ids(h)
                           /\ fate[x] = IF now \in Live(h)
                                        THEN <<IF now = id THEN "live" ELSE "superseded",
                                               now - Cardinality(Below(packs[h].mask, now))>>
                                        ELSE Deleted
           T == {n - x : x \in {y \in Ids(h) : ~Right(y)}}
<1>1. n \in Nat /\ Ids(h) = 0 .. n - 1
  BY SoundFacts DEF Ids
<1>2. ASSUME NEW x \in Ids(h), From(S, x) = {}
      PROVE  Right(x)
  <2>1. Current(h, x) = x
    BY <1>2, CurrentSteps
  <2>2. x \in Live(h) <=> x \notin packs[h].mask
    BY DEF Live
  <2> QED
    BY <1>2, <2>1, <2>2 DEF Fates
<1>3. ASSUME NEW x \in Ids(h), From(S, x) # {}, Right(Latest(S, x))
      PROVE  Right(x)
  <2>1. Current(h, x) = Current(h, Latest(S, x))
    BY <1>3, CurrentSteps
  <2>2. x \in packs[h].mask
    BY <1>3, LatestFacts
  <2>3. fate[x] = fate[Latest(S, x)]
    BY <1>3, <2>2 DEF Fates
  <2> QED
    BY <1>3, <2>1, <2>3
<1> HIDE DEF Right
<1>4. T = {}
  <2> SUFFICES ASSUME T # {} PROVE FALSE
    OBVIOUS
  <2>1. T \in SUBSET Nat
    BY <1>1
  <2>2. PICK t \in T : \A u \in T : t <= u
    <3> HIDE DEF T
    <3> QED
      BY <2>1, LeastNat
  <2>3. PICK x \in Ids(h) : ~Right(x) /\ t = n - x
    BY <2>2
  <2>4. From(S, x) # {}
    BY <1>2, <2>3
  <2>5. PICK y \in Ids(h) : y = Latest(S, x) /\ x < y
    BY <2>4, LatestFacts
  <2>6. ~Right(y)
    BY <1>3, <2>3, <2>4, <2>5
  <2>7. n - y \in T
    BY <2>6
  <2> HIDE DEF T
  <2>8. n - x <= n - y
    BY <2>2, <2>3, <2>7
  <2> QED
    BY <1>1, <2>5, <2>8
<1>5. Right(z)
  BY <1>4
<1> QED
  BY <1>5 DEF Right

\* A live id loses one position per tombstone below it.
LEMMA PlaceOf ==
    ASSUME ChainInv, NEW p \in Packs, NEW x \in Live(p)
    PROVE  x - Cardinality(Below(packs[p].mask, x)) = Cardinality(Below(Live(p), x))
<1> DEFINE A == Below(Live(p), x)
           B == Below(packs[p].mask, x)
<1>1. RowTotal(p) \in Nat /\ Ids(p) = 0 .. RowTotal(p) - 1
  BY SoundFacts DEF Ids
<1>2. packs[p].mask \subseteq Ids(p) /\ Live(p) = Ids(p) \ packs[p].mask
  BY MaskIds DEF Live
<1>3. x \in Nat /\ x < RowTotal(p)
  BY <1>1, <1>2
<1>4. A \cup B = 0 .. x - 1
  <2>1. \A y \in 0 .. x - 1 : y \in Ids(p) /\ y < x
    BY <1>1, <1>3
  <2>2. \A y \in Ids(p) : y < x => y \in 0 .. x - 1
    BY <1>1, <1>3
  <2> QED
    BY <1>2, <2>1, <2>2 DEF Below
<1>5. A \cap B = {}
  BY <1>2 DEF Below
<1>6. IsFiniteSet(0 .. x - 1) /\ Cardinality(0 .. x - 1) = x
  <2>1. 0 \in Int /\ x - 1 \in Int
    BY <1>3
  <2>2. /\ IsFiniteSet(0 .. x - 1)
        /\ Cardinality(0 .. x - 1) = IF 0 > x - 1 THEN 0 ELSE x - 1 - 0 + 1
    BY <2>1, FS_Interval
  <2> QED
    BY <1>3, <2>2
<1> HIDE DEF A, B
<1>7. IsFiniteSet(A) /\ IsFiniteSet(B)
  <2>1. A \in SUBSET (0 .. x - 1) /\ B \in SUBSET (0 .. x - 1)
    BY <1>4
  <2> QED
    BY <1>6, <2>1, FS_Subset
<1>8. Cardinality(A) \in Nat /\ Cardinality(B) \in Nat
  BY <1>7, FS_CardinalityType
<1>9. Cardinality(A \cup B) = Cardinality(A) + Cardinality(B) - Cardinality(A \cap B)
  BY <1>7, FS_Union
<1>10. Cardinality(A \cap B) = 0
  BY <1>5, FS_EmptySet
<1>11. x = Cardinality(A) + Cardinality(B)
  <2>1. Cardinality(A \cup B) = x
    BY <1>4, <1>6
  <2> QED
    BY <1>8, <1>9, <1>10, <2>1
<1> QED
  BY <1>3, <1>8, <1>11 DEF A, B

\* The records of a compacted base are the live ones of its head, in order.
LEMMA CompactedContent ==
    ASSUME ChainInv, TreeInv, ToldInv, NEW base \in Packs, NEW h \in Packs,
           packs[base].members = <<base>>, packs[base].rowBase = 0,
           packs[base].rows = CopiedRows(h, LiveIds(h))
    PROVE  /\ Ids(base) = 0 .. Cardinality(Live(h)) - 1
           /\ Cardinality(Live(h)) \in Nat
           /\ \A x \in Live(h) : /\ Cardinality(Below(Live(h), x)) \in Ids(base)
                                 /\ Content(base, Cardinality(Below(Live(h), x))) = Content(h, x)
<1> DEFINE n == Cardinality(Live(h))
           place(x) == Cardinality(Below(Live(h), x))
<1>1. /\ n \in Nat
      /\ \A x \in Live(h) : place(x) \in 0 .. n - 1 /\ LiveIds(h)[place(x) + 1] = x
  BY LiveAt
<1>2. Records(base) = n /\ RowTotal(base) = n
  BY <1>1, CopiedType DEF Records, RowTotal
<1>3. Ids(base) = 0 .. n - 1
  BY <1>2 DEF Ids
<1>4. Members(base) = {base}
  BY DEF Members
<1>5. ASSUME NEW x \in Live(h), NEW k, k = place(x)
      PROVE  Content(base, k) = Content(h, x)
  <2>1. k \in 0 .. n - 1 /\ k + 1 \in 1 .. n
    BY <1>1, <1>5
  <2>2. k \in Ids(base)
    BY <1>3, <2>1
  <2>3. OwnerOf(base, k) = base
    BY <1>4, <2>2, OwnerFacts
  <2>4. k - 0 + 1 = k + 1
    BY <2>1
  <2>5. Content(base, k) = CopiedRows(h, LiveIds(h))[k + 1]
    BY <2>3, <2>4 DEF Content
  <2>6. k + 1 \in DOMAIN LiveIds(h)
    BY <2>1 DEF LiveIds
  <2>7. CopiedRows(h, LiveIds(h))[k + 1] = Content(h, LiveIds(h)[k + 1])
    BY <2>6 DEF CopiedRows
  <2>8. LiveIds(h)[k + 1] = x
    BY <1>1, <1>5
  <2> QED
    BY <2>5, <2>7, <2>8
<1> QED
  BY <1>1, <1>3, <1>5

\* The head a compacted base was made of.
LEMMA CompactedOf ==
    ASSUME ChainInv, ToldInv, NEW base \in Packs, packs[base].lineage # NoLineage
    PROVE  \E h \in Packs :
               /\ packs[base].members = <<base>> /\ packs[base].rowBase = 0
               /\ packs[base].lineage = LineageOf(h)
               /\ packs[base].rows = CopiedRows(h, LiveIds(h))
               /\ packs[base].lineage.heads[Len(packs[base].lineage.heads)].pack = h
<1>1. PICK h \in Packs :
          /\ packs[base].members = <<base>> /\ packs[base].rowBase = 0
          /\ packs[base].lineage = LineageOf(h)
          /\ packs[base].rows = CopiedRows(h, LiveIds(h))
  BY DEF ToldInv, Compacted
<1> DEFINE m == packs[h].members
<1>2. Len(m) \in Nat \ {0} /\ DOMAIN m = 1 .. Len(m) /\ m[Len(m)] = h
  BY SoundFacts DEF ChainInv, Sound, WellFormed
<1>3. LineageOf(h).heads = [i \in 1 .. Len(m) |-> [pack |-> m[i], rowTotal |-> RowTotal(m[i])]]
  BY <1>2 DEF LineageOf
<1> HIDE DEF m
<1>4. Len(LineageOf(h).heads) = Len(m) /\ LineageOf(h).heads[Len(m)].pack = h
  BY <1>2, <1>3
<1> QED
  BY <1>1, <1>4

\* What a compaction owes to a citation.
Carried(base, head, cited, id) ==
    LET answer == TranslateCitation(base, cited, id)
        now == Current(head, id)
    IN  IF now \in Live(head)
        THEN /\ answer[1] = IF now = id THEN "live" ELSE "superseded"
             /\ answer[2] \in Ids(base)
             /\ Content(base, answer[2]) = Content(head, now)
        ELSE answer = Deleted

LEMMA CitationCarried ==
    ASSUME ChainInv, TreeInv, ToldInv, NEW base \in Packs, NEW head \in Packs,
           packs[base].members = <<base>>, packs[base].rowBase = 0,
           packs[base].lineage = LineageOf(head),
           packs[base].rows = CopiedRows(head, LiveIds(head)),
           NEW cited \in Members(head), NEW id \in Ids(cited)
    PROVE  Carried(base, head, cited, id)
<1>2. id \in Ids(head)
  BY RowUnder
<1>3. PICK fate : Fates(head, id, fate) /\ TranslateCitation(base, cited, id) = fate[id]
  BY TranslateWalks
<1>4. PICK now \in Ids(head) :
          /\ now = Current(head, id)
          /\ fate[id] = IF now \in Live(head)
                        THEN <<IF now = id THEN "live" ELSE "superseded",
                               now - Cardinality(Below(packs[head].mask, now))>>
                        ELSE Deleted
  <2>1. /\ Current(head, id) \in Ids(head)
        /\ fate[id] = IF Current(head, id) \in Live(head)
                      THEN <<IF Current(head, id) = id THEN "live" ELSE "superseded",
                             Current(head, id) - Cardinality(Below(packs[head].mask, Current(head, id)))>>
                      ELSE Deleted
    BY <1>2, <1>3, FateIs
  <2> QED
    BY <2>1
<1>5. CASE now \in Live(head)
  <2>1. PICK k : k = now - Cardinality(Below(packs[head].mask, now))
    OBVIOUS
  <2>2. k = Cardinality(Below(Live(head), now))
    BY <1>5, <2>1, PlaceOf
  <2>3. k \in Ids(base) /\ Content(base, k) = Content(head, now)
    BY <1>5, <2>2, CompactedContent
  <2>4. fate[id] = <<IF now = id THEN "live" ELSE "superseded", k>>
    BY <1>4, <1>5, <2>1
  <2>5. /\ fate[id][1] = IF now = id THEN "live" ELSE "superseded"
        /\ fate[id][2] = k
    BY <2>4
  <2> QED
    BY <1>3, <1>4, <1>5, <2>3, <2>5 DEF Carried
<1>6. CASE now \notin Live(head)
  BY <1>3, <1>4, <1>6 DEF Carried
<1> QED
  BY <1>5, <1>6 DEF Carried

LEMMA CitationsKept ==
    ASSUME ChainInv, TreeInv, ToldInv
    PROVE  CompactionKeepsCitations
<1>1. ASSUME NEW base \in Packs, packs[base].lineage # NoLineage
      PROVE  LET head == packs[base].lineage.heads[Len(packs[base].lineage.heads)].pack
             IN  \A cited \in Members(head) : \A id \in Ids(cited) : Carried(base, head, cited, id)
  <2>1. PICK h \in Packs :
            /\ packs[base].members = <<base>> /\ packs[base].rowBase = 0
            /\ packs[base].lineage = LineageOf(h)
            /\ packs[base].rows = CopiedRows(h, LiveIds(h))
            /\ packs[base].lineage.heads[Len(packs[base].lineage.heads)].pack = h
    BY <1>1, CompactedOf
  <2>2. \A cited \in Members(h) : \A id \in Ids(cited) : Carried(base, h, cited, id)
    BY <2>1, CitationCarried
  <2> QED
    BY <2>1, <2>2
<1> QED
  BY <1>1, Zenon DEF CompactionKeepsCitations, Carried

LEMMA CompactedDense ==
    ASSUME ChainInv, TreeInv, ToldInv
    PROVE  CompactionIsDense
<1>1. ASSUME NEW base \in Packs, packs[base].lineage # NoLineage,
             NEW head,
             head = packs[base].lineage.heads[Len(packs[base].lineage.heads)].pack
      PROVE  /\ \A x, y \in Live(head) : x < y =>
                    TranslateCitation(base, head, x)[2] < TranslateCitation(base, head, y)[2]
             /\ {TranslateCitation(base, head, id)[2] : id \in Live(head)} = Ids(base)
  <2>1. /\ head \in Packs
        /\ packs[base].members = <<base>> /\ packs[base].rowBase = 0
        /\ packs[base].lineage = LineageOf(head)
        /\ packs[base].rows = CopiedRows(head, LiveIds(head))
    BY <1>1, CompactedOf
  <2> DEFINE S == Live(head)
             place(x) == Cardinality(Below(S, x))
  <2>2. head \in Members(head)
    <3>1. packs[head].members[Len(packs[head].members)] = head /\ Len(packs[head].members) \in DOMAIN packs[head].members
      BY <2>1, SoundFacts DEF ChainInv, Sound, WellFormed
    <3> QED
      BY <3>1 DEF Members
  <2>3. ASSUME NEW x \in S
        PROVE  TranslateCitation(base, head, x)[2] = place(x)
    <3>1. x \in Ids(head) /\ x \notin packs[head].mask
      BY DEF Live
    <3>2. PICK fate : Fates(head, x, fate) /\ TranslateCitation(base, head, x) = fate[x]
      BY <2>1, <2>2, <3>1, TranslateWalks
    <3>3. fate[x] = <<"live", x - Cardinality(Below(packs[head].mask, x))>>
      BY <3>1, <3>2 DEF Fates
    <3>4. x - Cardinality(Below(packs[head].mask, x)) = place(x)
      BY <2>1, <2>3, PlaceOf
    <3> QED
      BY <3>2, <3>3, <3>4
  <2>4. /\ \A x, y \in S : x < y => place(x) < place(y)
        /\ \A k \in 0 .. Cardinality(S) - 1 : \E x \in S : place(x) = k
        /\ \A x \in S : place(x) \in 0 .. Cardinality(S) - 1
    <3>1. RowTotal(head) \in Nat /\ S \in SUBSET (0 .. RowTotal(head) - 1)
      BY <2>1, SoundFacts DEF Live, Ids
    <3> HIDE DEF S
    <3> QED
      BY <3>1, Places
  <2>5. Ids(base) = 0 .. Cardinality(S) - 1
    BY <2>1, CompactedContent
  <2> HIDE DEF S, place
  <2>6. {TranslateCitation(base, head, id)[2] : id \in S} = Ids(base)
    BY <2>3, <2>4, <2>5
  <2>7. \A x, y \in S : x < y =>
            TranslateCitation(base, head, x)[2] < TranslateCitation(base, head, y)[2]
    BY <2>3, <2>4
  <2> QED
    BY <2>6, <2>7 DEF S
<1> QED
  BY <1>1, Zenon DEF CompactionIsDense

LEMMA Compactable ==
    ASSUME ChainInv, TreeInv
    PROVE  CompactionPossible
  BY LineagePasses DEF CompactionPossible

-----------------------------------------------------------------------------
Bounded == Len(packs) <= MaxPacks

LEMMA PacksBounded == Spec => []Bounded
<1>1. Init => Bounded
  BY BoundAssumption DEF Init, Bounded
<1>2. ChainInv /\ Bounded /\ [Next]_packs => Bounded'
  <2> SUFFICES ASSUME ChainInv, Bounded, [Next]_packs PROVE Bounded'
    OBVIOUS
  <2>1. CASE UNCHANGED packs
    BY <2>1 DEF Bounded
  <2>2. ASSUME NEW new, packs' = Append(packs, new), Room
        PROVE  Bounded'
    <3>1. IsHistory /\ Len(packs) \in Nat
      BY DEF ChainInv, IsHistory
    <3>2. Packs' = 1 .. (Len(packs) + 1)
      BY <2>2, <3>1, EarlierKept
    <3>3. Len(packs') = Len(packs) + 1
      BY <2>2, <3>1 DEF IsHistory
    <3> QED
      BY <2>2, <3>1, <3>3, BoundAssumption DEF Room, Bounded
  <2> QED
    BY <2>1, <2>2 DEF Next, AppendLayer, Rebase, Compact, Publish
<1> QED
  BY <1>1, <1>2, ChainInvariant, PTL DEF Spec

LEMMA IsSeq ==
    ASSUME NEW S, NEW n \in Nat, NEW f \in [1 .. n -> S]
    PROVE  f \in Seq(S)
  OBVIOUS

LEMMA Types ==
    ASSUME ChainInv, ToldInv, Bounded
    PROVE  TypeOK
<1>1. ASSUME NEW p \in Packs
      PROVE  /\ DOMAIN packs[p] = {"members", "depth", "rowBase", "rows", "mask",
                                   "edges", "lineage", "rebased"}
             /\ packs[p].members \in Seq(Packs)
             /\ packs[p].depth \in Nat /\ packs[p].rowBase \in Nat
             /\ packs[p].rows \in Seq(Packs \X Nat)
             /\ packs[p].mask \subseteq Nat /\ packs[p].edges \subseteq Edge
             /\ packs[p].lineage \in Lineages
             /\ packs[p].rebased \in Seq(Packs)
  <2>1. /\ DOMAIN packs[p] = Fields
        /\ packs[p].rows \in Seq(Packs \X Nat)
        /\ packs[p].lineage \in Lineages
        /\ packs[p].rebased \in Seq(Packs)
    BY DEF ToldInv, Typed
  <2>2. /\ packs[p].members \in Seq(Nat) /\ Len(packs[p].members) \in Nat \ {0}
        /\ packs[p].depth = Len(packs[p].members) - 1
        /\ packs[p].rowBase \in Nat
        /\ packs[p].mask \subseteq 0 .. packs[p].rowBase - 1
        /\ packs[p].edges \subseteq Edge
    BY SoundFacts
  <2>3. packs[p].members \in Seq(Packs)
    <3>1. DOMAIN packs[p].members = 1 .. Len(packs[p].members)
      BY SoundFacts
    <3>2. \A i \in 1 .. Len(packs[p].members) : packs[p].members[i] \in Members(p)
      BY <3>1 DEF Members
    <3>3. \A q \in Members(p) : q \in Packs
      BY DEF ChainInv, Sound, Closed
    <3>4. \A i \in 1 .. Len(packs[p].members) : packs[p].members[i] \in Packs
      BY <3>2, <3>3
    <3>5. packs[p].members \in [1 .. Len(packs[p].members) -> Packs]
      BY <2>2, <3>4
    <3> QED
      BY <2>2, <3>5, IsSeq
  <2>4. packs[p].depth \in Nat /\ packs[p].mask \subseteq Nat
    BY <2>2
  <2> QED
    BY <2>1, <2>2, <2>3, <2>4 DEF Fields
<1> QED
  BY <1>1 DEF TypeOK, Bounded

\* A rebase does on its new head what the layer did on its old one, every chain
\* can be compacted, and a citation, through a compaction, still finds the record
\* or is told that it is gone (planRebase, planCompaction, translateCitation).
THEOREM EditsAreFaithful == Spec => []EditsFaithful
<1>1. ChainInv /\ TreeInv /\ ToldInv /\ Bounded => EditsFaithful
  BY ReplaysOwn, KeepsSuccessors, CitationsKept, CompactedDense, Compactable, Types
     DEF EditsFaithful, RebaseFaithful, CompactionSound
<1> QED
  BY <1>1, FullInvariant, PacksBounded, PTL
=============================================================================
