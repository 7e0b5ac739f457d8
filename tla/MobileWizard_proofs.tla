------------------------ MODULE MobileWizard_proofs ------------------------
(***************************************************************************)
(* Theorems about MobileWizard, for any agreements and bounds: types, and  *)
(* that a row of drafts stays with its agreement unless one layout has     *)
(* persisted the drafts of two.                                            *)
(***************************************************************************)
EXTENDS MobileWizard, SequenceTheorems, WellFoundedInduction, TLAPS

-----------------------------------------------------------------------------
(* The inductive invariant.                                                  *)

\* Alike, given the agreements that were mixed.
Akin(m, a, b) == a = b \/ {a, b} \subseteq m

\* Of the rows r one belongs to the agreement, or to one it may be taken for.
Near(r, m, id, a) == \E i \in DOMAIN r : r[i].id = id /\ Akin(m, r[i].agreement, a)

\* SQLite numbers the rows; an update moves one to the end.
RowsInv ==
    /\ rows \in Seq(DraftRows)
    /\ \A i \in DOMAIN rows : rows[i].id \in 1 .. Len(rows)
    /\ \A i, j \in DOMAIN rows : rows[i].id = rows[j].id => i = j

StoreInv == store \in Stores /\ visits \in Nat /\ mixed \subseteq Agreements

\* The row a layout holds is near the agreement it holds with it.
ViewInv ==
    /\ view \in Seq(Layouts)
    /\ \A j \in DOMAIN view :
        /\ view[j].stack # <<>> /\ view[j].visit <= visits
        /\ view[j].row # 0 => Near(rows, mixed, view[j].row, view[j].ref)

\* So is the row of an update, and what a layout issued is of an agreement it
\* has persisted.
QueueInv ==
    /\ stmts \in Seq(Statements)
    /\ \A i \in DOMAIN stmts :
        /\ stmts[i].visit <= visits
        /\ stmts[i].kind = "update" => Near(rows, mixed, stmts[i].row, stmts[i].agreement)
        /\ \A j \in DOMAIN view :
            view[j].visit = stmts[i].visit => Akin(mixed, stmts[i].agreement, view[j].ref)

RestInv ==
    /\ server \in [Agreements -> Records]
    /\ opening \subseteq Answers
    /\ patches \in Seq(Requests)

DraftsInv == RowsInv /\ StoreInv /\ ViewInv /\ QueueInv
Inv == DraftsInv /\ RestInv

\* What is near stays near.
Keeps == mixed \subseteq mixed' /\ \A id, a : Near(rows, mixed, id, a) => Near(rows', mixed', id, a)

LEMMA Bounds ==
    /\ NoAgreement \notin Agreements
    /\ Steps = 0 .. 4 /\ Details = 1 /\ Evidence = 2 /\ Review = 3
BY MobileWizardAssumption DEF MobileWizardAssumption, Steps, Details, Evidence, Review

LEMMA AkinTrans ==
    ASSUME NEW m, NEW a, NEW b, NEW c, Akin(m, a, b) PROVE Akin(m, b, a) /\ (Akin(m, b, c) => Akin(m, a, c))
BY DEF Akin

LEMMA AkinGrows ==
    ASSUME NEW a, NEW b, mixed \subseteq mixed', Akin(mixed, a, b) PROVE Akin(mixed', a, b)
BY DEF Akin

\* An agreement is not taken for none.
LEMMA AkinIs ==
    ASSUME StoreInv, NEW a \in Agreements, NEW b, Akin(mixed, a, b) PROVE b \in Agreements
BY Bounds DEF StoreInv, Akin

LEMMA NearTrans ==
    ASSUME NEW id, NEW a, NEW b, Near(rows, mixed, id, a), Akin(mixed, a, b) PROVE Near(rows, mixed, id, b)
BY AkinTrans DEF Near

LEMMA SameRows ==
    ASSUME UNCHANGED rows, mixed \subseteq mixed' PROVE Keeps
BY AkinGrows DEF Keeps, Near

-----------------------------------------------------------------------------
(* Sequences.                                                                *)

LEMMA RemoveAtIs ==
    ASSUME NEW S, NEW s \in Seq(S), NEW i \in 1 .. Len(s)
    PROVE  /\ RemoveAt(s, i) \in Seq(S) /\ Len(RemoveAt(s, i)) = Len(s) - 1
           /\ \A k \in 1 .. Len(s) - 1 : RemoveAt(s, i)[k] = IF k < i THEN s[k] ELSE s[k + 1]
<1>1. Len(s) \in Nat /\ i \in Int /\ i - 1 \in Int /\ i + 1 \in Int /\ Len(s) \in Int /\ 1 \in Int
  BY LenProperties
<1>2. \A k \in 1 .. Len(s) : s[k] \in S
  BY ElementOfSeq
<1> DEFINE a == SubSeq(s, 1, i - 1)  b == SubSeq(s, i + 1, Len(s))
<1>3. /\ a \in Seq(S) /\ Len(a) = i - 1 /\ \A k \in 1 .. i - 1 : a[k] = s[k]
  <2>1. \A k \in 1 .. i - 1 : s[k] \in S
    BY <1>1, <1>2
  <2>2. /\ a \in Seq(S) /\ Len(a) = IF 1 <= i - 1 THEN i - 1 - 1 + 1 ELSE 0
        /\ \A k \in 1 .. i - 1 - 1 + 1 : a[k] = s[1 + k - 1]
    BY <1>1, <2>1, SubSeqProperties
  <2>3. QED  BY <1>1, <2>2
<1>4. /\ b \in Seq(S) /\ Len(b) = Len(s) - i /\ \A k \in 1 .. Len(s) - i : b[k] = s[k + i]
  <2>1. \A k \in i + 1 .. Len(s) : s[k] \in S
    BY <1>1, <1>2
  <2>2. /\ b \in Seq(S) /\ Len(b) = IF i + 1 <= Len(s) THEN Len(s) - (i + 1) + 1 ELSE 0
        /\ \A k \in 1 .. Len(s) - (i + 1) + 1 : b[k] = s[(i + 1) + k - 1]
    BY <1>1, <2>1, SubSeqProperties
  <2>3. QED  BY <1>1, <2>2
<1>5. RemoveAt(s, i) = a \o b
  BY DEF RemoveAt
<1> HIDE DEF a, b
<1>6. /\ a \o b \in Seq(S) /\ Len(a \o b) = Len(a) + Len(b)
      /\ \A k \in 1 .. Len(a) + Len(b) : (a \o b)[k] = IF k <= Len(a) THEN a[k] ELSE b[k - Len(a)]
  BY <1>3, <1>4, ConcatProperties
<1>7. ASSUME NEW k \in 1 .. Len(s) - 1
      PROVE  (a \o b)[k] = IF k < i THEN s[k] ELSE s[k + 1]
  BY <1>1, <1>3, <1>4, <1>6
<1>8. QED  BY <1>1, <1>3, <1>4, <1>5, <1>6, <1>7

LEMMA AppendIs ==
    ASSUME NEW S, NEW s \in Seq(S), NEW e \in S
    PROVE  /\ Append(s, e) \in Seq(S) /\ Len(Append(s, e)) = Len(s) + 1
           /\ DOMAIN Append(s, e) = 1 .. Len(s) + 1 /\ DOMAIN s = 1 .. Len(s)
           /\ Len(s) \in Nat /\ Append(s, e)[Len(s) + 1] = e
           /\ \A k \in 1 .. Len(s) : Append(s, e)[k] = s[k]
OBVIOUS

LEMMA FrontIs ==
    ASSUME NEW S, NEW s \in Seq(S), s # <<>>
    PROVE  /\ Front(s) \in Seq(S) /\ Last(s) \in S /\ Len(s) \in Nat \ {0}
           /\ Len(Front(s)) = Len(s) - 1 /\ \A k \in 1 .. Len(s) - 1 : Front(s)[k] = s[k]
           /\ Last(s) = s[Len(s)] /\ Len(s) \in DOMAIN s
<1>1. Len(s) \in Nat \ {0} /\ 1 \in Int /\ Len(s) - 1 \in Int /\ Len(s) \in DOMAIN s
  BY EmptySeq
<1>2. \A k \in 1 .. Len(s) : s[k] \in S
  BY ElementOfSeq
<1>3. \A k \in 1 .. Len(s) - 1 : s[k] \in S
  BY <1>1, <1>2
<1>4. /\ SubSeq(s, 1, Len(s) - 1) \in Seq(S)
      /\ Len(SubSeq(s, 1, Len(s) - 1)) = IF 1 <= Len(s) - 1 THEN Len(s) - 1 - 1 + 1 ELSE 0
      /\ \A k \in 1 .. Len(s) - 1 - 1 + 1 : SubSeq(s, 1, Len(s) - 1)[k] = s[1 + k - 1]
  BY <1>1, <1>3, SubSeqProperties
<1>5. /\ Len(SubSeq(s, 1, Len(s) - 1)) = Len(s) - 1
      /\ \A k \in 1 .. Len(s) - 1 : SubSeq(s, 1, Len(s) - 1)[k] = s[k]
  <2>1. \A n \in Nat \ {0} : (IF 1 <= n - 1 THEN n - 1 - 1 + 1 ELSE 0) = n - 1 /\ n - 1 - 1 + 1 = n - 1
    OBVIOUS
  <2>2. \A k \in 1 .. Len(s) - 1 : 1 + k - 1 = k
    OBVIOUS
  <2>3. QED  BY <1>1, <1>4, <2>1, <2>2
<1>6. s[Len(s)] \in S
  BY <1>1, <1>2
<1>7. QED  BY <1>1, <1>4, <1>5, <1>6 DEF Front, Last

\* What is in a concatenation.
LEMMA ConcatIs ==
    ASSUME NEW S, NEW s \in Seq(S), NEW t \in Seq(S)
    PROVE  /\ s \o t \in Seq(S)
           /\ \A i \in DOMAIN (s \o t) :
                \/ i \in DOMAIN s /\ (s \o t)[i] = s[i]
                \/ \E k \in DOMAIN t : (s \o t)[i] = t[k]
<1>1. /\ s \o t \in Seq(S) /\ Len(s \o t) = Len(s) + Len(t)
      /\ \A i \in 1 .. Len(s) + Len(t) : (s \o t)[i] = IF i <= Len(s) THEN s[i] ELSE t[i - Len(s)]
  BY ConcatProperties
<1>2. /\ Len(s) \in Nat /\ Len(t) \in Nat /\ DOMAIN s = 1 .. Len(s) /\ DOMAIN t = 1 .. Len(t)
      /\ DOMAIN (s \o t) = 1 .. Len(s \o t)
  BY <1>1
<1>3. ASSUME NEW i \in 1 .. Len(s) + Len(t)
      PROVE  \/ i \in DOMAIN s /\ (s \o t)[i] = s[i]
             \/ \E k \in DOMAIN t : (s \o t)[i] = t[k]
  <2>1. CASE i <= Len(s)
    BY <1>1, <1>2, <2>1
  <2>2. CASE i > Len(s)
    <3>1. i - Len(s) \in 1 .. Len(t)
      BY <1>2, <2>2
    <3>2. QED  BY <1>1, <1>2, <2>2, <3>1
  <2>3. QED  BY <1>2, <2>1, <2>2
<1>4. QED  BY <1>1, <1>2, <1>3

\* A non-empty set of positions has a last one.
LEMMA Smallest ==
    ASSUME NEW S, S \subseteq Nat, S # {} PROVE \E m \in S : \A k \in S : m <= k
<1>1. PICK m \in S : \A k \in S : ~(<<k, m>> \in OpToRel(<, Nat))
  BY WFMin, NatLessThanWellFounded, Zenon
<1>2. \A k \in S : ~(k < m)
  BY <1>1 DEF OpToRel
<1>3. \A k \in S : m <= k
  BY <1>2
<1>4. QED  BY <1>3

LEMMA MaxIs ==
    ASSUME NEW n \in Nat, NEW S, S \subseteq 1 .. n, S # {} PROVE Max(S) \in S
<1> DEFINE T == {n - i : i \in S}
<1>1. T \subseteq Nat /\ T # {}
  <2>1. \A i \in S : n - i \in Nat
    OBVIOUS
  <2>2. QED  BY <2>1
<1>2. PICK t \in T : \A k \in T : t <= k
  <2> HIDE DEF T
  <2>1. QED  BY <1>1, Smallest
<1>3. PICK m \in S : t = n - m
  OBVIOUS
<1>4. \A k \in S : m >= k
  <2> TAKE k \in S
  <2>1. n - k \in T
    OBVIOUS
  <2>2. n - m <= n - k
    BY <1>2, <1>3, <2>1
  <2>3. k \in Nat /\ m \in Nat
    OBVIOUS
  <2>4. QED  BY <2>2, <2>3
<1>5. QED  BY <1>4 DEF Max

-----------------------------------------------------------------------------
(* The layouts and the queue.                                                *)

\* Layouts of the screens shown before, on other screens perhaps.
Stays(old) ==
    /\ old \in Seq(Layouts)
    /\ \A i \in DOMAIN old :
        /\ old[i].stack # <<>>
        /\ \E j \in DOMAIN view :
            old[i].visit = view[j].visit /\ old[i].row = view[j].row /\ old[i].ref = view[j].ref

\* At most one layout is new.
Fresh(v) ==
    \/ v = <<>>
    \/ \E l \in Layouts : v = <<l>> /\ l.stack # <<>> /\ l.visit = visits + 1 /\ l.row = 0 /\ l.ref = NoAgreement

LEMMA RefIs ==
    ASSUME NEW l \in Layouts, NEW s \in Stores
    PROVE  /\ RefFor(l, s) \in Layouts /\ RefFor(l, s).visit = l.visit /\ RefFor(l, s).stack = l.stack
           /\ s.id # NoAgreement => RefFor(l, s).ref = s.id
           /\ \/ RefFor(l, s) = l
              \/ s.id # NoAgreement /\ l.ref # s.id /\ RefFor(l, s).row = 0
<1>1. CASE s.id # NoAgreement /\ l.ref # s.id
  <2> DEFINE m == [l EXCEPT !.ref = s.id, !.row = 0]
  <2>1. RefFor(l, s) = m
    BY <1>1 DEF RefFor
  <2>2. m \in Layouts /\ m.visit = l.visit /\ m.stack = l.stack /\ m.ref = s.id /\ m.row = 0
    BY DEF Layouts, Stores
  <2> HIDE DEF m
  <2>3. QED  BY <1>1, <2>1, <2>2
<1>2. CASE ~(s.id # NoAgreement /\ l.ref # s.id)
  BY <1>2 DEF RefFor
<1>3. QED  BY <1>1, <1>2

\* The statement a layout issues.
LEMMA PersistIs ==
    ASSUME NEW l \in Layouts, NEW s \in Stores, s.id # NoAgreement
    PROVE  /\ Persist(l, s) \in Statements /\ Persist(l, s).visit = l.visit
           /\ Persist(l, s).agreement = s.id /\ Persist(l, s).row = l.row
           /\ Persist(l, s).kind = "update" => l.row # 0
<1>1. s.id \in Agreements /\ l.visit \in Nat /\ l.row \in Nat
  BY DEF Stores, Layouts, Ids
<1>2. QED  BY <1>1 DEF Persist, Statements

LEMMA RefsAre ==
    ASSUME NEW v \in Seq(Layouts), NEW s \in Stores
    PROVE  /\ Refs(v, s) \in Seq(Layouts) /\ DOMAIN Refs(v, s) = DOMAIN v
           /\ \A i \in DOMAIN v : Refs(v, s)[i] = RefFor(v[i], s)
<1>1. Len(v) \in Nat /\ DOMAIN v = 1 .. Len(v)
  OBVIOUS
<1>2. \A i \in DOMAIN v : RefFor(v[i], s) \in Layouts
  BY <1>1, ElementOfSeq, RefIs
<1>3. Refs(v, s) = [i \in 1 .. Len(v) |-> RefFor(v[i], s)]
  BY <1>1 DEF Refs
<1>4. Refs(v, s) \in [1 .. Len(v) -> Layouts]
  BY <1>1, <1>2, <1>3
<1>5. Refs(v, s) \in Seq(Layouts)
  BY <1>1, <1>4, SeqDef
<1>6. QED  BY <1>1, <1>3, <1>5

LEMMA PersistsAre ==
    ASSUME NEW v \in Seq(Layouts), NEW s \in Stores, s.id # NoAgreement
    PROVE  /\ Persists(v, s) \in Seq(Statements) /\ DOMAIN Persists(v, s) = DOMAIN v
           /\ \A i \in DOMAIN v : Persists(v, s)[i] = Persist(RefFor(v[i], s), s)
<1>1. Len(v) \in Nat /\ DOMAIN v = 1 .. Len(v)
  OBVIOUS
<1>2. \A i \in DOMAIN v : Persist(RefFor(v[i], s), s) \in Statements
  BY <1>1, ElementOfSeq, RefIs, PersistIs
<1>3. Persists(v, s) = [i \in 1 .. Len(v) |-> Persist(RefFor(v[i], s), s)]
  BY <1>1 DEF Persists
<1>4. Persists(v, s) \in [1 .. Len(v) -> Statements]
  BY <1>1, <1>2, <1>3
<1>5. Persists(v, s) \in Seq(Statements)
  BY <1>1, <1>4, SeqDef
<1>6. QED  BY <1>1, <1>3, <1>5

LEMMA MixesAre ==
    ASSUME NEW v \in Seq(Layouts), NEW s \in Stores
    PROVE  /\ Mixes(v, s) \subseteq Agreements
           /\ s.id # NoAgreement =>
                \A i \in DOMAIN v : v[i].ref \in Agreements /\ v[i].ref # s.id => {v[i].ref, s.id} \subseteq Mixes(v, s)
<1>1. \A i \in DOMAIN v : v[i] \in Layouts /\ v[i] \in Range(v)
  BY ElementOfSeq DEF Range
<1>2. \A l \in Range(v) : l.ref \in Agreements \cup {NoAgreement}
  BY <1>1 DEF Range, Layouts, Ids
<1>3. s.id \in Agreements \cup {NoAgreement}
  BY DEF Stores, Ids
<1>4. Mixes(v, s) \subseteq Agreements
  BY <1>2, <1>3 DEF Mixes
<1>5. ASSUME s.id # NoAgreement, NEW i \in DOMAIN v, v[i].ref \in Agreements, v[i].ref # s.id
      PROVE  {v[i].ref, s.id} \subseteq Mixes(v, s)
  <2>1. v[i] \in {m \in Range(v) : m.ref \notin {s.id, NoAgreement}}
    BY <1>1, <1>5, Bounds
  <2>2. QED  BY <1>5, <2>1 DEF Mixes
<1>6. QED  BY <1>4, <1>5

\* What stays and what is new, together.
Known(l, n) ==
    /\ l \in Layouts /\ l.stack # <<>> /\ l.visit <= visits + n
    /\ l.row # 0 => Near(rows, mixed, l.row, l.ref)
    /\ l.visit <= visits => \E j \in DOMAIN view : l.visit = view[j].visit /\ l.ref = view[j].ref

LEMMA KnownAre ==
    ASSUME DraftsInv, NEW old, NEW fresh, Stays(old), Fresh(fresh)
    PROVE  /\ old \in Seq(Layouts) /\ fresh \in Seq(Layouts) /\ old \o fresh \in Seq(Layouts)
           /\ Len(fresh) \in Nat /\ visits + Len(fresh) \in Nat /\ visits <= visits + Len(fresh)
           /\ \A i \in DOMAIN old : Known(old[i], Len(fresh)) /\ old[i].visit <= visits
           /\ \A i \in DOMAIN fresh : Known(fresh[i], Len(fresh)) /\ fresh[i].visit > visits
<1>1. visits \in Nat /\ view \in Seq(Layouts)
  BY DEF DraftsInv, StoreInv, ViewInv
<1>2. old \in Seq(Layouts) /\ fresh \in Seq(Layouts) /\ Len(fresh) \in Nat
  <2>1. <<>> \in Seq(Layouts) /\ \A l \in Layouts : <<l>> \in Seq(Layouts)
    OBVIOUS
  <2>2. fresh \in Seq(Layouts)
    BY <2>1 DEF Fresh
  <2>3. QED  BY <2>2, LenProperties DEF Stays
<1>3. visits + Len(fresh) \in Nat /\ visits <= visits + Len(fresh)
  BY <1>1, <1>2
<1>4. ASSUME NEW i \in DOMAIN old PROVE Known(old[i], Len(fresh)) /\ old[i].visit <= visits
  <2>1. old[i] \in Layouts /\ old[i].stack # <<>> /\ old[i].visit \in Nat
    <3>1. old[i] \in Layouts
      BY <1>2
    <3>2. QED  BY <3>1 DEF Stays, Layouts
  <2>2. PICK j \in DOMAIN view :
          old[i].visit = view[j].visit /\ old[i].row = view[j].row /\ old[i].ref = view[j].ref
    BY DEF Stays
  <2>3. old[i].visit <= visits /\ (old[i].row # 0 => Near(rows, mixed, old[i].row, old[i].ref))
    BY <2>2 DEF DraftsInv, ViewInv
  <2>4. old[i].visit <= visits + Len(fresh)
    BY <1>1, <1>2, <2>1, <2>3
  <2>5. QED  BY <2>1, <2>2, <2>3, <2>4 DEF Known
<1>5. ASSUME NEW i \in DOMAIN fresh PROVE Known(fresh[i], Len(fresh)) /\ fresh[i].visit > visits
  <2>1. PICK l \in Layouts : /\ fresh = <<l>> /\ l.stack # <<>> /\ l.visit = visits + 1
                             /\ l.row = 0 /\ l.ref = NoAgreement
    BY DEF Fresh
  <2>2. Len(fresh) = 1 /\ fresh[i] = l /\ l.visit > visits /\ ~(l.visit <= visits) /\ l.visit <= visits + 1
    BY <1>1, <2>1
  <2>3. QED  BY <2>1, <2>2 DEF Known
<1>6. old \o fresh \in Seq(Layouts)
  BY <1>2, ConcatProperties
<1>7. QED  BY <1>2, <1>3, <1>4, <1>5, <1>6

LEMMA Rendered ==
    ASSUME DraftsInv, UNCHANGED rows, NEW old, NEW fresh, NEW s \in Stores, NEW changed \in BOOLEAN,
           Stays(old), Fresh(fresh), Render(old, fresh, s, changed)
    PROVE  DraftsInv' /\ Keeps
<1> DEFINE n == Len(fresh)  all == old \o fresh
<1>1. /\ RowsInv /\ StoreInv /\ ViewInv /\ QueueInv /\ visits \in Nat
      /\ stmts \in Seq(Statements) /\ mixed \subseteq Agreements
  BY DEF DraftsInv, StoreInv, QueueInv
<1>2. /\ old \in Seq(Layouts) /\ fresh \in Seq(Layouts) /\ all \in Seq(Layouts)
      /\ n \in Nat /\ visits + n \in Nat /\ visits <= visits + n
      /\ \A i \in DOMAIN old : Known(old[i], n) /\ old[i].visit <= visits
      /\ \A i \in DOMAIN fresh : Known(fresh[i], n) /\ fresh[i].visit > visits
  BY KnownAre
<1>3. /\ store' = s /\ view' = Refs(all, s) /\ visits' = visits + n
      /\ mixed' = mixed \cup Mixes(old, s)
      /\ \/ stmts' = stmts
         \/ /\ s.id # NoAgreement
            /\ \/ stmts' = stmts \o Persists(all, s)
               \/ stmts' = stmts \o Persists(fresh, s)
  BY DEF Render
<1>4. ASSUME NEW i \in DOMAIN all
      PROVE  /\ Known(all[i], n)
             /\ \/ \E k \in DOMAIN old : all[i] = old[k]
                \/ all[i].visit > visits
  <2>1. \/ i \in DOMAIN old /\ all[i] = old[i]
        \/ \E k \in DOMAIN fresh : all[i] = fresh[k]
    BY <1>2, ConcatIs
  <2> HIDE DEF all
  <2>2. QED  BY <1>2, <2>1
<1> HIDE DEF all, n
<1>5. mixed \subseteq mixed' /\ mixed' \subseteq Agreements
  BY <1>1, <1>2, <1>3, MixesAre
<1>6. Keeps
  BY <1>5, SameRows
<1>7. RowsInv' /\ StoreInv'
  BY <1>1, <1>2, <1>3, <1>5 DEF RowsInv, StoreInv
<1>8. /\ view' \in Seq(Layouts) /\ DOMAIN view' = DOMAIN all
      /\ \A i \in DOMAIN all : view'[i] = RefFor(all[i], s)
  BY <1>2, <1>3, RefsAre
\* The row a layout keeps was near its agreement.
<1>9. ASSUME NEW l, Known(l, n)
      PROVE  RefFor(l, s).row # 0 => Near(rows', mixed', RefFor(l, s).row, RefFor(l, s).ref)
  <2>1. l \in Layouts /\ (l.row # 0 => Near(rows, mixed, l.row, l.ref))
    BY <1>9 DEF Known
  <2>2. RefFor(l, s) = l \/ RefFor(l, s).row = 0
    BY <2>1, RefIs
  <2>3. l.row # 0 => Near(rows', mixed', l.row, l.ref)
    BY <1>6, <2>1 DEF Keeps
  <2>4. QED  BY <2>2, <2>3
<1>10. ViewInv'
  <2>1. ASSUME NEW i \in DOMAIN view'
        PROVE  /\ view'[i].stack # <<>> /\ view'[i].visit <= visits'
               /\ view'[i].row # 0 => Near(rows', mixed', view'[i].row, view'[i].ref)
    <3>1. view'[i] = RefFor(all[i], s) /\ Known(all[i], n)
      BY <1>4, <1>8
    <3>2. /\ RefFor(all[i], s).visit = all[i].visit /\ RefFor(all[i], s).stack = all[i].stack
          /\ all[i].visit <= visits + n /\ all[i].stack # <<>>
      BY <3>1, RefIs DEF Known
    <3>3. QED  BY <1>3, <1>9, <3>1, <3>2
  <2>2. QED  BY <1>8, <2>1 DEF ViewInv
\* Statements of before.
<1>11. ASSUME NEW k \in DOMAIN stmts
       PROVE  /\ stmts[k].visit <= visits'
              /\ stmts[k].kind = "update" => Near(rows', mixed', stmts[k].row, stmts[k].agreement)
              /\ \A i \in DOMAIN view' :
                   view'[i].visit = stmts[k].visit => Akin(mixed', stmts[k].agreement, view'[i].ref)
  <2>1. /\ stmts[k] \in Statements /\ stmts[k].visit \in Nat /\ stmts[k].agreement \in Agreements
        /\ stmts[k].visit <= visits
    <3>1. stmts[k] \in Statements
      BY <1>1
    <3>2. QED  BY <1>1, <3>1 DEF QueueInv, Statements
  <2>2. stmts[k].visit <= visits'
    BY <1>1, <1>2, <1>3, <2>1
  <2>3. stmts[k].kind = "update" => Near(rows', mixed', stmts[k].row, stmts[k].agreement)
    BY <1>1, <1>6 DEF QueueInv, Keeps
  <2>4. ASSUME NEW i \in DOMAIN view', view'[i].visit = stmts[k].visit
        PROVE  Akin(mixed', stmts[k].agreement, view'[i].ref)
    <3>1. i \in DOMAIN all /\ view'[i] = RefFor(all[i], s) /\ Known(all[i], n)
      BY <1>4, <1>8
    <3>2. all[i] \in Layouts /\ all[i].visit = stmts[k].visit /\ all[i].visit \in Nat
      BY <2>4, <3>1, RefIs DEF Known, Layouts
    <3>3. PICK j \in DOMAIN view : all[i].visit = view[j].visit /\ all[i].ref = view[j].ref
      BY <2>1, <3>1, <3>2 DEF Known
    <3>4. Akin(mixed, stmts[k].agreement, all[i].ref)
      BY <1>1, <3>2, <3>3 DEF QueueInv
    <3>5. Akin(mixed', stmts[k].agreement, all[i].ref) /\ all[i].ref \in Agreements
      BY <1>1, <1>5, <2>1, <3>4, AkinGrows, AkinIs
    <3>6. CASE RefFor(all[i], s) = all[i]
      BY <3>1, <3>5, <3>6
    <3>7. CASE RefFor(all[i], s) # all[i]
      <4>1. s.id # NoAgreement /\ all[i].ref # s.id /\ RefFor(all[i], s).ref = s.id
        BY <3>2, <3>7, RefIs
      <4>2. ~(all[i].visit > visits)
        BY <1>1, <2>1, <3>2
      <4>3. PICK m \in DOMAIN old : all[i] = old[m]
        BY <1>4, <3>1, <4>2
      <4>4. {all[i].ref, s.id} \subseteq mixed'
        BY <1>2, <1>3, <3>5, <4>1, <4>3, MixesAre
      <4>5. Akin(mixed', all[i].ref, s.id)
        BY <4>4 DEF Akin
      <4>6. Akin(mixed', stmts[k].agreement, s.id)
        BY <3>5, <4>5 DEF Akin
      <4>7. QED  BY <3>1, <4>1, <4>6
    <3>8. QED  BY <3>6, <3>7
  <2>5. QED  BY <2>2, <2>3, <2>4
\* Statements issued now.
<1>12. ASSUME s.id # NoAgreement, NEW l, Known(l, n)
       PROVE  LET x == Persist(RefFor(l, s), s) IN
              /\ x.visit <= visits'
              /\ x.kind = "update" => Near(rows', mixed', x.row, x.agreement)
              /\ \A i \in DOMAIN view' : view'[i].visit = x.visit => Akin(mixed', x.agreement, view'[i].ref)
  <2> DEFINE m == RefFor(l, s)  x == Persist(m, s)
  <2>1. l \in Layouts /\ l.visit <= visits + n
    BY <1>12 DEF Known
  <2>2. m \in Layouts /\ m.visit = l.visit /\ m.ref = s.id
    BY <1>12, <2>1, RefIs
  <2>3. m.row # 0 => Near(rows', mixed', m.row, m.ref)
    BY <1>9, <1>12
  <2> HIDE DEF m
  <2>4. x.visit = m.visit /\ x.agreement = s.id /\ x.row = m.row /\ (x.kind = "update" => m.row # 0)
    BY <1>12, <2>2, PersistIs
  <2> HIDE DEF x
  <2>5. \A i \in DOMAIN view' : view'[i].ref = s.id
    <3> TAKE i \in DOMAIN view'
    <3>1. view'[i] = RefFor(all[i], s) /\ all[i] \in Layouts
      BY <1>4, <1>8 DEF Known
    <3>2. QED  BY <1>12, <3>1, RefIs
  <2>6. \A i \in DOMAIN view' : Akin(mixed', x.agreement, view'[i].ref)
    BY <2>4, <2>5 DEF Akin
  <2>7. x.visit <= visits' /\ (x.kind = "update" => Near(rows', mixed', x.row, x.agreement))
    BY <1>3, <2>1, <2>2, <2>3, <2>4
  <2>8. QED  BY <2>6, <2>7 DEF x, m
<1>13. ASSUME s.id # NoAgreement, NEW v \in Seq(Layouts), \A i \in DOMAIN v : Known(v[i], n),
              stmts' = stmts \o Persists(v, s)
       PROVE  QueueInv'
  <2>1. /\ Persists(v, s) \in Seq(Statements) /\ DOMAIN Persists(v, s) = DOMAIN v
        /\ \A i \in DOMAIN v : Persists(v, s)[i] = Persist(RefFor(v[i], s), s)
    BY <1>13, PersistsAre
  <2>2. stmts' \in Seq(Statements)
    BY <1>1, <1>13, <2>1, ConcatIs
  <2>3. ASSUME NEW k \in DOMAIN stmts'
        PROVE  \/ k \in DOMAIN stmts /\ stmts'[k] = stmts[k]
               \/ \E i \in DOMAIN v : stmts'[k] = Persist(RefFor(v[i], s), s)
    BY <1>1, <1>13, <2>1, ConcatIs
  <2>4. ASSUME NEW k \in DOMAIN stmts'
        PROVE  /\ stmts'[k].visit <= visits'
               /\ stmts'[k].kind = "update" => Near(rows', mixed', stmts'[k].row, stmts'[k].agreement)
               /\ \A i \in DOMAIN view' :
                    view'[i].visit = stmts'[k].visit => Akin(mixed', stmts'[k].agreement, view'[i].ref)
    <3>1. CASE k \in DOMAIN stmts /\ stmts'[k] = stmts[k]
      BY <1>11, <3>1
    <3>2. CASE \E i \in DOMAIN v : stmts'[k] = Persist(RefFor(v[i], s), s)
      <4>1. PICK i \in DOMAIN v : stmts'[k] = Persist(RefFor(v[i], s), s)
        BY <3>2
      <4>2. Known(v[i], n)
        BY <1>13
      <4>3. QED  BY <1>12, <1>13, <4>1, <4>2
    <3>3. QED  BY <2>3, <3>1, <3>2
  <2>5. QED  BY <2>2, <2>4 DEF QueueInv
<1>14. QueueInv'
  <2>1. CASE stmts' = stmts
    BY <1>1, <1>11, <2>1 DEF QueueInv
  <2>2. CASE s.id # NoAgreement /\ stmts' = stmts \o Persists(all, s)
    BY <1>2, <1>4, <1>13, <2>2
  <2>3. CASE s.id # NoAgreement /\ stmts' = stmts \o Persists(fresh, s)
    BY <1>2, <1>13, <2>3
  <2>4. QED  BY <1>3, <2>1, <2>2, <2>3
<1>15. QED  BY <1>6, <1>7, <1>10, <1>14 DEF DraftsInv

\* The wizard is left: no statement is issued, or all are dropped.
LEMMA Leaves ==
    ASSUME DraftsInv, UNCHANGED <<rows, visits, mixed>>, store' \in Stores, view' = <<>>,
           stmts' = stmts \/ stmts' = <<>>
    PROVE  DraftsInv' /\ Keeps
<1>1. Keeps
  BY SameRows
<1>2. RowsInv' /\ StoreInv' /\ ViewInv'
  BY DEF DraftsInv, RowsInv, StoreInv, ViewInv
<1>3. CASE stmts' = stmts
  BY <1>1, <1>2, <1>3 DEF DraftsInv, QueueInv, Keeps
<1>4. CASE stmts' = <<>>
  <2>1. stmts' \in Seq(Statements) /\ DOMAIN stmts' = {}
    BY <1>4
  <2>2. QED  BY <1>1, <1>2, <2>1 DEF DraftsInv, QueueInv
<1>5. QED  BY <1>1, <1>3, <1>4

\* Nothing of the drafts is touched.
LEMMA SameDrafts ==
    ASSUME DraftsInv, UNCHANGED <<rows, drafts>> PROVE DraftsInv' /\ Keeps
<1>1. UNCHANGED <<store, view, visits, stmts, mixed, rows>>
  BY DEF drafts
<1>2. Keeps
  BY <1>1, SameRows
<1>3. QED  BY <1>1, <1>2 DEF DraftsInv, RowsInv, StoreInv, ViewInv, QueueInv, Keeps

-----------------------------------------------------------------------------
(* Statements.                                                               *)

\* The first statement of the queue is run, and leads to another of its own or
\* to none.
LEMMA Served ==
    ASSUME QueueInv, Keeps, visits' = visits, mixed' = mixed, stmts # <<>>, DOMAIN view' = DOMAIN view,
           \A j \in DOMAIN view : view'[j].visit = view[j].visit /\ view'[j].ref = view[j].ref,
           NEW e,
           \/ stmts' = Tail(stmts)
           \/ /\ stmts' = Append(Tail(stmts), e) /\ e \in Statements
              /\ e.visit = Head(stmts).visit /\ e.agreement = Head(stmts).agreement
              /\ e.kind = "update" => Near(rows', mixed', e.row, e.agreement)
    PROVE  QueueInv'
<1>1. /\ stmts \in Seq(Statements) /\ Len(stmts) \in Nat \ {0} /\ DOMAIN stmts = 1 .. Len(stmts)
      /\ Head(stmts) = stmts[1] /\ 1 \in DOMAIN stmts
  BY EmptySeq DEF QueueInv
<1> DEFINE t == Tail(stmts)
<1>2. t \in Seq(Statements) /\ Len(t) = Len(stmts) - 1 /\ \A k \in 1 .. Len(t) : t[k] = stmts[k + 1]
  BY <1>1, HeadTailProperties
<1>3. Len(t) \in Nat /\ DOMAIN t = 1 .. Len(t) /\ \A k \in 1 .. Len(t) : k + 1 \in DOMAIN stmts
  BY <1>1, <1>2
<1>4. stmts' = t \/ (stmts' = Append(t, e) /\ e \in Statements)
  OBVIOUS
<1> HIDE DEF t
<1> DEFINE Fine(x) == /\ x.visit <= visits'
                      /\ x.kind = "update" => Near(rows', mixed', x.row, x.agreement)
                      /\ \A j \in DOMAIN view' :
                          view'[j].visit = x.visit => Akin(mixed', x.agreement, view'[j].ref)
<1>5. ASSUME NEW i \in DOMAIN stmts PROVE Fine(stmts[i])
  BY DEF QueueInv, Keeps
<1>6. ASSUME NEW k \in DOMAIN t PROVE Fine(t[k])
  <2>1. t[k] = stmts[k + 1] /\ k + 1 \in DOMAIN stmts
    BY <1>2, <1>3
  <2>2. Fine(stmts[k + 1])
    BY <1>5, <2>1
  <2> HIDE DEF Fine
  <2>3. QED  BY <2>1, <2>2
<1>7. CASE stmts' = t
  <2>1. \A i \in DOMAIN stmts' : Fine(stmts'[i])
    <3> HIDE DEF Fine
    <3>1. QED  BY <1>6, <1>7
  <2>2. QED  BY <1>2, <1>7, <2>1 DEF QueueInv
<1>8. CASE stmts' # t
  <2>1. stmts' = Append(t, e) /\ e \in Statements
    BY <1>4, <1>8
  <2>2. /\ stmts' \in Seq(Statements) /\ DOMAIN stmts' = 1 .. Len(t) + 1
        /\ stmts'[Len(t) + 1] = e /\ \A k \in 1 .. Len(t) : stmts'[k] = t[k]
    BY <1>2, <2>1, AppendIs
  <2>3. Fine(e)
    <3>1. e.visit = stmts[1].visit /\ e.agreement = stmts[1].agreement
          /\ (e.kind = "update" => Near(rows', mixed', e.row, e.agreement))
      BY <1>1, <1>8 DEF t
    <3>2. Fine(stmts[1])
      BY <1>1, <1>5
    <3>3. QED  BY <3>1, <3>2
  <2>4. \A i \in DOMAIN stmts' : Fine(stmts'[i])
    <3> HIDE DEF Fine
    <3> TAKE i \in DOMAIN stmts'
    <3>1. CASE i = Len(t) + 1
      BY <2>2, <2>3, <3>1
    <3>2. CASE i # Len(t) + 1
      <4>1. i \in DOMAIN t /\ stmts'[i] = t[i]
        BY <1>3, <2>2, <3>2
      <4>2. QED  BY <1>6, <4>1
    <3>3. QED  BY <3>1, <3>2
  <2>5. QED  BY <2>2, <2>4 DEF QueueInv
<1>9. QED  BY <1>7, <1>8

\* The layouts of the statement's instance take a row of the statement's agreement.
LEMMA Locates ==
    ASSUME StoreInv, ViewInv, QueueInv, Keeps, visits' = visits, mixed' = mixed,
           NEW i \in DOMAIN stmts, NEW row \in Nat,
           Near(rows', mixed', row, stmts[i].agreement), Located(stmts[i], row)
    PROVE  /\ ViewInv' /\ DOMAIN view' = DOMAIN view
           /\ \A j \in DOMAIN view : view'[j].visit = view[j].visit /\ view'[j].ref = view[j].ref
<1>1. /\ view \in Seq(Layouts) /\ Len(view) \in Nat /\ DOMAIN view = 1 .. Len(view)
      /\ \A j \in DOMAIN view : view[j] \in Layouts
  BY DEF ViewInv
<1>2. DOMAIN view' = DOMAIN view
  BY DEF Located
<1>3. ASSUME NEW j \in DOMAIN view
      PROVE  /\ view'[j] \in Layouts /\ view'[j].visit = view[j].visit /\ view'[j].ref = view[j].ref
             /\ view'[j].stack = view[j].stack
             /\ view'[j].row # 0 => Near(rows', mixed', view'[j].row, view'[j].ref)
  <2>1. view[j].row # 0 => Near(rows', mixed', view[j].row, view[j].ref)
    BY DEF ViewInv, Keeps
  <2>2. CASE view[j].visit = stmts[i].visit
    <3>1. Akin(mixed', stmts[i].agreement, view[j].ref)
      BY <2>2 DEF QueueInv
    <3>2. Near(rows', mixed', row, view[j].ref)
      BY <3>1, AkinTrans DEF Near
    <3> DEFINE l == [view[j] EXCEPT !.row = row]
    <3>3. view'[j] = l
      BY <2>2 DEF Located
    <3>4. l \in Layouts /\ l.visit = view[j].visit /\ l.ref = view[j].ref /\ l.stack = view[j].stack /\ l.row = row
      BY <1>1 DEF Layouts
    <3> HIDE DEF l
    <3>5. QED  BY <3>2, <3>3, <3>4
  <2>3. CASE view[j].visit # stmts[i].visit
    BY <1>1, <2>1, <2>3 DEF Located
  <2>4. QED  BY <2>2, <2>3
<1>4. view' \in Seq(Layouts)
  <2>1. view' \in [1 .. Len(view) -> Layouts]
    BY <1>1, <1>3 DEF Located
  <2>2. QED  BY <1>1, <2>1, SeqDef
<1>5. ViewInv'
  BY <1>2, <1>3, <1>4 DEF ViewInv
<1>6. QED  BY <1>2, <1>3, <1>5

\* What the first statement of the queue is.
LEMMA First ==
    ASSUME QueueInv, stmts # <<>>
    PROVE  /\ stmts \in Seq(Statements) /\ 1 \in DOMAIN stmts /\ Head(stmts) = stmts[1]
           /\ stmts[1] \in Statements
           /\ stmts[1].kind = "update" => Near(rows, mixed, stmts[1].row, stmts[1].agreement)
<1>1. stmts \in Seq(Statements) /\ 1 \in DOMAIN stmts /\ Head(stmts) = stmts[1]
  BY EmptySeq DEF QueueInv
<1>2. QED  BY <1>1 DEF QueueInv

\* A statement of the same persist.
LEMMA Nexts ==
    ASSUME NEW s \in Statements, NEW row \in Nat
    PROVE  /\ [s EXCEPT !.kind = "update", !.row = row] \in Statements
           /\ [s EXCEPT !.kind = "update", !.row = row].row = row
           /\ [s EXCEPT !.kind = "update", !.row = row].visit = s.visit
           /\ [s EXCEPT !.kind = "update", !.row = row].agreement = s.agreement
           /\ [s EXCEPT !.kind = "insert"] \in Statements
           /\ [s EXCEPT !.kind = "insert"].kind = "insert"
           /\ [s EXCEPT !.kind = "insert"].visit = s.visit
           /\ [s EXCEPT !.kind = "insert"].agreement = s.agreement
BY DEF Statements

\* What a statement does to the rows of before.
RowsStay == \A i \in DOMAIN rows, j \in DOMAIN rows' :
              rows[i].id = rows'[j].id => Akin(mixed, rows[i].agreement, rows'[j].agreement)

LEMMA StayTheSame ==
    ASSUME RowsInv, UNCHANGED rows PROVE RowsStay
BY DEF RowsInv, RowsStay, Akin

LEMMA FindFoundKeeps ==
    ASSUME DraftsInv, FindFound PROVE DraftsInv' /\ RowsStay
<1>1. /\ RowsInv /\ StoreInv /\ ViewInv /\ QueueInv /\ stmts # <<>>
      /\ UNCHANGED <<rows, store, visits, mixed>>
  BY DEF DraftsInv, FindFound
<1>2. /\ stmts \in Seq(Statements) /\ 1 \in DOMAIN stmts /\ Head(stmts) = stmts[1]
      /\ stmts[1] \in Statements
  BY <1>1, First
<1>3. Keeps
  BY <1>1, SameRows
<1> DEFINE S == RowsOf(stmts[1].agreement)
           row == rows[Max(S)].id
           e == [stmts[1] EXCEPT !.kind = "update", !.row = row]
<1>4. S # {} /\ Located(stmts[1], row) /\ stmts' = Append(Tail(stmts), e)
  BY <1>2 DEF FindFound
<1>5. Max(S) \in S
  <2>1. S \subseteq 1 .. Len(rows) /\ Len(rows) \in Nat
    BY <1>1 DEF RowsOf, RowsInv
  <2> HIDE DEF S
  <2>2. QED  BY <1>4, <2>1, MaxIs
<1>6. row \in Nat /\ Near(rows', mixed', row, stmts[1].agreement)
  <2>1. PICK m : m = Max(S)
    OBVIOUS
  <2>2. m \in DOMAIN rows /\ rows[m].agreement = stmts[1].agreement
    BY <1>5, <2>1 DEF RowsOf
  <2>3. rows[m].id \in Nat
    BY <1>1, <2>2 DEF RowsInv
  <2>4. row = rows[m].id
    BY <2>1
  <2>5. QED  BY <1>1, <2>2, <2>3, <2>4 DEF Near, Akin
<1> HIDE DEF row
<1>7. /\ e \in Statements /\ e.row = row /\ e.visit = stmts[1].visit
      /\ e.agreement = stmts[1].agreement
  BY <1>2, <1>6, Nexts
<1> HIDE DEF e, S
<1>8. /\ ViewInv' /\ DOMAIN view' = DOMAIN view
      /\ \A j \in DOMAIN view : view'[j].visit = view[j].visit /\ view'[j].ref = view[j].ref
  BY <1>1, <1>2, <1>3, <1>4, <1>6, Locates
<1>9. e.visit = Head(stmts).visit /\ e.agreement = Head(stmts).agreement
      /\ Near(rows', mixed', e.row, e.agreement)
  BY <1>2, <1>6, <1>7
<1>10. QueueInv'
  BY <1>1, <1>3, <1>4, <1>7, <1>8, <1>9, Served
<1>11. RowsInv' /\ StoreInv' /\ RowsStay
  BY <1>1, StayTheSame DEF RowsInv, StoreInv
<1>12. QED  BY <1>8, <1>10, <1>11 DEF DraftsInv

LEMMA FindNothingKeeps ==
    ASSUME DraftsInv, FindNothing PROVE DraftsInv' /\ RowsStay
<1>1. /\ RowsInv /\ StoreInv /\ ViewInv /\ QueueInv /\ stmts # <<>>
      /\ UNCHANGED <<rows, store, view, visits, mixed>>
  BY DEF DraftsInv, FindNothing
<1>2. Head(stmts) = stmts[1] /\ stmts[1] \in Statements
  BY <1>1, First
<1>3. Keeps
  BY <1>1, SameRows
<1> DEFINE e == [stmts[1] EXCEPT !.kind = "insert"]
<1>4. /\ e \in Statements /\ e.kind = "insert" /\ e.visit = stmts[1].visit
      /\ e.agreement = stmts[1].agreement
  <2>1. 0 \in Nat
    OBVIOUS
  <2>2. QED  BY <1>2, <2>1, Nexts
<1>5. stmts' = Append(Tail(stmts), e)
  BY <1>2 DEF FindNothing
<1> HIDE DEF e
<1>6. /\ e.visit = Head(stmts).visit /\ e.agreement = Head(stmts).agreement
      /\ e.kind = "update" => Near(rows', mixed', e.row, e.agreement)
  BY <1>2, <1>4
<1>7. QueueInv'
  BY <1>1, <1>3, <1>4, <1>5, <1>6, Served
<1>8. RowsInv' /\ StoreInv' /\ ViewInv' /\ RowsStay
  BY <1>1, StayTheSame DEF RowsInv, StoreInv, ViewInv
<1>9. QED  BY <1>7, <1>8 DEF DraftsInv

LEMMA SaveDraftKeeps ==
    ASSUME DraftsInv, SaveDraft PROVE DraftsInv' /\ RowsStay
<1>1. /\ RowsInv /\ StoreInv /\ ViewInv /\ QueueInv /\ stmts # <<>> /\ stmts' = Tail(stmts)
      /\ UNCHANGED <<store, visits, mixed>>
  BY DEF DraftsInv, SaveDraft
<1>2. /\ stmts \in Seq(Statements) /\ 1 \in DOMAIN stmts /\ Head(stmts) = stmts[1]
      /\ stmts[1] \in Statements
  BY <1>1, First
<1> DEFINE n == Len(rows)
           r == [id |-> n + 1, agreement |-> stmts[1].agreement]
<1>3. rows' = Append(rows, r) /\ Located(stmts[1], n + 1)
  BY <1>2 DEF SaveDraft
<1>4. rows \in Seq(DraftRows) /\ n \in Nat /\ n + 1 \in Nat /\ n + 1 \in 1 .. n + 1 /\ n + 1 \notin 1 .. n
  BY <1>1 DEF RowsInv
<1>5. r \in DraftRows /\ r.id = n + 1 /\ r.agreement = stmts[1].agreement
  BY <1>2, <1>4 DEF DraftRows, Statements
<1> HIDE DEF r
<1>6. /\ rows' \in Seq(DraftRows) /\ Len(rows') = n + 1
      /\ DOMAIN rows' = 1 .. n + 1 /\ DOMAIN rows = 1 .. n
      /\ rows'[n + 1] = r /\ \A k \in 1 .. n : rows'[k] = rows[k]
  BY <1>3, <1>4, <1>5, AppendIs
<1>7. \A k \in 1 .. n : rows[k].id \in 1 .. n /\ rows[k].id \in 1 .. n + 1
  <2>1. \A k \in 1 .. n : rows[k].id \in 1 .. n
    BY <1>1, <1>6 DEF RowsInv
  <2>2. 1 .. n \subseteq 1 .. n + 1
    BY <1>4
  <2>3. QED  BY <2>1, <2>2
<1>8. \A j, k \in 1 .. n : rows[j].id = rows[k].id => j = k
  BY <1>1, <1>6 DEF RowsInv
<1> HIDE DEF n
<1>9. \A k \in 1 .. n + 1 : k \in 1 .. n \/ k = n + 1
  BY <1>4
<1>10. RowsInv'
  BY <1>4, <1>5, <1>6, <1>7, <1>8, <1>9 DEF RowsInv
<1>11. Keeps
  <2>1. 1 .. n \subseteq 1 .. n + 1
    BY <1>4
  <2>2. QED  BY <1>1, <1>6, <2>1 DEF Keeps, Near
<1>12. RowsStay
  <2>1. ASSUME NEW i \in 1 .. n, NEW j \in 1 .. n + 1, rows[i].id = rows'[j].id
        PROVE  rows[i].agreement = rows'[j].agreement
    <3>1. j # n + 1
      BY <1>4, <1>5, <1>6, <1>7, <2>1
    <3>2. QED  BY <1>6, <1>8, <1>9, <2>1, <3>1
  <2>2. QED  BY <1>6, <2>1 DEF RowsStay, Akin
<1>13. Near(rows', mixed', n + 1, stmts[1].agreement)
  BY <1>4, <1>5, <1>6 DEF Near, Akin
<1>14. /\ ViewInv' /\ DOMAIN view' = DOMAIN view
       /\ \A j \in DOMAIN view : view'[j].visit = view[j].visit /\ view'[j].ref = view[j].ref
  BY <1>1, <1>2, <1>3, <1>4, <1>11, <1>13, Locates
<1>15. QueueInv'
  BY <1>1, <1>11, <1>14, Served
<1>16. StoreInv'
  BY <1>1 DEF StoreInv
<1>17. QED  BY <1>10, <1>12, <1>14, <1>15, <1>16 DEF DraftsInv

\* The rows after an update: one went to the end.
LEMMA Updated ==
    ASSUME RowsInv, mixed' = mixed, NEW i \in DOMAIN rows, NEW r \in DraftRows, r.id = rows[i].id,
           Akin(mixed, rows[i].agreement, r.agreement), rows' = Append(RemoveAt(rows, i), r)
    PROVE  RowsInv' /\ Keeps /\ RowsStay
<1> DEFINE n == Len(rows)  t == RemoveAt(rows, i)
<1>1. rows \in Seq(DraftRows) /\ n \in Nat /\ DOMAIN rows = 1 .. n /\ i \in 1 .. n /\ n >= 1
  BY DEF RowsInv
<1>2. /\ t \in Seq(DraftRows) /\ Len(t) = n - 1
      /\ \A k \in 1 .. n - 1 : t[k] = IF k < i THEN rows[k] ELSE rows[k + 1]
  BY <1>1, RemoveAtIs
<1> HIDE DEF t
<1>3. rows' = Append(t, r)
  BY DEF t
<1>4. /\ rows' \in Seq(DraftRows) /\ Len(rows') = Len(t) + 1
      /\ DOMAIN rows' = 1 .. Len(t) + 1 /\ rows'[Len(t) + 1] = r
      /\ \A k \in 1 .. Len(t) : rows'[k] = t[k]
  BY <1>2, <1>3, AppendIs
<1> HIDE DEF n
<1>5. Len(t) + 1 = n /\ Len(rows') = n /\ DOMAIN rows' = 1 .. n /\ rows'[n] = r
  BY <1>1, <1>2, <1>4
<1> DEFINE Old(k) == IF k = n THEN i ELSE IF k < i THEN k ELSE k + 1
<1>6. ASSUME NEW k \in 1 .. n
      PROVE  /\ Old(k) \in 1 .. n
             /\ rows'[k].id = rows[Old(k)].id
             /\ Akin(mixed, rows[Old(k)].agreement, rows'[k].agreement)
  <2>1. CASE k = n
    BY <1>1, <1>5, <2>1
  <2>2. CASE k # n
    <3>1. k \in 1 .. n - 1 /\ Old(k) \in 1 .. n /\ Old(k) = IF k < i THEN k ELSE k + 1
      BY <1>1, <2>2
    <3>2. rows'[k] = t[k]
      BY <1>2, <1>4, <3>1
    <3>3. rows'[k] = rows[Old(k)]
      BY <1>2, <3>1, <3>2
    <3>4. QED  BY <3>1, <3>3 DEF Akin
  <2>3. QED  BY <2>1, <2>2
<1>7. \A j, k \in 1 .. n : Old(j) = Old(k) => j = k
  BY <1>1
<1>8. ASSUME NEW j \in 1 .. n PROVE \E k \in 1 .. n : Old(k) = j
  <2>1. CASE j = i
    <3>1. n \in 1 .. n /\ Old(n) = j
      BY <1>1, <2>1
    <3>2. QED  BY <3>1
  <2>2. CASE j < i
    <3>1. Old(j) = j
      BY <1>1, <2>2
    <3>2. QED  BY <3>1
  <2>3. CASE j > i
    <3>1. j - 1 \in 1 .. n /\ Old(j - 1) = j
      BY <1>1, <2>3
    <3>2. QED  BY <3>1
  <2>4. QED  BY <1>1, <2>1, <2>2, <2>3
<1> HIDE DEF Old
<1>9. \A j \in 1 .. n : rows[j].id \in 1 .. n
  BY <1>1 DEF RowsInv, n
<1>10. \A j, k \in 1 .. n : rows[j].id = rows[k].id => j = k
  BY <1>1 DEF RowsInv
<1>11. RowsInv'
  <2>1. \A k \in 1 .. n : rows'[k].id \in 1 .. n
    BY <1>6, <1>9
  <2>2. ASSUME NEW j \in 1 .. n, NEW k \in 1 .. n, rows'[j].id = rows'[k].id PROVE j = k
    <3>1. Old(j) \in 1 .. n /\ Old(k) \in 1 .. n /\ rows[Old(j)].id = rows[Old(k)].id
      BY <1>6, <2>2
    <3>2. Old(j) = Old(k)
      BY <1>10, <3>1
    <3>3. QED  BY <1>7, <3>2
  <2>3. QED  BY <1>4, <1>5, <2>1, <2>2 DEF RowsInv
<1>12. ASSUME NEW j \in 1 .. n, NEW k \in 1 .. n, rows[j].id = rows'[k].id
       PROVE  Akin(mixed, rows[j].agreement, rows'[k].agreement)
  <2>1. Old(k) \in 1 .. n /\ rows[Old(k)].id = rows[j].id
    BY <1>6, <1>12
  <2>2. Old(k) = j
    BY <1>10, <2>1
  <2>3. QED  BY <1>6, <2>2
<1>13. RowsStay
  BY <1>1, <1>5, <1>12 DEF RowsStay
<1>14. ASSUME NEW id, NEW a, Near(rows, mixed, id, a) PROVE Near(rows', mixed', id, a)
  <2>1. PICK j \in 1 .. n : rows[j].id = id /\ Akin(mixed, rows[j].agreement, a)
    BY <1>1, <1>14 DEF Near
  <2>2. PICK k \in 1 .. n : Old(k) = j
    BY <1>8
  <2>3. rows'[k].id = id /\ Akin(mixed, rows[j].agreement, rows'[k].agreement)
    BY <1>6, <2>1, <2>2
  <2>4. Akin(mixed, rows'[k].agreement, a)
    BY <2>1, <2>3, AkinTrans
  <2>5. QED  BY <1>5, <2>3, <2>4 DEF Near
<1>15. Keeps
  BY <1>14 DEF Keeps
<1>16. QED  BY <1>11, <1>13, <1>15

LEMMA UpdateDraftKeeps ==
    ASSUME DraftsInv, UpdateDraft PROVE DraftsInv' /\ RowsStay
<1>1. /\ RowsInv /\ StoreInv /\ ViewInv /\ QueueInv /\ stmts # <<>>
      /\ UNCHANGED <<store, view, visits, mixed>>
      /\ stmts' = Tail(stmts) /\ Head(stmts).kind = "update"
  BY DEF DraftsInv, UpdateDraft
<1>2. /\ stmts \in Seq(Statements) /\ Head(stmts) = stmts[1] /\ stmts[1] \in Statements
      /\ Near(rows, mixed, stmts[1].row, stmts[1].agreement)
  BY <1>1, First
<1> DEFINE r == [id |-> stmts[1].row, agreement |-> stmts[1].agreement]
<1>3. r \in DraftRows /\ r.id = stmts[1].row /\ r.agreement = stmts[1].agreement
  BY <1>2 DEF DraftRows, Statements
<1>4. PICK i \in RowsWith(stmts[1].row) : rows' = Append(RemoveAt(rows, i), r)
  BY <1>2 DEF UpdateDraft
<1>5. PICK j \in DOMAIN rows : rows[j].id = stmts[1].row /\ Akin(mixed, rows[j].agreement, stmts[1].agreement)
  BY <1>2 DEF Near
<1> HIDE DEF r
<1>6. i \in DOMAIN rows /\ i = j
  BY <1>1, <1>4, <1>5 DEF RowsWith, RowsInv
<1>7. RowsInv' /\ Keeps /\ RowsStay
  BY <1>1, <1>3, <1>4, <1>5, <1>6, Updated
<1>8. StoreInv' /\ ViewInv'
  BY <1>1, <1>7 DEF StoreInv, ViewInv, Keeps
<1>9. QueueInv'
  BY <1>1, <1>7, Served
<1>10. QED  BY <1>7, <1>8, <1>9 DEF DraftsInv

-----------------------------------------------------------------------------
(* The screens.                                                              *)

\* The layouts as they are, but for the stack of the one shown.
LEMMA Restacked ==
    ASSUME DraftsInv, view # <<>>, NEW t \in Seq(Steps), t # <<>>
    PROVE  Stays([view EXCEPT ![Len(view)].stack = t]) /\ [view EXCEPT ![Len(view)].stack = t] # <<>>
<1>1. /\ view \in Seq(Layouts) /\ Len(view) \in Nat \ {0} /\ DOMAIN view = 1 .. Len(view)
      /\ \A j \in DOMAIN view : view[j] \in Layouts /\ view[j].stack # <<>>
  BY EmptySeq DEF DraftsInv, ViewInv
<1> DEFINE n == Len(view)  l == [view[n] EXCEPT !.stack = t]  w == [view EXCEPT ![n] = l]
<1>2. n \in 1 .. Len(view)
  BY <1>1
<1>3. l \in Layouts /\ l.visit = view[n].visit /\ l.row = view[n].row /\ l.ref = view[n].ref /\ l.stack = t
  BY <1>1, <1>2 DEF Layouts
<1> HIDE DEF l
<1>4. /\ w \in Seq(Layouts) /\ Len(w) = Len(view)
      /\ \A j \in 1 .. Len(view) : w[j] = IF j = n THEN l ELSE view[j]
  BY <1>1, <1>2, <1>3, ExceptSeq
<1>5. DOMAIN w = DOMAIN view /\ w # <<>>
  BY <1>1, <1>4
<1>6. ASSUME NEW j \in DOMAIN w
      PROVE  /\ w[j].stack # <<>> /\ w[j].visit = view[j].visit
             /\ w[j].row = view[j].row /\ w[j].ref = view[j].ref
  BY <1>1, <1>3, <1>4, <1>5
<1>7. [view EXCEPT ![Len(view)].stack = t] = w
  BY DEF l
<1> HIDE DEF w, n
<1>8. Stays(w)
  BY <1>4, <1>5, <1>6 DEF Stays
<1>9. QED  BY <1>5, <1>7, <1>8

LEMMA Unchanged ==
    ASSUME DraftsInv PROVE Stays(view)
BY DEF DraftsInv, ViewInv, Stays

\* The stack shown, and the layouts without the one shown.
LEMMA Shown ==
    ASSUME DraftsInv, view # <<>>
    PROVE  /\ Top \in Layouts /\ Top = view[Len(view)] /\ Top.id \in Agreements
           /\ Top.stack \in Seq(Steps) /\ Top.stack # <<>> /\ Stays(Front(view))
<1>1. /\ view \in Seq(Layouts) /\ DOMAIN view = 1 .. Len(view)
      /\ \A j \in DOMAIN view : view[j] \in Layouts /\ view[j].stack # <<>>
  BY DEF DraftsInv, ViewInv
<1>2. /\ Front(view) \in Seq(Layouts) /\ Last(view) = view[Len(view)] /\ Len(view) \in DOMAIN view
      /\ Len(view) \in Nat \ {0} /\ Len(Front(view)) = Len(view) - 1
      /\ \A k \in 1 .. Len(view) - 1 : Front(view)[k] = view[k]
  BY <1>1, FrontIs
<1>3. DOMAIN Front(view) = 1 .. Len(view) - 1 /\ 1 .. Len(view) - 1 \subseteq DOMAIN view
  BY <1>1, <1>2
<1>4. Stays(Front(view))
  BY <1>1, <1>2, <1>3 DEF Stays
<1>5. Top = view[Len(view)] /\ Top \in Layouts /\ Top.stack # <<>>
  BY <1>1, <1>2 DEF Top
<1>6. QED  BY <1>4, <1>5 DEF Layouts

\* The step of the screen shown.
LEMMA StepIs ==
    ASSUME NEW v, Stays(v), v # <<>> PROVE StepOf(v) \in Steps
<1>1. v \in Seq(Layouts) /\ Last(v) = v[Len(v)] /\ Len(v) \in DOMAIN v
  BY FrontIs DEF Stays
<1>2. Last(v) \in Layouts /\ Last(v).stack # <<>>
  <2>1. v[Len(v)] \in Layouts
    BY <1>1
  <2>2. QED  BY <1>1, <2>1 DEF Stays
<1>3. Last(v).stack \in Seq(Steps)
  BY <1>2 DEF Layouts
<1>4. QED  BY <1>2, <1>3, FrontIs DEF StepOf

LEMMA StoresAre ==
    ASSUME StoreInv
    PROVE  /\ store \in Stores /\ \A k \in Steps : [store EXCEPT !.step = k] \in Stores
           /\ EmptyStore \in Stores /\ \A k \in Steps : [EmptyStore EXCEPT !.step = k] \in Stores
<1>1. EmptyStore \in Stores
  BY Bounds DEF EmptyStore, Stores, Ids
<1>2. QED  BY <1>1 DEF StoreInv, Stores

LEMMA Renders ==
    ASSUME DraftsInv, UNCHANGED rows, NEW old, NEW s \in Stores, NEW changed \in BOOLEAN,
           Stays(old), Render(old, <<>>, s, changed)
    PROVE  DraftsInv' /\ Keeps
<1>1. Fresh(<<>>)
  BY DEF Fresh
<1>2. QED  BY <1>1, Rendered

LEMMA Turns ==
    ASSUME DraftsInv, UNCHANGED rows, NEW v, Stays(v), v # <<>>, Turn(v) PROVE DraftsInv'
<1>1. StepOf(v) \in Steps /\ StoreInv
  BY StepIs DEF DraftsInv
<1>2. [store EXCEPT !.step = StepOf(v)] \in Stores
  BY <1>1, StoresAre
<1>3. PICK c \in BOOLEAN : c = (store.step # StepOf(v))
  BY Zenon
<1>4. Render(v, <<>>, [store EXCEPT !.step = StepOf(v)], store.step # StepOf(v))
  BY DEF Turn
<1>5. Render(v, <<>>, [store EXCEPT !.step = StepOf(v)], c)
  BY <1>3, <1>4, Zenon
<1>6. QED  BY <1>2, <1>5, Renders

\* A step screen is pushed or replaced.
LEMMA Moves ==
    ASSUME Inv, view # <<>>, NEW k \in Steps, Push(k) \/ Replace(k) PROVE Inv'
<1>1. Top = view[Len(view)] /\ Top.stack \in Seq(Steps) /\ Top.stack # <<>> /\ DraftsInv
  BY Shown DEF Inv
<1>2. /\ Append(Top.stack, k) \in Seq(Steps) /\ Append(Top.stack, k) # <<>>
      /\ Append(Front(Top.stack), k) \in Seq(Steps) /\ Append(Front(Top.stack), k) # <<>>
  BY <1>1, FrontIs
<1>3. PICK t \in Seq(Steps) : t # <<>> /\ Turn([view EXCEPT ![Len(view)].stack = t])
  <2>1. \/ Turn([view EXCEPT ![Len(view)].stack = Append(Top.stack, k)])
        \/ Turn([view EXCEPT ![Len(view)].stack = Append(Front(Top.stack), k)])
    BY <1>1 DEF Push, Replace
  <2>2. QED  BY <1>2, <2>1
<1>4. UNCHANGED <<server, rows, opening, patches>>
  BY <1>3 DEF Turn
<1>5. DraftsInv'
  BY <1>1, <1>3, <1>4, Restacked, Turns
<1>6. QED  BY <1>4, <1>5 DEF Inv, RestInv

\* The screen of another request's answer.
LEMMA Goes ==
    ASSUME DraftsInv, UNCHANGED rows, NEW a \in Agreements, NEW k \in Steps, NEW s \in Stores,
           NEW changed \in BOOLEAN, Goto(a, k, s, changed)
    PROVE  DraftsInv'
<1>1. CASE view # <<>> /\ Top.id = a
  <2>1. Top = view[Len(view)] /\ Append(Top.stack, k) \in Seq(Steps) /\ Append(Top.stack, k) # <<>>
    BY <1>1, Shown
  <2>2. Render([view EXCEPT ![Len(view)].stack = Append(Top.stack, k)], <<>>, s, changed)
    BY <1>1, <2>1 DEF Goto
  <2>3. QED  BY <1>1, <2>1, <2>2, Restacked, Renders
<1>2. CASE ~(view # <<>> /\ Top.id = a)
  <2> DEFINE l == [id |-> a, stack |-> <<k>>, visit |-> visits + 1, row |-> 0, ref |-> NoAgreement]
  <2>1. visits + 1 \in Nat
    BY DEF DraftsInv, StoreInv
  <2>2. /\ l \in Layouts /\ l.stack # <<>> /\ l.visit = visits + 1 /\ l.row = 0 /\ l.ref = NoAgreement
    BY <2>1 DEF Layouts, Ids
  <2>3. Render(view, <<l>>, s, changed)
    BY <1>2 DEF Goto
  <2> HIDE DEF l
  <2>4. Fresh(<<l>>)
    BY <2>2 DEF Fresh
  <2>5. QED  BY <2>3, <2>4, Unchanged, Rendered
<1>3. QED  BY <1>1, <1>2

LEMMA HomeSteps ==
    ASSUME Inv, NEW a \in Agreements,
           NewDraft(a) \/ DeleteDraft(a) \/ \E ready \in BOOLEAN : OpenDraft(a, ready)
    PROVE  Inv'
<1>1. UNCHANGED <<rows, patches, drafts>>
  BY DEF NewDraft, DeleteDraft, OpenDraft
<1>2. server' = server \/ server' = [server EXCEPT ![a] = "empty"] \/ server' = [server EXCEPT ![a] = "deleted"]
  BY DEF NewDraft, DeleteDraft, OpenDraft
<1>3. server' \in [Agreements -> Records]
  BY <1>2 DEF Inv, RestInv, Records
<1>4. opening' \subseteq Answers
  <2>1. \A k \in Steps : [id |-> a, step |-> k] \in Answers
    BY DEF Answers
  <2>2. {0, Details, Evidence} \subseteq Steps /\ \A ready \in BOOLEAN : ResumeStep(a, ready) \in {0, Details, Evidence}
    BY Bounds DEF ResumeStep
  <2>3. opening' = opening \/ \E k \in Steps : opening' = opening \cup {[id |-> a, step |-> k]}
    BY <2>2 DEF NewDraft, DeleteDraft, OpenDraft
  <2>4. QED  BY <2>1, <2>3 DEF Inv, RestInv
<1>5. DraftsInv'
  BY <1>1, SameDrafts DEF Inv
<1>6. QED  BY <1>1, <1>3, <1>4, <1>5 DEF Inv, RestInv

LEMMA AnswerSteps ==
    ASSUME Inv, NEW o \in opening, Opened(o) \/ OpenFails(o) PROVE Inv'
<1>1. UNCHANGED <<server, rows, patches>> /\ opening' = opening \ {o}
  BY DEF Opened, OpenFails
<1>2. o \in Stores /\ o.id \in Agreements /\ o.step \in Steps
  <2>1. o \in Answers
    BY DEF Inv, RestInv
  <2>2. QED  BY <2>1 DEF Answers, Stores, Ids
<1>3. DraftsInv'
  <2>1. CASE Opened(o)
    BY <1>1, <1>2, <2>1, Goes DEF Opened, Inv
  <2>2. CASE OpenFails(o)
    BY <1>1, <2>2, SameDrafts DEF OpenFails, Inv
  <2>3. QED  BY <2>1, <2>2
<1>4. QED  BY <1>1, <1>3 DEF Inv, RestInv

LEMMA StepSteps ==
    ASSUME Inv, \/ ProceedParties \/ ProceedEvidence \/ ProceedReview
                \/ \E k \in Steps : StepPress(k) \/ EditFromReview(k)
    PROVE  Inv'
<1>1. view # <<>> /\ \E k \in Steps : Push(k) \/ Replace(k)
  BY Bounds DEF ProceedParties, ProceedEvidence, ProceedReview, StepPress, EditFromReview,
     At, RoomAtReview
<1>2. QED  BY <1>1, Moves

LEMMA PartiesLoadedKeeps ==
    ASSUME Inv, PartiesLoaded PROVE Inv'
<1>1. Render(view, <<>>, store, TRUE) /\ UNCHANGED <<server, rows, opening, patches>>
  BY DEF PartiesLoaded
<1>2. store \in Stores /\ DraftsInv
  BY DEF Inv, DraftsInv, StoreInv
<1>3. DraftsInv'
  BY <1>1, <1>2, Unchanged, Renders
<1>4. QED  BY <1>1, <1>3 DEF Inv, RestInv

LEMMA SubmitDetailsKeeps ==
    ASSUME Inv, SubmitDetails PROVE Inv'
<1>1. /\ Render(view, <<>>, store, TRUE) /\ UNCHANGED <<server, rows, opening>>
      /\ view # <<>> /\ patches' = Append(patches, [id |-> Top.id, heard |-> TRUE])
  BY DEF SubmitDetails, At
<1>2. store \in Stores /\ DraftsInv
  BY DEF Inv, DraftsInv, StoreInv
<1>3. DraftsInv'
  BY <1>1, <1>2, Unchanged, Renders
<1>4. [id |-> Top.id, heard |-> TRUE] \in Requests
  BY <1>1, <1>2, Shown DEF Requests
<1>5. patches' \in Seq(Requests)
  BY <1>1, <1>4, AppendIs DEF Inv, RestInv
<1>6. QED  BY <1>1, <1>3, <1>5 DEF Inv, RestInv

LEMMA PatchEndsKeeps ==
    ASSUME Inv, PatchEnds PROVE Inv'
<1>1. PICK i \in DOMAIN patches : PatchReaches(i) \/ PatchFails(i)
  BY DEF PatchEnds
<1>2. /\ UNCHANGED <<rows, opening>> /\ patches' = RemoveAt(patches, i)
      /\ server' = server \/ server' = [server EXCEPT ![patches[i].id] = "filled"]
      /\ ShowEvidence(patches[i].id) \/ UNCHANGED drafts
  BY <1>1 DEF PatchReaches, PatchFails, Ended
<1>3. patches \in Seq(Requests) /\ i \in 1 .. Len(patches) /\ patches[i] \in Requests
  BY DEF Inv, RestInv
<1>4. PICK a \in Agreements : a = patches[i].id
  BY <1>3 DEF Requests
<1>5. patches' \in Seq(Requests)
  BY <1>2, <1>3, RemoveAtIs
<1>6. server' \in [Agreements -> Records]
  BY <1>2, <1>4 DEF Inv, RestInv, Records
<1>7. DraftsInv'
  <2>1. CASE ShowEvidence(a)
    <3>1. Evidence \in Steps /\ DraftsInv /\ [store EXCEPT !.step = Evidence] \in Stores
      BY Bounds, StoresAre DEF Inv, DraftsInv
    <3>2. PICK c \in BOOLEAN : c = (store.step # Evidence)
      BY Zenon
    <3>3. Goto(a, Evidence, [store EXCEPT !.step = Evidence], store.step # Evidence)
      BY <2>1 DEF ShowEvidence
    <3>4. Goto(a, Evidence, [store EXCEPT !.step = Evidence], c)
      BY <3>2, <3>3, Zenon
    <3>5. QED  BY <1>2, <3>1, <3>4, Goes
  <2>2. CASE UNCHANGED drafts
    BY <1>2, <2>2, SameDrafts DEF Inv
  <2>3. QED  BY <1>2, <1>4, <2>1, <2>2
<1>8. QED  BY <1>2, <1>5, <1>6, <1>7 DEF Inv, RestInv

\* What is below stays.
LEMMA BelowStays ==
    ASSUME DraftsInv, view # <<>> PROVE Stays(Below)
<1>1. Top = view[Len(view)] /\ Top.stack \in Seq(Steps) /\ Top.stack # <<>> /\ Stays(Front(view))
  BY Shown
<1>2. CASE Len(Top.stack) > 1
  <2>1. Front(Top.stack) \in Seq(Steps) /\ Len(Front(Top.stack)) = Len(Top.stack) - 1 /\ Len(Top.stack) \in Nat
    BY <1>1, FrontIs
  <2>2. Front(Top.stack) # <<>>
    BY <1>2, <2>1
  <2>3. Below = [view EXCEPT ![Len(view)].stack = Front(Top.stack)]
    BY <1>1, <1>2 DEF Below
  <2>4. QED  BY <2>1, <2>2, <2>3, Restacked
<1>3. CASE ~(Len(Top.stack) > 1)
  BY <1>1, <1>3 DEF Below
<1>4. QED  BY <1>2, <1>3

LEMMA BackSteps ==
    ASSUME Inv, Back \/ Exit PROVE Inv'
<1>1. view # <<>> /\ DraftsInv /\ StoreInv
  BY DEF Back, Exit, Inv, DraftsInv
<1>2. Stays(Below) /\ store \in Stores /\ EmptyStore \in Stores
  BY <1>1, BelowStays, StoresAre
<1>3. UNCHANGED <<server, rows, opening, patches>>
  BY DEF Back, Exit, Leave, Turn
<1>4. DraftsInv'
  <2>1. CASE Below = <<>>
    <3>1. Leave(store) \/ Leave(EmptyStore)
      BY <2>1 DEF Back, Exit
    <3>2. /\ UNCHANGED <<rows, visits, mixed, stmts>> /\ store' \in Stores /\ view' = <<>>
      BY <1>2, <3>1 DEF Leave
    <3>3. QED  BY <1>1, <3>2, Leaves
  <2>2. CASE Below # <<>> /\ Back
    <3>1. Turn(Below)
      BY <2>2 DEF Back
    <3>2. QED  BY <1>1, <1>2, <1>3, <2>2, <3>1, Turns
  <2>3. CASE Below # <<>> /\ Exit
    <3>1. StepOf(Below) \in Steps /\ Render(Below, <<>>, [EmptyStore EXCEPT !.step = StepOf(Below)], TRUE)
      BY <1>2, <2>3, StepIs DEF Exit
    <3>2. [EmptyStore EXCEPT !.step = StepOf(Below)] \in Stores
      BY <1>1, <3>1, StoresAre
    <3>3. QED  BY <1>1, <1>2, <1>3, <3>1, <3>2, Renders
  <2>4. QED  BY <2>1, <2>2, <2>3
<1>5. QED  BY <1>3, <1>4 DEF Inv, RestInv

LEMMA KillKeeps ==
    ASSUME Inv, Kill PROVE Inv'
<1>1. /\ UNCHANGED <<server, visits, rows, mixed>> /\ view' = <<>> /\ store' = EmptyStore
      /\ stmts' = <<>> /\ opening' = {}
      /\ patches' = [i \in DOMAIN patches |-> [patches[i] EXCEPT !.heard = FALSE]]
  BY DEF Kill
<1>2. DraftsInv'
  BY <1>1, StoresAre, Leaves DEF Inv, DraftsInv
<1>3. patches' \in Seq(Requests)
  <2>1. patches \in Seq(Requests) /\ Len(patches) \in Nat /\ DOMAIN patches = 1 .. Len(patches)
    BY DEF Inv, RestInv
  <2>2. ASSUME NEW i \in 1 .. Len(patches) PROVE [patches[i] EXCEPT !.heard = FALSE] \in Requests
    <3>1. patches[i] \in Requests
      BY <2>1
    <3>2. QED  BY <3>1 DEF Requests
  <2>3. patches' \in [1 .. Len(patches) -> Requests]
    BY <1>1, <2>1, <2>2
  <2>4. QED  BY <2>1, <2>3, SeqDef
<1>4. QED  BY <1>1, <1>2, <1>3 DEF Inv, RestInv

LEMMA RunStatementKeeps ==
    ASSUME Inv, RunStatement PROVE Inv' /\ RowsStay
<1>1. DraftsInv' /\ RowsStay
  BY FindFoundKeeps, FindNothingKeeps, SaveDraftKeeps, UpdateDraftKeeps DEF RunStatement, Inv
<1>2. UNCHANGED <<server, opening, patches>>
  BY DEF RunStatement, FindFound, FindNothing, SaveDraft, UpdateDraft
<1>3. QED  BY <1>1, <1>2 DEF Inv, RestInv

-----------------------------------------------------------------------------
LEMMA InvInit ==
    ASSUME Init PROVE Inv
<1>1. /\ server = [a \in Agreements |-> "absent"] /\ store = EmptyStore /\ view = <<>> /\ visits = 0
      /\ rows = <<>> /\ stmts = <<>> /\ opening = {} /\ patches = <<>> /\ mixed = {}
  BY DEF Init
<1>2. RowsInv /\ ViewInv /\ QueueInv /\ RestInv
  BY <1>1 DEF RowsInv, ViewInv, QueueInv, RestInv, Records
<1>3. StoreInv
  BY <1>1, Bounds DEF StoreInv, EmptyStore, Stores, Ids
<1>4. QED  BY <1>2, <1>3 DEF Inv, DraftsInv

LEMMA InvNext ==
    ASSUME Inv, [Next]_vars PROVE Inv' /\ RowsStay
<1>1. CASE RunStatement
  BY <1>1, RunStatementKeeps
<1>2. CASE ~RunStatement
  <2>1. UNCHANGED rows
    BY <1>2 DEF Next, vars, PatchEnds, PatchReaches, PatchFails, Ended, PartiesLoaded, Turn, Push,
       Replace, ProceedParties, ProceedEvidence, ProceedReview, Back, Exit, Leave, Kill, NewDraft,
       DeleteDraft, OpenDraft, Opened, OpenFails, SubmitDetails, StepPress, EditFromReview
  <2>2. RowsStay
    BY <2>1, StayTheSame DEF Inv, DraftsInv
  <2>3. CASE UNCHANGED vars
    <3>1. UNCHANGED <<server, rows, opening, patches, drafts>>
      BY <2>3 DEF vars, drafts
    <3>2. QED  BY <2>2, <3>1, SameDrafts DEF Inv, RestInv
  <2>4. CASE Next
    <3>1. Inv'
      BY <1>2, <2>4, PatchEndsKeeps, PartiesLoadedKeeps, StepSteps, BackSteps, KillKeeps, HomeSteps,
         AnswerSteps, SubmitDetailsKeeps DEF Next
    <3>2. QED  BY <2>2, <3>1
  <2>5. QED  BY <2>3, <2>4
<1>3. QED  BY <1>1, <1>2

LEMMA SpecInv == Spec => []Inv
BY InvInit, InvNext, PTL DEF Spec

\* Every variable of the wizard keeps its type, whatever the user does while
\* statements and requests are under way.
THEOREM WizardTypes == Spec => []TypeOK
<1>1. Inv => TypeOK
  BY DEF Inv, DraftsInv, RowsInv, StoreInv, ViewInv, QueueInv, RestInv, TypeOK
<1>2. QED  BY <1>1, SpecInv, PTL

\* Whatever is queued or on its way when the user leaves a draft and opens
\* another, a row of drafts belongs to one agreement for good, unless one mounted
\* layout was given the drafts of both.
THEOREM RowsStayTheirs == Spec => RowsKeepTheirAgreement
<1> DEFINE Stay == \A i \in DOMAIN rows, j \in DOMAIN rows' :
                     rows[i].id = rows'[j].id => Alike(rows[i].agreement, rows'[j].agreement)
<1>1. Inv /\ [Next]_vars => [Stay]_vars
  BY InvNext DEF RowsStay, Akin, Alike
<1> HIDE DEF Stay
<1>2. Spec => [][Stay]_vars
  BY <1>1, SpecInv, PTL DEF Spec
<1>3. QED  BY <1>2, WizardTypes DEF Stay, RowsKeepTheirAgreement
=============================================================================
