---------------------------- MODULE FoldInProofs ----------------------------
(***************************************************************************)
(* What becomes of the edits of a human, of the published units and of the *)
(* records over any number of updates, for any analyses and edits.         *)
(*                                                                         *)
(* First the operators of UnitMerge: what a batch makes of the views, what *)
(* the plan of an update consists of, and what it appends.  Then Inv, in   *)
(* which a repeated update is compared with the one it repeats.            *)
(***************************************************************************)
EXTENDS FoldIn, FiniteSetTheorems, SequenceTheorems, TLAPS

-----------------------------------------------------------------------------
(* Records at the end of a file.                                              *)

\* A finite set as a sequence: each element at one place.
LEMMA SetToSeqFacts ==
  ASSUME NEW P, IsFiniteSet(P), NEW s, s = SetToSeq(P)
  PROVE  /\ s \in Seq(P)
         /\ \A u \in P : \E i \in 1..Len(s) : s[i] = u
         /\ \A i, j \in 1..Len(s) : s[i] = s[j] => i = j
<1> DEFINE n == Cardinality(P)
<1>1. n \in Nat /\ Bijection(1..n, P) # {}
  BY FS_CardinalityType DEF ExistsBijection
<1>2. PICK f \in [1..n -> P] : IsInjective(f)
  BY <1>1 DEF Bijection, Injection
<1>3. s \in [1..n -> P] /\ IsInjective(s)
  <2>1. \E g \in [1..n -> P] : IsInjective(g)
    BY <1>2
  <2>2. s = CHOOSE g \in [1..n -> P] : IsInjective(g)
    BY DEF SetToSeq
  <2>3. QED  BY <2>1, <2>2
<1>4. s \in Injection(1..n, P)
  BY <1>3 DEF Injection
<1>5. IsFiniteSet(1..n) /\ Cardinality(1..n) = n
  BY <1>1, FS_Interval
<1>6. s \in Surjection(1..n, P)
  BY <1>4, <1>5, FS_Injection
<1>7. s \in Seq(P) /\ Len(s) = n
  BY <1>1, <1>3
<1>8. QED  BY <1>3, <1>6, <1>7 DEF Surjection, IsInjective

\* A file a with the records of a batch P after those of the file r.
Follows(a, r, P) ==
  /\ a \in Seq(Range(a))
  /\ DOMAIN r = 1..Len(r) /\ DOMAIN a = 1..Len(a) /\ Len(r) \in Nat /\ Len(a) \in Nat
  /\ Len(r) <= Len(a)
  /\ \A i \in 1..Len(r) : a[i] = r[i]
  /\ \A i \in 1..Len(a) : i > Len(r) => a[i] \in P
  /\ \A u \in P : \E i \in 1..Len(a) : i > Len(r) /\ a[i] = u
  /\ \A i, j \in 1..Len(a) : i > Len(r) /\ j > Len(r) /\ a[i] = a[j] => i = j

\* The batch follows the file.
LEMMA AppendedFacts ==
  ASSUME NEW r, r \in Seq(Range(r)), NEW P, IsFiniteSet(P)
  PROVE  Follows(Appended(r, P), r, P)
<1> DEFINE a == Appended(r, P)
           s == SetToSeq(P)
           S == Range(r) \cup P
<1>1. /\ s \in Seq(P)
      /\ \A u \in P : \E i \in 1..Len(s) : s[i] = u
      /\ \A i, j \in 1..Len(s) : s[i] = s[j] => i = j
  BY SetToSeqFacts
<1>2. r \in Seq(S) /\ s \in Seq(S)
  <2>1. \A T \in SUBSET S : Seq(T) \subseteq Seq(S)
    OBVIOUS
  <2>2. QED  BY <2>1, <1>1
<1>3. a = r \o s
  BY DEF Appended
<1> HIDE DEF a, s, S
<1>4. /\ a \in Seq(S) /\ Len(a) = Len(r) + Len(s)
      /\ \A i \in 1..(Len(r) + Len(s)) : a[i] = IF i <= Len(r) THEN r[i] ELSE s[i - Len(r)]
  BY <1>2, <1>3, ConcatProperties
<1>5. Len(r) \in Nat /\ Len(s) \in Nat /\ DOMAIN r = 1..Len(r) /\ DOMAIN a = 1..Len(a)
  BY <1>1, <1>2, <1>4
<1>6. a \in Seq(Range(a))
  <2>1. a \in [1..Len(a) -> S]
    BY <1>4, <1>5
  <2>2. a \in [1..Len(a) -> Range(a)]
    BY <2>1 DEF Range
  <2>3. Len(a) \in Nat
    BY <1>4, <1>5
  <2>4. QED  BY <2>2, <2>3
<1>7. \A i \in 1..Len(s) : s[i] \in P
  BY <1>1, <1>5
<1>8. \A u \in P : \E i \in 1..Len(a) : i > Len(r) /\ a[i] = u
  <2> SUFFICES ASSUME NEW u \in P  PROVE  \E i \in 1..Len(a) : i > Len(r) /\ a[i] = u
    OBVIOUS
  <2>1. PICK i \in 1..Len(s) : s[i] = u
    BY <1>1
  <2>2. Len(r) + i \in 1..(Len(r) + Len(s)) /\ Len(r) + i > Len(r) /\ (Len(r) + i) - Len(r) = i
    BY <1>5
  <2>3. a[Len(r) + i] = s[i]
    BY <2>2, <1>4
  <2>4. QED  BY <2>1, <2>2, <2>3, <1>4
<1>9. \A i, j \in 1..Len(a) : i > Len(r) /\ j > Len(r) /\ a[i] = a[j] => i = j
  <2> SUFFICES ASSUME NEW i \in 1..Len(a), NEW j \in 1..Len(a),
                      i > Len(r), j > Len(r), a[i] = a[j]
               PROVE  i = j
    OBVIOUS
  <2>1. i - Len(r) \in 1..Len(s) /\ j - Len(r) \in 1..Len(s)
    BY <1>4, <1>5
  <2>2. s[i - Len(r)] = s[j - Len(r)]
    BY <1>4, <1>5
  <2>3. i - Len(r) = j - Len(r)
    BY <1>1, <2>1, <2>2
  <2>4. QED  BY <2>3, <1>5
<1>10. \A i \in 1..Len(r) : a[i] = r[i]
  BY <1>4, <1>5
<1>11. \A i \in 1..Len(a) : i > Len(r) => a[i] \in P
  <2> SUFFICES ASSUME NEW i \in 1..Len(a), i > Len(r)  PROVE  a[i] \in P
    OBVIOUS
  <2>1. i - Len(r) \in 1..Len(s) /\ a[i] = s[i - Len(r)]
    BY <1>4, <1>5
  <2>2. QED  BY <2>1, <1>7
<1>12. Follows(a, r, P)
  BY <1>4, <1>5, <1>6, <1>8, <1>9, <1>10, <1>11 DEF Follows
<1>13. QED  BY <1>12 DEF a

-----------------------------------------------------------------------------
(* The views.                                                                 *)

IsFile(r) ==
  /\ r \in Seq(Range(r))
  /\ \A i \in DOMAIN r : IsUnit(r[i])

\* A view has one record of a unit, and it is one of the file.
LEMMA CurrentFacts ==
  ASSUME NEW r, IsFile(r)
  PROVE  /\ Current(r) \subseteq Range(r)
         /\ \A u, v \in Current(r) : u.id = v.id => u = v
         /\ \A u \in Current(r) : IsUnit(u)
         /\ \A u \in Current(r) : \A i \in DOMAIN r :
              r[i].id = u.id => r[i].version <= u.version
<1>1. DOMAIN r = 1..Len(r) /\ Len(r) \in Nat /\ \A i \in DOMAIN r : r[i].version \in Nat
  <2>1. r \in Seq(Range(r)) /\ \A i \in DOMAIN r : r[i].version \in Nat
    BY DEF IsFile, IsUnit
  <2>2. QED  BY <2>1, LenProperties
<1>2. ASSUME NEW u \in Current(r)
      PROVE  \E i \in DOMAIN r :
               /\ u = r[i]
               /\ \A j \in DOMAIN r : r[i].id = r[j].id =>
                    r[j].version < r[i].version \/ (r[j].version = r[i].version /\ i <= j)
  BY <1>2 DEF Current
<1>3. ASSUME NEW u \in Current(r), NEW v \in Current(r), u.id = v.id
      PROVE  u = v
  <2>1. PICK i \in DOMAIN r :
               /\ u = r[i]
               /\ \A j \in DOMAIN r : r[i].id = r[j].id =>
                    r[j].version < r[i].version \/ (r[j].version = r[i].version /\ i <= j)
    BY <1>2
  <2>2. PICK k \in DOMAIN r :
               /\ v = r[k]
               /\ \A j \in DOMAIN r : r[k].id = r[j].id =>
                    r[j].version < r[k].version \/ (r[j].version = r[k].version /\ k <= j)
    BY <1>2
  <2>3. i = k
    BY <2>1, <2>2, <1>1, <1>3
  <2>4. QED  BY <2>1, <2>2, <2>3
<1>4. QED  BY <1>1, <1>2, <1>3 DEF IsFile, Range

\* What a batch makes of a view: a record that no newer one follows stays, a record
\* of a higher version than all of its unit is current, and no other is.
LEMMA CurrentAfter ==
  ASSUME NEW r, IsFile(r), NEW P, IsFiniteSet(P), \A u \in P : IsUnit(u),
         NEW a, a = Appended(r, P)
  PROVE  /\ IsFile(a)
         /\ \A u \in Current(r) : (\A p \in P : p.id # u.id) => u \in Current(a)
         /\ \A p \in P : /\ \A i \in DOMAIN r : r[i].id = p.id => r[i].version < p.version
                         /\ \A q \in P : q.id = p.id => q = p
                         => p \in Current(a)
         /\ \A u \in Current(a) :
              u \in P \/ (u \in Current(r) /\ \A p \in P : p.id = u.id => p.version <= u.version)
<1>1. /\ a \in Seq(Range(a))
      /\ DOMAIN r = 1..Len(r) /\ DOMAIN a = 1..Len(a) /\ Len(r) \in Nat /\ Len(a) \in Nat
      /\ Len(r) <= Len(a)
      /\ \A i \in 1..Len(r) : a[i] = r[i]
      /\ \A i \in 1..Len(a) : i > Len(r) => a[i] \in P
      /\ \A u \in P : \E i \in 1..Len(a) : i > Len(r) /\ a[i] = u
      /\ \A i, j \in 1..Len(a) : i > Len(r) /\ j > Len(r) /\ a[i] = a[j] => i = j
  <2>1. r \in Seq(Range(r))
    BY DEF IsFile
  <2>2. Follows(a, r, P)
    BY <2>1, AppendedFacts
  <2>3. QED  BY <2>2 DEF Follows
<1>2. IsFile(a)
  <2>1. \A i \in DOMAIN r : IsUnit(r[i])
    BY DEF IsFile
  <2>2. \A i \in DOMAIN a : IsUnit(a[i])
    BY <1>1, <2>1
  <2>3. QED  BY <1>1, <2>2 DEF IsFile
<1>3. \A i \in DOMAIN a : a[i].version \in Nat
  BY <1>2 DEF IsFile, IsUnit
<1>4. ASSUME NEW u \in Current(r), \A p \in P : p.id # u.id
      PROVE  u \in Current(a)
  <2>1. PICK i \in DOMAIN r :
               /\ u = r[i]
               /\ \A j \in DOMAIN r : r[i].id = r[j].id =>
                    r[j].version < r[i].version \/ (r[j].version = r[i].version /\ i <= j)
    BY DEF Current
  <2>2. i \in DOMAIN a /\ a[i] = u
    BY <1>1, <2>1
  <2>3. \A j \in DOMAIN a : a[i].id = a[j].id =>
           a[j].version < a[i].version \/ (a[j].version = a[i].version /\ i <= j)
    BY <1>1, <1>4, <2>1, <2>2
  <2>4. QED  BY <2>2, <2>3 DEF Current
<1>5. ASSUME NEW p \in P, \A i \in DOMAIN r : r[i].id = p.id => r[i].version < p.version,
             \A q \in P : q.id = p.id => q = p
      PROVE  p \in Current(a)
  <2>1. PICK i \in DOMAIN a : i > Len(r) /\ a[i] = p
    BY <1>1
  <2>2. \A j \in DOMAIN a : a[i].id = a[j].id =>
           a[j].version < a[i].version \/ (a[j].version = a[i].version /\ i <= j)
    BY <1>1, <1>5, <2>1
  <2>3. QED  BY <2>1, <2>2 DEF Current
<1>6. ASSUME NEW u \in Current(a), u \notin P
      PROVE  u \in Current(r) /\ \A p \in P : p.id = u.id => p.version <= u.version
  <2>1. PICK i \in DOMAIN a :
               /\ u = a[i]
               /\ \A j \in DOMAIN a : a[i].id = a[j].id =>
                    a[j].version < a[i].version \/ (a[j].version = a[i].version /\ i <= j)
    BY DEF Current
  <2>2. i \in DOMAIN r /\ r[i] = u
    BY <1>1, <1>6, <2>1
  <2>3. \A j \in DOMAIN r : r[i].id = r[j].id =>
           r[j].version < r[i].version \/ (r[j].version = r[i].version /\ i <= j)
    BY <1>1, <2>1, <2>2
  <2>4. u \in Current(r)
    BY <2>2, <2>3 DEF Current
  <2>5. ASSUME NEW p \in P, p.id = u.id  PROVE  p.version <= u.version
    <3>1. PICK j \in DOMAIN a : a[j] = p
      BY <1>1
    <3>2. QED  BY <3>1, <2>1, <2>5, <1>3
  <2>6. QED  BY <2>4, <2>5
<1>7. QED  BY <1>2, <1>4, <1>5, <1>6

-----------------------------------------------------------------------------
(* Units and their fields.                                                    *)

\* UnitOf finds the unit of an id.
LEMMA UnitOfFacts ==
  ASSUME NEW units, NEW id \in IdsOf(units)
  PROVE  UnitOf(units, id) \in units /\ UnitOf(units, id).id = id
BY DEF UnitOf, IdsOf

\* What can be said of every f[x] with x in a finite set is said of finitely many.
LEMMA ImageFinite ==
  ASSUME NEW S, IsFiniteSet(S), NEW f, NEW T, T \subseteq {f[x] : x \in S}
  PROVE  IsFiniteSet(T)
<1> DEFINE g == [x \in S |-> f[x]]
           I == {f[x] : x \in S}
<1>1. g \in Surjection(S, I)
  BY DEF Surjection
<1>2. IsFiniteSet(I)
  BY <1>1, FS_Surjection
<1>3. QED  BY <1>2, FS_Subset

\* A unit whose status was changed.
WithStatus(u, status) == [u EXCEPT !.f.status = status]

\* Only the status of such a unit is another.
LEMMA WithStatusFacts ==
  ASSUME NEW u, IsUnit(u), NEW status
  PROVE  /\ IsUnit(WithStatus(u, status))
         /\ WithStatus(u, status).id = u.id
         /\ WithStatus(u, status).version = u.version
         /\ WithStatus(u, status).f.status = status
         /\ \A k \in Fields \ {"status"} : WithStatus(u, status).f[k] = u.f[k]
<1> DEFINE w == WithStatus(u, status)
<1>1. w = [u EXCEPT !.f = [u.f EXCEPT !.status = status]]
  BY DEF WithStatus
<1>2. "f" \in DOMAIN u /\ "id" \in DOMAIN u /\ "version" \in DOMAIN u /\ "supersedes" \in DOMAIN u
  BY DEF IsUnit
<1>3. /\ w.f = [u.f EXCEPT !.status = status]
      /\ w.id = u.id /\ w.version = u.version /\ w.supersedes = u.supersedes
      /\ w = [id |-> w.id, version |-> w.version, supersedes |-> w.supersedes, f |-> w.f]
  BY <1>1, <1>2 DEF IsUnit
<1>4. /\ w.f = [k \in Fields |-> w.f[k]] /\ w.f.status = status
      /\ \A k \in Fields \ {"status"} : w.f[k] = u.f[k]
  BY <1>3 DEF IsUnit, Fields
<1>5. QED  BY <1>3, <1>4 DEF IsUnit

\* A candidate becomes a unit of its own id.
LEMMA FromCandidateFacts ==
  ASSUME NEW c, IsUnit(c)
  PROVE  /\ IsUnit(FromCandidate(c))
         /\ FromCandidate(c).id = c.id
         /\ FromCandidate(c).version = c.version
         /\ FromCandidate(c).f.status = "candidate"
              \/ FromCandidate(c).f.status = c.f.status
         /\ FromCandidate(c).f.status \in Statuses
<1> DEFINE w == FromCandidate(c)
           kind == IF c.f.kind \in {"principle", "anti_pattern"} THEN c.f.kind ELSE "technique"
           status == IF c.f.status \in Statuses THEN c.f.status ELSE "candidate"
           f == [c.f EXCEPT !.kind = kind, !.status = status]
<1>1. "kind" \in Fields /\ "status" \in Fields /\ DOMAIN c.f = Fields
  BY DEF Fields, IsUnit
<1>2. w = [c EXCEPT !.f = f]
  BY <1>1 DEF FromCandidate
<1>3. /\ w.f = f /\ w.id = c.id /\ w.version = c.version /\ w.supersedes = c.supersedes
      /\ w = [id |-> w.id, version |-> w.version, supersedes |-> w.supersedes, f |-> w.f]
  BY <1>2 DEF IsUnit
<1>4. f = [k \in Fields |-> f[k]] /\ f.status = status
  BY <1>1 DEF IsUnit
<1>5. status \in Statuses
  BY DEF Statuses
<1>6. QED  BY <1>3, <1>4, <1>5 DEF IsUnit

\* A unit of an analysis as it enters the comparison.
Offer(c, old) ==
  LET u == FromCandidate(c)
  IN  IF u.f.status = "candidate" /\ u.id \in IdsOf(old)
      THEN WithStatus(u, UnitOf(old, u.id).f.status) ELSE u

\* It is the candidate but for a provisional status.
LEMMA OfferFacts ==
  ASSUME NEW c, IsUnit(c), NEW old, NEW u, u = Offer(c, old)
  PROVE  /\ IsUnit(u) /\ u.id = c.id
         /\ \A k \in Fields \ {"status"} : u.f[k] = FromCandidate(c).f[k]
         /\ u.f.status = IF FromCandidate(c).f.status = "candidate" /\ c.id \in IdsOf(old)
                         THEN UnitOf(old, c.id).f.status ELSE FromCandidate(c).f.status
<1>1. IsUnit(FromCandidate(c)) /\ FromCandidate(c).id = c.id
  BY FromCandidateFacts
<1>2. CASE FromCandidate(c).f.status = "candidate" /\ c.id \in IdsOf(old)
  <2>1. u = WithStatus(FromCandidate(c), UnitOf(old, c.id).f.status)
    BY <1>1, <1>2 DEF Offer
  <2>2. QED  BY <1>1, <1>2, <2>1, WithStatusFacts
<1>3. CASE ~(FromCandidate(c).f.status = "candidate" /\ c.id \in IdsOf(old))
  <2>1. u = FromCandidate(c)
    BY <1>1, <1>3 DEF Offer
  <2>2. QED  BY <1>1, <1>3, <2>1
<1>4. QED  BY <1>2, <1>3

Offers(bundle, old) == {Offer(c, old) : c \in bundle}

\* The units of an analysis keep their ids and stay finitely many.
LEMMA OffersFacts ==
  ASSUME NEW bundle, IsAnalysis(bundle), NEW old,
         NEW new, new = Offers(bundle, old)
  PROVE  /\ new = Settled({FromCandidate(c) : c \in bundle}, old)
         /\ IsAnalysis(new)
         /\ IdsOf(new) = IdsOf(bundle)
         /\ \A c \in bundle : UnitOf(new, c.id) = Offer(c, old)
<1>0. new = {Offer(c, old) : c \in bundle}
  BY DEF Offers
<1>1. \A c \in bundle : IsUnit(c) /\ IsUnit(Offer(c, old)) /\ Offer(c, old).id = c.id
  BY OfferFacts DEF IsAnalysis
<1>2. new = Settled({FromCandidate(c) : c \in bundle}, old)
  BY <1>0 DEF Settled, Offer, WithStatus
<1>3. IsFiniteSet(new)
  <2> DEFINE f == [c \in bundle |-> Offer(c, old)]
  <2>1. new \subseteq {f[c] : c \in bundle}
    BY <1>0
  <2>2. IsFiniteSet(bundle)
    BY DEF IsAnalysis
  <2> HIDE DEF f
  <2>3. QED  BY <2>1, <2>2, ImageFinite
<1>4. \A u, v \in new : u.id = v.id => u = v
  BY <1>0, <1>1 DEF IsAnalysis
<1>5. IdsOf(new) = IdsOf(bundle)
  BY <1>0, <1>1 DEF IdsOf
<1>6. ASSUME NEW c \in bundle  PROVE  UnitOf(new, c.id) = Offer(c, old)
  <2>1. Offer(c, old) \in new /\ Offer(c, old).id = c.id
    BY <1>0, <1>1
  <2>2. c.id \in IdsOf(new)
    BY <2>1 DEF IdsOf
  <2>3. UnitOf(new, c.id) \in new /\ UnitOf(new, c.id).id = c.id
    BY <2>2, UnitOfFacts
  <2>4. QED  BY <2>1, <2>3, <1>4
<1>7. IsAnalysis(new)
  BY <1>0, <1>1, <1>3, <1>4 DEF IsAnalysis
<1>8. QED  BY <1>2, <1>5, <1>6, <1>7

\* A merged unit is that of the record in all but its fields.
LEMMA MergedUnitFacts ==
  ASSUME NEW base, IsUnit(base), NEW new, NEW edits, NEW u, u = MergedUnit(base, new, edits)
  PROVE  /\ IsUnit(u) /\ u.id = base.id /\ u.version = base.version
         /\ \A k \in Fields :
              u.f[k] = MergedField(k, base.f[k], new.f[k], EditsOf(edits, base.id, k))
<1> DEFINE f == [k \in Fields |-> MergedField(k, base.f[k], new.f[k], EditsOf(edits, base.id, k))]
<1>1. u = [base EXCEPT !.f = f]
  BY DEF MergedUnit
<1> HIDE DEF f
<1>2. u.f = f /\ u.id = base.id /\ u.version = base.version /\ u.supersedes = base.supersedes
      /\ u = [id |-> u.id, version |-> u.version, supersedes |-> u.supersedes, f |-> u.f]
  BY <1>1 DEF IsUnit
<1>3. f = [k \in Fields |-> f[k]]
  BY DEF f
<1>4. IsUnit(u)
  BY <1>2, <1>3 DEF IsUnit
<1>5. \A k \in Fields : f[k] = MergedField(k, base.f[k], new.f[k], EditsOf(edits, base.id, k))
  BY DEF f
<1>6. QED  BY <1>2, <1>4, <1>5

\* A superseding record has the fields of the new unit, and the next version.
LEMMA SupersessionFacts ==
  ASSUME NEW old, IsUnit(old), NEW new, IsUnit(new), NEW u, u = Supersession(old, new)
  PROVE  /\ IsUnit(u) /\ u.id = old.id /\ u.version = old.version + 1 /\ u.f = new.f
<1>1. u = [[[new EXCEPT !.id = old.id] EXCEPT !.version = old.version + 1]
             EXCEPT !.supersedes = {old.id}]
  BY DEF Supersession
<1>2. u = [id |-> old.id, version |-> old.version + 1, supersedes |-> {old.id}, f |-> new.f]
  BY <1>1 DEF IsUnit
<1>3. old.version + 1 \in Nat
  BY DEF IsUnit
<1>4. QED  BY <1>2, <1>3 DEF IsUnit

-----------------------------------------------------------------------------
(* The invariant.                                                             *)

\* Every record is of a unit that was approved or deprecated.
RecordsInv ==
  /\ IsFile(records)
  /\ \A i \in DOMAIN records : records[i].f.status \in {"approved", "superseded"}

\* A unit of the published Skill has an active record, unless it came back.
SkillInv == IdsOf(skill) \ revived \subseteq IdsOf(Active(records))

\* A line of the log is the first of its id or withdraws it; times are in order.
IsLine(o, i) ==
  /\ o = [oid |-> o.oid, unit |-> o.unit, patch |-> o.patch, at |-> o.at,
          superseded |-> o.superseded]
  /\ o.oid \in 1..i /\ o.at = o.oid
  /\ o.superseded \in BOOLEAN /\ (~o.superseded => o.oid = i)
  /\ ValidPatch(o.patch) /\ DOMAIN o.patch # {}

LogInv ==
  /\ log \in Seq(Range(log))
  /\ \A i \in DOMAIN log : IsLine(log[i], i)

\* The published units hold the edits the last update applied, active or not: an
\* edit that another one hides comes back when that one is withdrawn.
AppliedInv ==
  /\ applied \subseteq 1..Len(log)
  /\ \A i \in applied \ absorbed : ~Provisional(log[i]) =>
       \A u \in skill : u.id = log[i].unit => Holds(u, log[i])

Inv == RecordsInv /\ SkillInv /\ LogInv /\ AppliedInv /\ RepeatChangesNothing

-----------------------------------------------------------------------------
(* The log.                                                                   *)

\* An active edit is the line that wrote it, of an editable field, and the only one
\* of its unit and field.
LEMMA ActiveLogFacts ==
  ASSUME LogInv
  PROVE  \A o \in ActiveLog :
           /\ o.oid \in DOMAIN log /\ o = log[o.oid] /\ ~o.superseded
           /\ FieldOf(o) \in Editable
           /\ \A p \in ActiveLog : p.unit = o.unit /\ FieldOf(p) = FieldOf(o) => p = o
<1>1. DOMAIN log = 1..Len(log) /\ Len(log) \in Nat
  BY LenProperties DEF LogInv
<1>2. \A i \in DOMAIN log : IsLine(log[i], i)
  BY DEF LogInv
<1> DEFINE live == {i \in DOMAIN log : log[i].oid \notin Withdrawn(log)}
           same(i, j) == log[i].unit = log[j].unit /\ FieldOf(log[i]) = FieldOf(log[j])
           latest(i) == \A j \in live : same(i, j) => log[j].at < log[i].at
                                         \/ (log[j].at = log[i].at /\ i <= j)
<1>3. ActiveLog = {log[i] : i \in {i \in live : latest(i)}}
  BY DEF ActiveLog, ActiveEdits
<1>4. ASSUME NEW i \in live  PROVE  ~log[i].superseded
  BY <1>4 DEF Withdrawn, Range
<1>5. \A i \in live : log[i].oid = i /\ log[i].at = i
  BY <1>2, <1>4 DEF IsLine
<1>6. ASSUME NEW i \in live, NEW j \in live, latest(i), latest(j), same(i, j)  PROVE  i = j
  <2>1. same(j, i)
    BY <1>6
  <2>2. log[j].at < log[i].at \/ (log[j].at = log[i].at /\ i <= j)
    BY <1>6
  <2>3. log[i].at < log[j].at \/ (log[i].at = log[j].at /\ j <= i)
    BY <1>6, <2>1
  <2>4. i \in Nat /\ j \in Nat
    BY <1>1
  <2> HIDE DEF latest, same
  <2>5. QED  BY <2>2, <2>3, <2>4, <1>5
<1>7. ASSUME NEW i \in live  PROVE  FieldOf(log[i]) \in Editable
  <2>1. DOMAIN log[i].patch # {} /\ DOMAIN log[i].patch \subseteq Editable
    BY <1>2 DEF IsLine, ValidPatch
  <2>2. FieldOf(log[i]) \in DOMAIN log[i].patch
    BY <2>1 DEF FieldOf
  <2>3. QED  BY <2>1, <2>2
<1>8. ASSUME NEW o \in ActiveLog
      PROVE  /\ o.oid \in DOMAIN log /\ o = log[o.oid] /\ ~o.superseded
             /\ FieldOf(o) \in Editable
             /\ \A p \in ActiveLog : p.unit = o.unit /\ FieldOf(p) = FieldOf(o) => p = o
  <2>1. PICK i \in live : latest(i) /\ o = log[i]
    BY <1>3
  <2>2. o.oid \in DOMAIN log /\ o = log[o.oid] /\ ~o.superseded /\ FieldOf(o) \in Editable
    BY <2>1, <1>4, <1>5, <1>7
  <2>3. ASSUME NEW p \in ActiveLog, p.unit = o.unit, FieldOf(p) = FieldOf(o)  PROVE  p = o
    <3>1. PICK j \in live : latest(j) /\ p = log[j]
      BY <1>3
    <3>2. same(i, j)
      BY <2>1, <2>3, <3>1
    <3> HIDE DEF latest, same, live
    <3>3. i = j
      BY <1>6, <2>1, <3>1, <3>2
    <3>4. QED  BY <2>1, <3>1, <3>3
  <2>4. QED  BY <2>2, <2>3
<1>9. QED  BY <1>8

-----------------------------------------------------------------------------
(* The plan of an update: of the active records `old` and the offers `new`.   *)

Both(old, new) == IdsOf(old) \cap IdsOf(new)
Kept(old, new, removals) == Both(old, new) \cup (IF removals THEN {} ELSE IdsOf(old))
Theirs(old, new, id) == IF id \in Both(old, new) THEN UnitOf(new, id) ELSE UnitOf(old, id)
Added(old, new) == {u \in new : u.id \notin IdsOf(old)}
Gone(old, new) == {u \in old : u.id \notin IdsOf(new)}
Drifted(old, new) ==
  {id \in Both(old, new) : ChangedFields(UnitOf(old, id), UnitOf(new, id)) # {}}
Changed(old, new) == IdsOf(Added(old, new)) \cup Drifted(old, new)
Approve(u, ids) ==
  IF u.id \in ids /\ u.f.status \in {"candidate", "reviewed"}
  THEN WithStatus(u, "approved") ELSE u

IsPlan(plan, r, bundle, edits, removals, old, new) ==
  /\ IsFile(r) /\ IsAnalysis(bundle) /\ removals \in BOOLEAN
  /\ old = Active(r) /\ new = Offers(bundle, old)
  /\ plan = Plan(r, bundle, edits, removals)

\* What the plan consists of.
LEMMA PlanFacts ==
  ASSUME NEW plan, NEW r, NEW bundle, NEW edits, NEW removals, NEW old, NEW new,
         IsPlan(plan, r, bundle, edits, removals, old, new)
  PROVE  /\ plan.old = old
         /\ plan.diff.added = Added(old, new)
         /\ plan.diff.modified = Drifted(old, new)
         /\ plan.diff.removed = IF removals THEN Gone(old, new) ELSE {}
         /\ plan.merge.merged =
              {MergedUnit(UnitOf(old, id), Theirs(old, new, id), edits) :
                 id \in Kept(old, new, removals)} \cup Added(old, new)
         /\ plan.merge.applied = {o \in edits : o.unit \in Kept(old, new, removals)}
         /\ plan.merge.preserved =
              {o \in edits : o.unit \in IdsOf(Added(old, new)) \cup
                               (IF removals THEN IdsOf(old) \ Both(old, new) ELSE {})}
         /\ plan.merge.conflicts =
              UNION {Contradicted(UnitOf(old, id), Theirs(old, new, id), edits) :
                       id \in Kept(old, new, removals)}
         /\ Approved(plan) = {Approve(m, Changed(old, new)) : m \in plan.merge.merged}
<1>1. new = Settled({FromCandidate(c) : c \in bundle}, old)
  BY OffersFacts DEF IsPlan
<1>2. plan = [diff |-> Diff(old, new, removals), old |-> old,
              merge |-> MergeWithOverrides(old, new, edits, removals)]
  BY <1>1 DEF IsPlan, Plan
<1>3. /\ plan.old = old /\ plan.diff = Diff(old, new, removals)
      /\ plan.merge = MergeWithOverrides(old, new, edits, removals)
  BY <1>2
<1>4. /\ plan.diff.added = Added(old, new)
      /\ plan.diff.modified = Drifted(old, new)
      /\ plan.diff.removed = IF removals THEN Gone(old, new) ELSE {}
  BY <1>3 DEF Diff, Added, Drifted, Gone, Both
<1>5. /\ plan.merge.merged =
              {MergedUnit(UnitOf(old, id), Theirs(old, new, id), edits) :
                 id \in Kept(old, new, removals)} \cup Added(old, new)
      /\ plan.merge.applied = {o \in edits : o.unit \in Kept(old, new, removals)}
      /\ plan.merge.preserved =
              {o \in edits : o.unit \in IdsOf(Added(old, new)) \cup
                               (IF removals THEN IdsOf(old) \ Both(old, new) ELSE {})}
      /\ plan.merge.conflicts =
              UNION {Contradicted(UnitOf(old, id), Theirs(old, new, id), edits) :
                       id \in Kept(old, new, removals)}
  BY <1>3 DEF MergeWithOverrides, Kept, Theirs, Added, Both
<1>6. Approved(plan) = {Approve(m, Changed(old, new)) : m \in plan.merge.merged}
  BY <1>4 DEF Approved, Approve, Changed, WithStatus
<1>7. QED  BY <1>3, <1>4, <1>5, <1>6

\* The units compared are units, and finitely many.
LEMMA SidesFacts ==
  ASSUME NEW plan, NEW r, NEW bundle, NEW edits, NEW removals, NEW old, NEW new,
         IsPlan(plan, r, bundle, edits, removals, old, new)
  PROVE  /\ IsAnalysis(old) /\ IsAnalysis(new) /\ IdsOf(new) = IdsOf(bundle)
         /\ \A u \in old : u \in Current(r) /\ u.f.status \notin Inactive
         /\ \A u \in Current(r) : u.f.status \notin Inactive => u \in old
<1>1. IsAnalysis(new) /\ IdsOf(new) = IdsOf(bundle)
  <2>1. new = Offers(bundle, old) /\ IsAnalysis(bundle)
    BY DEF IsPlan
  <2>2. QED  BY <2>1, OffersFacts
<1>2. old = {u \in Current(r) : u.f.status \notin Inactive}
  BY DEF IsPlan, Active
<1>3. /\ Current(r) \subseteq Range(r)
      /\ \A u, v \in Current(r) : u.id = v.id => u = v
      /\ \A u \in Current(r) : IsUnit(u)
  BY CurrentFacts DEF IsPlan
<1>4. IsFiniteSet(old)
  <2>1. r \in Seq(Range(r))
    BY DEF IsPlan, IsFile
  <2>2. DOMAIN r = 1..Len(r) /\ Len(r) \in Nat
    BY <2>1, LenProperties
  <2>3. IsFiniteSet(DOMAIN r)
    BY <2>2, FS_Interval
  <2>4. old \subseteq {r[i] : i \in DOMAIN r}
    BY <1>2, <1>3 DEF Range
  <2>5. QED  BY <2>3, <2>4, ImageFinite
<1>5. IsAnalysis(old)
  BY <1>2, <1>3, <1>4 DEF IsAnalysis
<1>6. QED  BY <1>1, <1>2, <1>5

\* A unit that is published has the id of a record that is kept, and then its fields
\* were merged, or it is one the analysis adds; approval changes no other field.
LEMMA PublishedFacts ==
  ASSUME NEW plan, NEW r, NEW bundle, NEW edits, NEW removals, NEW old, NEW new,
         IsPlan(plan, r, bundle, edits, removals, old, new),
         NEW u \in Approved(plan)
  PROVE  /\ IsUnit(u)
         /\ u.id \in Kept(old, new, removals) \cup IdsOf(Added(old, new))
         /\ u.id \in IdsOf(old) =>
              /\ u.id \in Kept(old, new, removals)
              /\ u = Approve(MergedUnit(UnitOf(old, u.id), Theirs(old, new, u.id), edits),
                             Changed(old, new))
         /\ u.id \notin IdsOf(old) =>
              \E n \in new : n.id = u.id /\ u = Approve(n, Changed(old, new))
<1>1. PICK m \in plan.merge.merged : u = Approve(m, Changed(old, new))
  BY PlanFacts
<1>2. IsAnalysis(old) /\ IsAnalysis(new)
  BY SidesFacts
<1>3. Kept(old, new, removals) \subseteq IdsOf(old)
  BY DEF Kept, Both
<1>4. ASSUME IsUnit(m)  PROVE  IsUnit(u) /\ u.id = m.id
  BY <1>1, <1>4, WithStatusFacts DEF Approve
<1>5. CASE m \in Added(old, new)
  <2>1. IsUnit(m) /\ m \in new /\ m.id \notin IdsOf(old) /\ m.id \in IdsOf(Added(old, new))
    BY <1>2, <1>5 DEF Added, IsAnalysis, IdsOf
  <2>2. QED  BY <1>1, <1>4, <2>1
<1>6. CASE m \notin Added(old, new)
  <2>1. PICK id \in Kept(old, new, removals) :
          m = MergedUnit(UnitOf(old, id), Theirs(old, new, id), edits)
    BY <1>6, PlanFacts
  <2>2. UnitOf(old, id) \in old /\ UnitOf(old, id).id = id /\ IsUnit(UnitOf(old, id))
    BY <1>2, <1>3, <2>1, UnitOfFacts DEF IsAnalysis
  <2>3. IsUnit(m) /\ m.id = id
    BY <2>1, <2>2, MergedUnitFacts
  <2>4. QED  BY <1>1, <1>3, <1>4, <2>1, <2>3
<1>7. QED  BY <1>5, <1>6

\* In a set with one unit of an id, UnitOf is that unit.
LEMMA OnlyUnit ==
  ASSUME NEW units, IsAnalysis(units), NEW u \in units
  PROVE  UnitOf(units, u.id) = u
<1>1. u.id \in IdsOf(units)
  BY DEF IdsOf
<1>2. UnitOf(units, u.id) \in units /\ UnitOf(units, u.id).id = u.id
  BY <1>1, UnitOfFacts
<1>3. QED  BY <1>2 DEF IsAnalysis

\* The field of the only edit there is holds its value, unless that of the record
\* was the same.
LEMMA FieldMerged ==
  ASSUME LogInv, NEW o \in ActiveLog, NEW base, NEW new
  PROVE  LET k == FieldOf(o)
         IN  MergedField(k, base, new, EditsOf(ActiveLog, o.unit, k)) =
               IF SameValue(k, base, ValueOf(o)) THEN new ELSE ValueOf(o)
<1> DEFINE k == FieldOf(o)
<1>1. EditsOf(ActiveLog, o.unit, k) = {o}
  <2>1. \A p \in ActiveLog : p.unit = o.unit /\ FieldOf(p) = k => p = o
    BY ActiveLogFacts
  <2>2. QED  BY <2>1 DEF EditsOf
<1>2. (CHOOSE p \in {o} : TRUE) = o
  OBVIOUS
<1>3. QED  BY <1>1, <1>2 DEF MergedField

\* A published unit holds each edit that was applied and whose value was not in the
\* record, but for a status that the approval has changed.
LEMMA EditMerged ==
  ASSUME LogInv, NEW plan, NEW r, NEW bundle, NEW removals, NEW old, NEW new,
         IsPlan(plan, r, bundle, ActiveLog, removals, old, new),
         NEW o \in plan.merge.applied, o \notin Absorbed(plan), ~Provisional(o),
         NEW u \in Approved(plan), u.id = o.unit
  PROVE  Holds(u, o)
<1> DEFINE k == FieldOf(o)
           base == UnitOf(old, o.unit)
           m == MergedUnit(base, Theirs(old, new, o.unit), ActiveLog)
<1>1. o \in ActiveLog /\ o.unit \in Kept(old, new, removals)
  BY PlanFacts
<1>2. o.unit \in IdsOf(old)
  BY <1>1 DEF Kept, Both
<1>3. base \in old /\ base.id = o.unit
  BY <1>2, UnitOfFacts
<1>4. IsUnit(base)
  BY <1>3, SidesFacts DEF IsAnalysis
<1>5. u = Approve(m, Changed(old, new))
  BY <1>2, PublishedFacts
<1>6. k \in Fields /\ k \in Editable
  BY <1>1, ActiveLogFacts DEF Editable
<1>7. ~SameValue(k, base.f[k], ValueOf(o))
  <2>1. plan.old = old
    BY PlanFacts
  <2>2. QED  BY <1>3, <2>1 DEF Absorbed, Holds
<1>8. IsUnit(m) /\ m.f[k] = ValueOf(o)
  <2>1. /\ IsUnit(m)
        /\ m.f[k] = MergedField(k, base.f[k], Theirs(old, new, o.unit).f[k],
                                EditsOf(ActiveLog, base.id, k))
    BY <1>4, <1>6, MergedUnitFacts
  <2>2. m.f[k] = IF SameValue(k, base.f[k], ValueOf(o)) THEN Theirs(old, new, o.unit).f[k]
                 ELSE ValueOf(o)
    BY <1>1, <1>3, <2>1, FieldMerged
  <2>3. QED  BY <1>7, <2>1, <2>2
<1>9. u.f[k] = ValueOf(o)
  <2>1. CASE m.f.status \in {"candidate", "reviewed"} /\ m.id \in Changed(old, new)
    <3>1. k # "status"
      BY <1>8, <2>1 DEF Provisional
    <3>2. u = WithStatus(m, "approved")
      BY <1>5, <2>1 DEF Approve
    <3>3. QED  BY <1>6, <1>8, <3>1, <3>2, WithStatusFacts
  <2>2. CASE ~(m.f.status \in {"candidate", "reviewed"} /\ m.id \in Changed(old, new))
    BY <1>5, <1>8, <2>2 DEF Approve
  <2>3. QED  BY <2>1, <2>2
<1>10. QED  BY <1>9 DEF Holds, SameValue

-----------------------------------------------------------------------------
(* The records of an update.                                                  *)

\* What an update that may publish is about, and the records it appends.
Publishes(plan, r, bundle, edits, removals, old, new, units, pending) ==
  /\ IsPlan(plan, r, bundle, edits, removals, old, new)
  /\ \A i \in DOMAIN r : r[i].f.status \in {"approved", "superseded"}
  /\ units = Approved(plan) /\ EnsurePublishable(units, Unresolved(plan, {}))
  /\ pending = PendingRecords(plan, units)

\* Every unit that is kept or added is published, once.
LEMMA UnitsFacts ==
  ASSUME NEW plan, NEW r, NEW bundle, NEW edits, NEW removals, NEW old, NEW new,
         NEW units, NEW pending,
         Publishes(plan, r, bundle, edits, removals, old, new, units, pending)
  PROVE  /\ IsAnalysis(units)
         /\ \A u \in units : u.f.status = "approved"
         /\ IdsOf(units) = Kept(old, new, removals) \cup IdsOf(Added(old, new))
<1>1. IsPlan(plan, r, bundle, edits, removals, old, new) /\ units = Approved(plan)
  BY DEF Publishes
<1>2. /\ \A u, v \in units : u.id = v.id => u = v
      /\ \A u \in units : u.f.status = "approved"
  BY DEF Publishes, EnsurePublishable
<1>3. \A u \in units : IsUnit(u) /\ u.id \in Kept(old, new, removals) \cup IdsOf(Added(old, new))
  BY <1>1, PublishedFacts
<1>4. IsAnalysis(old) /\ IsAnalysis(new)
  BY <1>1, SidesFacts
<1> DEFINE Merged(id) == MergedUnit(UnitOf(old, id), Theirs(old, new, id), edits)
           merged == {Merged(id) : id \in Kept(old, new, removals)} \cup Added(old, new)
           ids == Changed(old, new)
<1>5. units = {Approve(m, ids) : m \in merged}
  BY <1>1, PlanFacts
<1>6. ASSUME NEW m, IsUnit(m)  PROVE  Approve(m, ids).id = m.id
  BY <1>6, WithStatusFacts DEF Approve
<1>7. ASSUME NEW id \in Kept(old, new, removals)  PROVE  id \in IdsOf(units)
  <2>1. id \in IdsOf(old)
    BY <1>7 DEF Kept, Both
  <2>2. UnitOf(old, id) \in old /\ UnitOf(old, id).id = id
    BY <2>1, UnitOfFacts
  <2>3. IsUnit(Merged(id)) /\ Merged(id).id = id
    BY <2>2, <1>4, MergedUnitFacts DEF IsAnalysis
  <2>4. Approve(Merged(id), ids) \in units
    BY <1>5
  <2>5. QED  BY <1>6, <2>3, <2>4 DEF IdsOf
<1>8. ASSUME NEW id \in IdsOf(Added(old, new))  PROVE  id \in IdsOf(units)
  <2>1. PICK m \in Added(old, new) : m.id = id
    BY DEF IdsOf
  <2>2. IsUnit(m) /\ Approve(m, ids) \in units
    BY <1>4, <1>5, <2>1 DEF Added, IsAnalysis
  <2>3. QED  BY <1>6, <2>1, <2>2 DEF IdsOf
<1>9. IsFiniteSet(units)
  <2> DEFINE h == [u \in old |-> u.id]
  <2>1. IdsOf(old) \subseteq {h[u] : u \in old}
    BY DEF IdsOf
  <2>2. IsFiniteSet(IdsOf(old))
    <3>1. IsFiniteSet(old)
      BY <1>4 DEF IsAnalysis
    <3> HIDE DEF h
    <3>2. QED  BY <3>1, <2>1, ImageFinite
  <2>3. IsFiniteSet(Kept(old, new, removals))
    BY <2>2, FS_Subset DEF Kept, Both
  <2> DEFINE f == [id \in Kept(old, new, removals) |-> Merged(id)]
             g == [m \in merged |-> Approve(m, ids)]
  <2>4. {Merged(id) : id \in Kept(old, new, removals)} \subseteq
          {f[id] : id \in Kept(old, new, removals)}
    OBVIOUS
  <2>5. IsFiniteSet({Merged(id) : id \in Kept(old, new, removals)})
    <3> HIDE DEF f, Merged
    <3>1. QED  BY <2>3, <2>4, ImageFinite
  <2>6. IsFiniteSet(Added(old, new))
    BY <1>4, FS_Subset DEF IsAnalysis, Added
  <2>7. IsFiniteSet(merged)
    BY <2>5, <2>6, FS_Union
  <2>8. units \subseteq {g[m] : m \in merged}
    BY <1>5
  <2>9. QED
    <3> HIDE DEF g, merged
    <3>1. QED  BY <2>7, <2>8, ImageFinite
<1>10. IsAnalysis(units)
  BY <1>2, <1>3, <1>9 DEF IsAnalysis
<1>11. IdsOf(units) = Kept(old, new, removals) \cup IdsOf(Added(old, new))
  BY <1>3, <1>7, <1>8 DEF IdsOf
<1>12. QED  BY <1>2, <1>10, <1>11

\* The three kinds of records an update appends.
IsNew(p, old, new, units) == p \in units /\ p.id \in IdsOf(Added(old, new))
IsRenewed(p, old, new, units) ==
  /\ p.id \in Drifted(old, new)
  /\ p.version = UnitOf(old, p.id).version + 1
  /\ \E v \in units : v.id = p.id /\ v.f = p.f
IsDeprecated(p, old, new) ==
  /\ p.id \in IdsOf(Gone(old, new))
  /\ p.version = UnitOf(old, p.id).version + 1
  /\ p.f.status = "superseded"

\* The records that are appended: one of every unit that is new, changed or gone.
Batch(pending, removals, old, new, units) ==
  /\ IsFiniteSet(pending)
  /\ \A p \in pending : IsUnit(p) /\ p.f.status \in {"approved", "superseded"}
  /\ \A p \in pending : \/ IsNew(p, old, new, units)
                        \/ IsRenewed(p, old, new, units)
                        \/ removals /\ IsDeprecated(p, old, new)
  /\ \A p, q \in pending : p.id = q.id => p = q
  /\ \A v \in units : v.id \in IdsOf(Added(old, new)) => v \in pending
  /\ \A v \in units : v.id \in Drifted(old, new) =>
       \E p \in pending : p.id = v.id /\ IsRenewed(p, old, new, units)
  /\ removals => \A u \in Gone(old, new) :
       \E p \in pending : p.id = u.id /\ IsDeprecated(p, old, new)

\* The records of an update are of these kinds.
LEMMA PendingFacts ==
  ASSUME NEW plan, NEW r, NEW bundle, NEW edits, NEW removals, NEW old, NEW new,
         NEW units, NEW pending,
         Publishes(plan, r, bundle, edits, removals, old, new, units, pending)
  PROVE  Batch(pending, removals, old, new, units)
<1> DEFINE fresh == {u \in units : u.id \in IdsOf(Added(old, new))}
           next == {u \in units : u.id \in Drifted(old, new)}
           gone == IF removals THEN Gone(old, new) ELSE {}
           Renew(v) == Supersession(UnitOf(old, v.id), v)
           Deprecate(u) == Supersession(u, WithStatus(u, "superseded"))
<1>1. /\ IsPlan(plan, r, bundle, edits, removals, old, new)
      /\ pending = PendingRecords(plan, units)
  BY DEF Publishes
<1>2. pending = fresh \cup {Renew(v) : v \in next} \cup {Deprecate(u) : u \in gone}
  <2>1. /\ plan.old = old /\ plan.diff.added = Added(old, new)
        /\ plan.diff.modified = Drifted(old, new) /\ plan.diff.removed = gone
    BY <1>1, PlanFacts
  <2>2. QED  BY <1>1, <2>1 DEF PendingRecords, WithStatus
<1>3. /\ IsAnalysis(units) /\ \A u \in units : u.f.status = "approved"
      /\ IsAnalysis(old)
  BY <1>1, UnitsFacts, SidesFacts
<1>4. ASSUME NEW id \in IdsOf(old)
      PROVE  UnitOf(old, id) \in old /\ UnitOf(old, id).id = id /\ IsUnit(UnitOf(old, id))
  BY <1>3, <1>4, UnitOfFacts DEF IsAnalysis
<1>5. ASSUME NEW v \in next
      PROVE  /\ IsUnit(Renew(v)) /\ Renew(v).id = v.id /\ Renew(v).f.status = "approved"
             /\ IsRenewed(Renew(v), old, new, units)
  <2>1. v \in units /\ IsUnit(v) /\ v.id \in IdsOf(old) /\ v.id \in Drifted(old, new)
        /\ v.f.status = "approved"
    BY <1>3 DEF IsAnalysis, Drifted, Both
  <2>2. UnitOf(old, v.id) \in old /\ UnitOf(old, v.id).id = v.id /\ IsUnit(UnitOf(old, v.id))
    BY <1>4, <2>1
  <2>3. /\ IsUnit(Renew(v)) /\ Renew(v).id = v.id /\ Renew(v).f = v.f
        /\ Renew(v).version = UnitOf(old, v.id).version + 1
    BY <2>1, <2>2, SupersessionFacts
  <2>4. QED  BY <2>1, <2>3 DEF IsRenewed
<1>6. ASSUME NEW u \in gone
      PROVE  /\ removals /\ u \in Gone(old, new)
             /\ IsUnit(Deprecate(u)) /\ Deprecate(u).id = u.id
             /\ Deprecate(u).f.status = "superseded"
             /\ IsDeprecated(Deprecate(u), old, new)
  <2>1. removals /\ u \in Gone(old, new) /\ u \in old
    BY DEF Gone
  <2>2. IsUnit(u) /\ UnitOf(old, u.id) = u
    BY <1>3, <2>1, OnlyUnit DEF IsAnalysis
  <2>3. IsUnit(WithStatus(u, "superseded")) /\ WithStatus(u, "superseded").f.status = "superseded"
    BY <2>2, WithStatusFacts
  <2>4. /\ IsUnit(Deprecate(u)) /\ Deprecate(u).id = u.id
        /\ Deprecate(u).f.status = "superseded" /\ Deprecate(u).version = u.version + 1
    BY <2>2, <2>3, SupersessionFacts
  <2>5. u.id \in IdsOf(Gone(old, new))
    BY <2>1 DEF IdsOf
  <2>6. QED  BY <2>1, <2>2, <2>4, <2>5 DEF IsDeprecated
<1>7. /\ \A id \in IdsOf(Added(old, new)) : id \notin IdsOf(old)
      /\ \A id \in Drifted(old, new) : id \in IdsOf(old) /\ id \in IdsOf(new)
      /\ \A id \in IdsOf(Gone(old, new)) : id \in IdsOf(old) /\ id \notin IdsOf(new)
  BY DEF IdsOf, Added, Drifted, Gone, Both
<1>8. IsFiniteSet(pending)
  <2> DEFINE g == [v \in next |-> Renew(v)]
             h == [u \in gone |-> Deprecate(u)]
             R == {Renew(v) : v \in next}
             D == {Deprecate(u) : u \in gone}
  <2>1. IsFiniteSet(fresh) /\ IsFiniteSet(next)
    BY <1>3, FS_Subset DEF IsAnalysis
  <2>2. IsFiniteSet(gone)
    <3>1. gone \subseteq old
      BY DEF Gone
    <3>2. QED  BY <1>3, <3>1, FS_Subset DEF IsAnalysis
  <2>3. R \subseteq {g[v] : v \in next} /\ D \subseteq {h[u] : u \in gone}
    OBVIOUS
  <2>4. IsFiniteSet(R)
    <3> HIDE DEF g, R, next
    <3>1. QED  BY <2>1, <2>3, ImageFinite
  <2>5. IsFiniteSet(D)
    <3> HIDE DEF h, D, gone
    <3>1. QED  BY <2>2, <2>3, ImageFinite
  <2>6. pending = (fresh \cup R) \cup D
    BY <1>2
  <2> HIDE DEF R, D, fresh
  <2>7. QED  BY <2>1, <2>4, <2>5, <2>6, FS_Union
<1> HIDE DEF Renew, Deprecate, next, gone
<1>9. ASSUME NEW p \in pending
      PROVE  \/ p \in fresh
             \/ \E v \in next : p = Renew(v)
             \/ \E u \in gone : p = Deprecate(u)
  BY <1>2
<1>10. ASSUME NEW p \in fresh  PROVE  IsUnit(p) /\ p.f.status = "approved"
                                      /\ IsNew(p, old, new, units)
  BY <1>3 DEF IsAnalysis, IsNew
<1>11. \A p \in pending : IsUnit(p) /\ p.f.status \in {"approved", "superseded"}
  BY <1>5, <1>6, <1>9, <1>10
<1>12. \A p \in pending : \/ IsNew(p, old, new, units)
                          \/ IsRenewed(p, old, new, units)
                          \/ removals /\ IsDeprecated(p, old, new)
  BY <1>5, <1>6, <1>9, <1>10
<1>13. ASSUME NEW p \in pending, NEW q \in pending, p.id = q.id  PROVE  p = q
  <2>1. \A v, w \in units : v.id = w.id => v = w
    BY <1>3 DEF IsAnalysis
  <2>2. ASSUME NEW x \in pending
        PROVE  /\ x \in fresh => x.id \notin IdsOf(old) /\ x \in units
               /\ \A v \in next : x = Renew(v) =>
                    x.id = v.id /\ x.id \in IdsOf(old) /\ x.id \in IdsOf(new) /\ v \in units
               /\ \A u \in gone : x = Deprecate(u) =>
                    x.id = u.id /\ x.id \in IdsOf(old) /\ x.id \notin IdsOf(new) /\ u \in old
    <3>1. x \in fresh => x.id \notin IdsOf(old) /\ x \in units
      BY <1>7
    <3>2. \A v \in next : v \in units /\ v.id \in Drifted(old, new)
      BY DEF next
    <3>3. \A u \in gone : u \in old /\ u.id \in IdsOf(Gone(old, new))
      BY DEF gone, Gone, IdsOf
    <3>4. QED  BY <1>5, <1>6, <1>7, <3>1, <3>2, <3>3
  <2>3. \A u, w \in old : u.id = w.id => u = w
    BY <1>3 DEF IsAnalysis
  <2>4. CASE p \in fresh
    <3>1. q \in fresh
      BY <1>9, <1>13, <2>2, <2>4
    <3>2. QED  BY <1>13, <2>1, <2>2, <2>4, <3>1
  <2>5. CASE \E v \in next : p = Renew(v)
    <3>1. PICK v \in next : p = Renew(v)
      BY <2>5
    <3>2. PICK w \in next : q = Renew(w)
      BY <1>9, <1>13, <2>2, <3>1
    <3>3. v = w
      BY <1>13, <2>1, <2>2, <3>1, <3>2
    <3>4. QED  BY <3>1, <3>2, <3>3
  <2>6. CASE \E u \in gone : p = Deprecate(u)
    <3>1. PICK u \in gone : p = Deprecate(u)
      BY <2>6
    <3>2. PICK w \in gone : q = Deprecate(w)
      BY <1>9, <1>13, <2>2, <3>1
    <3>3. u = w
      BY <1>13, <2>2, <2>3, <3>1, <3>2
    <3>4. QED  BY <3>1, <3>2, <3>3
  <2>7. QED  BY <1>9, <2>4, <2>5, <2>6
<1>14. \A v \in units : v.id \in IdsOf(Added(old, new)) => v \in pending
  BY <1>2
<1>15. ASSUME NEW v \in units, v.id \in Drifted(old, new)
       PROVE  \E p \in pending : p.id = v.id /\ IsRenewed(p, old, new, units)
  <2>1. v \in next
    BY <1>15 DEF next
  <2>2. Renew(v) \in pending
    BY <1>2, <2>1
  <2>3. QED  BY <1>5, <2>1, <2>2
<1>16. ASSUME removals, NEW u \in Gone(old, new)
       PROVE  \E p \in pending : p.id = u.id /\ IsDeprecated(p, old, new)
  <2>1. u \in gone
    BY <1>16 DEF gone
  <2>2. Deprecate(u) \in pending
    BY <1>2, <2>1
  <2>3. QED  BY <1>6, <2>1, <2>2
<1>17. QED  BY <1>8, <1>11, <1>12, <1>13, <1>14, <1>15, <1>16 DEF Batch

\* The records and their active view once an update has published.
After(a, r, removals, old, new, units) ==
  /\ IsFile(a)
  /\ \A i \in DOMAIN a : a[i].f.status \in {"approved", "superseded"}
  /\ \A u \in old : u.id \notin Drifted(old, new) /\ (removals => u.id \in IdsOf(new))
                      => u \in Active(a)
  /\ \A v \in units : v.id \in Drifted(old, new)
                        => \E w \in Active(a) : w.id = v.id /\ w.f = v.f
  /\ \A v \in units : /\ v.id \in IdsOf(Added(old, new))
                      /\ \A i \in DOMAIN r : r[i].id # v.id
                      => v \in Active(a)
  /\ removals => \A w \in Active(a) : w.id \in IdsOf(new)

\* The active view has the published units, but for what other records say of them.
LEMMA AfterFacts ==
  ASSUME NEW plan, NEW r, NEW bundle, NEW edits, NEW removals, NEW old, NEW new,
         NEW units, NEW pending,
         Publishes(plan, r, bundle, edits, removals, old, new, units, pending)
  PROVE  After(Appended(r, pending), r, removals, old, new, units)
<1> DEFINE a == Appended(r, pending)
<1>1. /\ IsPlan(plan, r, bundle, edits, removals, old, new) /\ IsFile(r)
      /\ \A i \in DOMAIN r : r[i].f.status \in {"approved", "superseded"}
  BY DEF Publishes, IsPlan
<1>2. Batch(pending, removals, old, new, units)
  BY PendingFacts
<1>3. /\ IsFiniteSet(pending) /\ \A p \in pending : IsUnit(p)
      /\ \A p \in pending : p.f.status \in {"approved", "superseded"}
      /\ \A p, q \in pending : p.id = q.id => p = q
  BY <1>2 DEF Batch
<1>4. \A p \in pending : \/ IsNew(p, old, new, units)
                         \/ IsRenewed(p, old, new, units)
                         \/ removals /\ IsDeprecated(p, old, new)
  BY <1>2 DEF Batch
<1>5. /\ IsFile(a)
      /\ \A u \in Current(r) : (\A p \in pending : p.id # u.id) => u \in Current(a)
      /\ \A p \in pending : /\ \A i \in DOMAIN r : r[i].id = p.id => r[i].version < p.version
                            /\ \A q \in pending : q.id = p.id => q = p
                            => p \in Current(a)
      /\ \A u \in Current(a) :
           \/ u \in pending
           \/ u \in Current(r) /\ \A p \in pending : p.id = u.id => p.version <= u.version
  BY <1>1, <1>3, CurrentAfter
<1>6. Follows(a, r, pending)
  <2>1. r \in Seq(Range(r))
    BY <1>1 DEF IsFile
  <2>2. QED  BY <1>3, <2>1, AppendedFacts
<1>7. /\ IsAnalysis(old) /\ IsAnalysis(units)
      /\ \A u \in units : u.f.status = "approved"
      /\ \A u \in old : u \in Current(r) /\ u.f.status \notin Inactive
      /\ \A u \in Current(r) : u.f.status \notin Inactive => u \in old
  BY <1>1, SidesFacts, UnitsFacts
<1>8. \A u \in Current(a) : u.f.status \notin Inactive => u \in Active(a)
  BY DEF Active
<1>9. "approved" \notin Inactive /\ "superseded" \in Inactive
  BY DEF Inactive
<1>10. /\ \A id \in IdsOf(Added(old, new)) : id \notin IdsOf(old) /\ id \in IdsOf(new)
       /\ \A id \in Drifted(old, new) : id \in IdsOf(old) /\ id \in IdsOf(new)
       /\ \A id \in IdsOf(Gone(old, new)) : id \in IdsOf(old) /\ id \notin IdsOf(new)
       /\ \A u \in old : u.id \in IdsOf(old) /\ (u.id \notin IdsOf(new) => u \in Gone(old, new))
  BY DEF IdsOf, Added, Drifted, Gone, Both
<1> HIDE DEF a
<1>11. \A i \in DOMAIN a : a[i].f.status \in {"approved", "superseded"}
  BY <1>1, <1>3, <1>6 DEF Follows
<1>12. ASSUME NEW u \in old, u.id \notin Drifted(old, new), removals => u.id \in IdsOf(new)
       PROVE  u \in Active(a)
  <2>1. \A p \in pending : p.id # u.id
    BY <1>4, <1>10, <1>12 DEF IsNew, IsRenewed, IsDeprecated
  <2>2. QED  BY <1>5, <1>7, <1>8, <2>1
<1>13. ASSUME NEW p \in pending, IsRenewed(p, old, new, units)
       PROVE  p \in Current(a)
  <2>1. UnitOf(old, p.id) \in old /\ UnitOf(old, p.id).id = p.id
    BY <1>10, <1>13, UnitOfFacts DEF IsRenewed
  <2>2. UnitOf(old, p.id).version \in Nat /\ UnitOf(old, p.id) \in Current(r)
    BY <1>7, <2>1 DEF IsAnalysis, IsUnit
  <2>3. \A i \in DOMAIN r : r[i].id = p.id => r[i].version <= UnitOf(old, p.id).version
    BY <1>1, <2>1, <2>2, CurrentFacts
  <2>4. \A i \in DOMAIN r : r[i].version \in Nat
    BY <1>1 DEF IsFile, IsUnit
  <2>5. p.version = UnitOf(old, p.id).version + 1
    BY <1>13 DEF IsRenewed
  <2>6. \A i \in DOMAIN r : r[i].id = p.id => r[i].version < p.version
    BY <2>2, <2>3, <2>4, <2>5
  <2>7. QED  BY <1>3, <1>5, <2>6
<1>14. ASSUME NEW v \in units, v.id \in Drifted(old, new)
       PROVE  \E w \in Active(a) : w.id = v.id /\ w.f = v.f
  <2>1. PICK p \in pending : p.id = v.id /\ IsRenewed(p, old, new, units)
    BY <1>2, <1>14 DEF Batch
  <2>2. PICK x \in units : x.id = p.id /\ x.f = p.f
    BY <2>1 DEF IsRenewed
  <2>3. x = v
    BY <1>7, <2>1, <2>2 DEF IsAnalysis
  <2>4. p \in Active(a)
    BY <1>7, <1>8, <1>9, <1>13, <2>1, <2>2
  <2>5. QED  BY <2>1, <2>2, <2>3, <2>4
<1>15. ASSUME NEW v \in units, v.id \in IdsOf(Added(old, new)),
              \A i \in DOMAIN r : r[i].id # v.id
       PROVE  v \in Active(a)
  <2>1. v \in pending
    BY <1>2, <1>15 DEF Batch
  <2>2. v \in Current(a)
    BY <1>3, <1>5, <1>15, <2>1
  <2>3. QED  BY <1>7, <1>8, <1>9, <2>2
<1>16. ASSUME removals, NEW w \in Active(a)
       PROVE  w.id \in IdsOf(new)
  <2>1. w \in Current(a) /\ w.f.status \notin Inactive
    BY DEF Active
  <2>2. CASE w \in pending
    BY <1>4, <1>9, <1>10, <2>1, <2>2 DEF IsNew, IsRenewed, IsDeprecated
  <2>3. CASE w \notin pending
    <3>1. w \in old /\ \A p \in pending : p.id = w.id => p.version <= w.version
      BY <1>5, <1>7, <2>1, <2>3
    <3>2. SUFFICES ASSUME w.id \notin IdsOf(new)  PROVE  FALSE
      OBVIOUS
    <3>3. PICK p \in pending : p.id = w.id /\ IsDeprecated(p, old, new)
      BY <1>2, <1>10, <1>16, <3>1, <3>2 DEF Batch
    <3>4. UnitOf(old, w.id) = w /\ w.version \in Nat
      BY <1>7, <3>1, OnlyUnit DEF IsAnalysis, IsUnit
    <3>5. p.version = w.version + 1
      BY <3>3, <3>4 DEF IsDeprecated
    <3>6. QED  BY <3>1, <3>3, <3>4, <3>5
  <2>4. QED  BY <2>2, <2>3
<1>17. After(a, r, removals, old, new, units)
  BY <1>5, <1>11, <1>12, <1>14, <1>15, <1>16 DEF After
<1>18. QED  BY <1>17 DEF a

-----------------------------------------------------------------------------
(* The same update once more.                                                 *)

\* A unit as the analysis states it again is the published one: the merge took
\* each field from the analysis unless an edit of it is now in the record.
LEMMA StatedAgain ==
  ASSUME LogInv, NEW plan, NEW r, NEW bundle, NEW removals, NEW old, NEW new,
         NEW units, NEW pending,
         Publishes(plan, r, bundle, ActiveLog, removals, old, new, units, pending),
         NEW c \in bundle, c.f.status # "reviewed",
         NEW v \in units, v.id = c.id,
         c.id \in Drifted(old, new) \/ c.id \notin IdsOf(old),
         \A o \in ActiveLog : o.unit = v.id => ~Holds(v, o)
  PROVE  /\ \A k \in Fields \ {"status"} : v.f[k] = FromCandidate(c).f[k]
         /\ FromCandidate(c).f.status \in {"candidate", "approved"}
<1> DEFINE id == c.id
           given == FromCandidate(c)
           n == Offer(c, old)
           ids == Changed(old, new)
<1>1. /\ IsPlan(plan, r, bundle, ActiveLog, removals, old, new)
      /\ IsAnalysis(bundle) /\ new = Offers(bundle, old) /\ old = Active(r)
      /\ \A i \in DOMAIN r : r[i].f.status \in {"approved", "superseded"}
      /\ v \in Approved(plan)
  BY DEF Publishes, IsPlan
<1>2. IsUnit(c)
  BY <1>1 DEF IsAnalysis
<1>3. /\ given.f.status \in Statuses
      /\ given.f.status = "candidate" \/ given.f.status = c.f.status
  BY <1>2, FromCandidateFacts
<1>4. /\ IsUnit(n) /\ n.id = id
      /\ \A k \in Fields \ {"status"} : n.f[k] = given.f[k]
      /\ n.f.status = IF given.f.status = "candidate" /\ id \in IdsOf(old)
                      THEN UnitOf(old, id).f.status ELSE given.f.status
  BY <1>2, OfferFacts
<1>5. UnitOf(new, id) = n /\ n \in new /\ IsAnalysis(old) /\ IsAnalysis(new)
  <2>1. IsAnalysis(new) /\ \A x \in bundle : UnitOf(new, x.id) = Offer(x, old)
    <3>1. IsAnalysis(bundle) /\ new = Offers(bundle, old)
      BY <1>1
    <3>2. QED  BY <3>1, OffersFacts
  <2>2. n \in new
    BY <1>1 DEF Offers
  <2>3. QED  BY <1>1, <2>1, <2>2, SidesFacts
<1>6. v.f.status = "approved"
  BY UnitsFacts
<1> HIDE DEF n, given
<1>7. CASE c.id \notin IdsOf(old)
  <2>1. PICK m \in new : m.id = v.id /\ v = Approve(m, ids)
    BY <1>1, <1>7, PublishedFacts
  <2>2. m = n
    BY <1>4, <1>5, <2>1 DEF IsAnalysis
  <2>3. n.f.status = given.f.status
    BY <1>4, <1>7
  <2>4. CASE v = n
    BY <1>3, <1>4, <1>6, <2>3, <2>4 DEF given
  <2>5. CASE v # n
    <3>1. n.f.status \in {"candidate", "reviewed"} /\ v = WithStatus(n, "approved")
      BY <2>1, <2>2, <2>5 DEF Approve
    <3>2. \A k \in Fields \ {"status"} : v.f[k] = n.f[k]
      BY <1>4, <3>1, WithStatusFacts
    <3>3. given.f.status = "candidate"
      BY <1>3, <2>3, <3>1
    <3>4. QED  BY <1>4, <3>2, <3>3 DEF given
  <2>6. QED  BY <2>4, <2>5
<1>8. CASE c.id \in Drifted(old, new)
  <2> DEFINE base == UnitOf(old, id)
             m == MergedUnit(base, n, ActiveLog)
  <2>1. id \in IdsOf(old) /\ id \in Both(old, new)
    BY <1>8 DEF Drifted, Both
  <2>2. base \in old /\ base.id = id /\ IsUnit(base)
    BY <1>5, <2>1, UnitOfFacts DEF IsAnalysis
  <2>3. base.f.status = "approved"
    <3>1. base \in Current(r) /\ base.f.status \notin Inactive
      BY <1>1, <2>2 DEF Active
    <3>2. \E i \in DOMAIN r : base = r[i]
      BY <3>1 DEF Current
    <3>3. QED  BY <1>1, <3>1, <3>2 DEF Inactive
  <2>4. Theirs(old, new, id) = n
    BY <1>5, <2>1 DEF Theirs
  <2>5. v = Approve(m, ids) /\ id \in Kept(old, new, removals)
    BY <1>1, <2>1, <2>4, PublishedFacts
  <2>6. /\ IsUnit(m) /\ m.id = id
        /\ \A k \in Fields :
             m.f[k] = MergedField(k, base.f[k], n.f[k], EditsOf(ActiveLog, id, k))
    <3> HIDE DEF base
    <3>1. QED  BY <2>2, MergedUnitFacts
  <2>7. id \in ids
    BY <1>8 DEF Changed
  <2> HIDE DEF m, base
  <2>8. \A k \in Fields \ {"status"} : v.f[k] = m.f[k]
    BY <2>5, <2>6, WithStatusFacts DEF Approve
  <2>9. m.f.status \in {"candidate", "reviewed", "approved"}
    BY <1>6, <2>5 DEF Approve
  <2>10. ASSUME NEW o \in ActiveLog, o.unit = id
         PROVE  LET k == FieldOf(o)
                IN  /\ k \in Fields
                    /\ m.f[k] = IF SameValue(k, base.f[k], ValueOf(o)) THEN n.f[k]
                                ELSE ValueOf(o)
    <3>1. FieldOf(o) \in Fields
      BY ActiveLogFacts, <2>10 DEF Editable
    <3>2. MergedField(FieldOf(o), base.f[FieldOf(o)], n.f[FieldOf(o)],
                      EditsOf(ActiveLog, o.unit, FieldOf(o))) =
            IF SameValue(FieldOf(o), base.f[FieldOf(o)], ValueOf(o)) THEN n.f[FieldOf(o)]
            ELSE ValueOf(o)
      BY <2>10, FieldMerged
    <3>3. QED  BY <2>6, <2>10, <3>1, <3>2
  <2>11. ASSUME NEW k \in Fields, EditsOf(ActiveLog, id, k) = {}  PROVE  m.f[k] = n.f[k]
    BY <2>6, <2>11 DEF MergedField
  <2>12. ASSUME NEW k \in Fields \ {"status"}  PROVE  v.f[k] = given.f[k]
    <3>1. m.f[k] = n.f[k]
      <4>1. CASE EditsOf(ActiveLog, id, k) = {}
        BY <2>11, <4>1
      <4>2. CASE EditsOf(ActiveLog, id, k) # {}
        <5>1. PICK o \in ActiveLog : o.unit = id /\ FieldOf(o) = k
          BY <4>2 DEF EditsOf
        <5>2. v.f[k] # ValueOf(o)
          BY <5>1 DEF Holds, SameValue
        <5>3. QED  BY <2>8, <2>10, <2>12, <5>1, <5>2
      <4>3. QED  BY <4>1, <4>2
    <3>2. QED  BY <1>4, <2>8, <2>12, <3>1
  <2>13. ASSUME given.f.status # "candidate"  PROVE  given.f.status = "approved"
    <3>1. n.f.status = given.f.status /\ given.f.status # "reviewed"
      BY <1>3, <1>4, <2>13
    <3>2. "status" \in Fields
      BY DEF Fields
    <3>3. CASE m.f.status = n.f.status
      BY <2>9, <2>13, <3>1, <3>3
    <3>4. CASE m.f.status # n.f.status
      <4>1. PICK o \in ActiveLog : o.unit = id /\ FieldOf(o) = "status"
        BY <2>11, <3>2, <3>4 DEF EditsOf
      <4>2. m.f.status = ValueOf(o) /\ base.f.status # ValueOf(o)
        BY <2>10, <3>4, <4>1 DEF SameValue, TextLists
      <4>3. o \notin Contradicted(base, n, ActiveLog)
        <5>1. plan.merge.conflicts = {}
          BY DEF Publishes, EnsurePublishable, Unresolved
        <5>2. Contradicted(base, n, ActiveLog) \subseteq plan.merge.conflicts
          <6>1. plan.merge.conflicts =
                  UNION {Contradicted(UnitOf(old, x), Theirs(old, new, x), ActiveLog) :
                           x \in Kept(old, new, removals)}
            BY <1>1, PlanFacts
          <6>2. QED  BY <2>4, <2>5, <6>1 DEF base
        <5>3. QED  BY <5>1, <5>2
      <4>4. ~BothChanged("status", base.f.status, n.f.status, ValueOf(o))
        BY <2>2, <4>1, <4>3 DEF Contradicted
      <4>5. base.f.status = n.f.status
        BY <3>4, <4>2, <4>4 DEF BothChanged, SameValue, TextLists
      <4>6. QED  BY <2>3, <3>1, <4>5
    <3>5. QED  BY <3>3, <3>4
  <2>14. \A k \in Fields \ {"status"} : v.f[k] = given.f[k]
    BY <2>12
  <2>15. QED  BY <2>13, <2>14 DEF given
<1>9. QED  BY <1>7, <1>8

\* A comparison that finds nothing to add, change or deprecate.
NoDrift(diff) == diff.added = {} /\ diff.modified = {} /\ diff.removed = {}

\* No drift is found by an update that repeats one that was published.
LEMMA AgainNoDrift ==
  ASSUME LogInv, NEW plan, NEW r, NEW bundle, NEW removals, NEW old, NEW new,
         NEW units, NEW pending,
         Publishes(plan, r, bundle, ActiveLog, removals, old, new, units, pending),
         \A c \in bundle : c.f.status # "reviewed",
         \A u \in Added(old, new) : \A i \in DOMAIN r : r[i].id # u.id,
         NEW a, a = Appended(r, pending),
         \A o \in ActiveLog, u \in Active(a) : u.id = o.unit => ~Holds(u, o)
  PROVE  NoDrift(Plan(a, bundle, ActiveLog, removals).diff)
<1> DEFINE now == Active(a)
           offers == Offers(bundle, now)
           again == Plan(a, bundle, ActiveLog, removals)
<1>1. /\ IsPlan(plan, r, bundle, ActiveLog, removals, old, new)
      /\ IsAnalysis(bundle) /\ removals \in BOOLEAN
      /\ new = Offers(bundle, old) /\ old = Active(r)
      /\ \A i \in DOMAIN r : r[i].f.status \in {"approved", "superseded"}
  BY DEF Publishes, IsPlan
<1>2. After(a, r, removals, old, new, units)
  BY AfterFacts
<1>3. /\ IsFile(a)
      /\ \A i \in DOMAIN a : a[i].f.status \in {"approved", "superseded"}
      /\ \A u \in old : u.id \notin Drifted(old, new) /\ (removals => u.id \in IdsOf(new))
                          => u \in now
      /\ \A v \in units : v.id \in Drifted(old, new)
                            => \E w \in now : w.id = v.id /\ w.f = v.f
      /\ \A v \in units : /\ v.id \in IdsOf(Added(old, new))
                          /\ \A i \in DOMAIN r : r[i].id # v.id
                          => v \in now
      /\ removals => \A w \in now : w.id \in IdsOf(new)
  BY <1>2 DEF After
<1>4. IsPlan(again, a, bundle, ActiveLog, removals, now, offers)
  BY <1>1, <1>3 DEF IsPlan
<1>5. /\ again.diff.added = Added(now, offers)
      /\ again.diff.modified = Drifted(now, offers)
      /\ again.diff.removed = IF removals THEN Gone(now, offers) ELSE {}
  BY <1>4, PlanFacts
<1>6. /\ IsAnalysis(old) /\ IsAnalysis(new) /\ IsAnalysis(now) /\ IsAnalysis(offers)
      /\ IdsOf(new) = IdsOf(bundle) /\ IdsOf(offers) = IdsOf(bundle)
  BY <1>1, <1>4, SidesFacts
<1>7. /\ IsAnalysis(units)
      /\ IdsOf(units) = Kept(old, new, removals) \cup IdsOf(Added(old, new))
  BY UnitsFacts
<1>8. ASSUME NEW id \in IdsOf(Added(old, new))  PROVE  \A i \in DOMAIN r : r[i].id # id
  BY <1>8 DEF IdsOf
<1> HIDE DEF now, offers, again
<1>9. \A c \in bundle : /\ UnitOf(new, c.id) = Offer(c, old)
                        /\ UnitOf(offers, c.id) = Offer(c, now)
  <2>1. \A c \in bundle : UnitOf(new, c.id) = Offer(c, old)
    BY <1>1, OffersFacts
  <2>2. offers = Offers(bundle, now)
    BY DEF offers
  <2>3. QED  BY <1>1, <2>1, <2>2, OffersFacts
\* A unit of the analysis is in the active view, as the record it already was or as
\* the published one.
<1>10. ASSUME NEW c \in bundle
       PROVE  \E w \in now :
                /\ w.id = c.id
                /\ \/ w \in old /\ c.id \notin Drifted(old, new) /\ c.id \in Both(old, new)
                   \/ \E v \in units :
                        /\ v.id = c.id /\ v.f = w.f
                        /\ c.id \in Drifted(old, new) \/ c.id \notin IdsOf(old)
  <2>1. c.id \in IdsOf(new)
    BY <1>6 DEF IdsOf
  <2>2. CASE c.id \in IdsOf(old) /\ c.id \notin Drifted(old, new)
    <3>1. UnitOf(old, c.id) \in old /\ UnitOf(old, c.id).id = c.id
      BY <2>2, UnitOfFacts
    <3>2. UnitOf(old, c.id) \in now
      BY <1>3, <2>1, <2>2, <3>1
    <3>3. QED  BY <2>1, <2>2, <3>1, <3>2 DEF Both
  <2>3. CASE c.id \in Drifted(old, new)
    <3>1. c.id \in IdsOf(units)
      BY <1>7, <2>3 DEF Kept, Drifted
    <3>2. PICK v \in units : v.id = c.id
      BY <3>1 DEF IdsOf
    <3>3. PICK w \in now : w.id = v.id /\ w.f = v.f
      BY <1>3, <2>3, <3>2
    <3>4. QED  BY <2>3, <3>2, <3>3
  <2>4. CASE c.id \notin IdsOf(old)
    <3>1. c.id \in IdsOf(Added(old, new))
      BY <2>1, <2>4 DEF IdsOf, Added
    <3>2. PICK v \in units : v.id = c.id
      BY <1>7, <3>1 DEF IdsOf
    <3>3. v \in now
      BY <1>3, <1>8, <3>1, <3>2
    <3>4. QED  BY <2>4, <3>2, <3>3
  <2>5. QED  BY <2>2, <2>3, <2>4
<1>11. Added(now, offers) = {}
  <2>1. \A n \in offers : n.id \in IdsOf(bundle)
    BY <1>6 DEF IdsOf
  <2>2. \A n \in offers : n.id \in IdsOf(now)
    BY <1>10, <2>1 DEF IdsOf
  <2>3. QED  BY <2>2 DEF Added
<1>12. removals => Gone(now, offers) = {}
  BY <1>3, <1>6 DEF Gone
<1>13. ASSUME NEW id \in Drifted(now, offers)  PROVE  FALSE
  <2>1. id \in IdsOf(now) /\ id \in IdsOf(bundle)
        /\ ChangedFields(UnitOf(now, id), UnitOf(offers, id)) # {}
    BY <1>6, <1>13 DEF Drifted, Both
  <2>2. PICK c \in bundle : c.id = id
    BY <2>1 DEF IdsOf
  <2> DEFINE given == FromCandidate(c)
  <2>3. PICK w \in now :
          /\ w.id = c.id
          /\ \/ w \in old /\ c.id \notin Drifted(old, new) /\ c.id \in Both(old, new)
             \/ \E v \in units :
                  /\ v.id = c.id /\ v.f = w.f
                  /\ c.id \in Drifted(old, new) \/ c.id \notin IdsOf(old)
    BY <1>10
  <2>4. UnitOf(now, id) = w
    BY <1>6, <2>2, <2>3, OnlyUnit
  <2>5. /\ UnitOf(offers, id) = Offer(c, now) /\ UnitOf(new, id) = Offer(c, old)
        /\ IsUnit(c)
    BY <1>1, <1>9, <2>2 DEF IsAnalysis
  <2>6. /\ \A k \in Fields \ {"status"} : Offer(c, now).f[k] = given.f[k]
        /\ Offer(c, now).f.status = IF given.f.status = "candidate" THEN w.f.status
                                    ELSE given.f.status
    BY <2>1, <2>2, <2>4, <2>5, OfferFacts
  <2>7. w.f.status = "approved"
    <3>1. w \in Current(a) /\ w.f.status \notin Inactive
      BY DEF now, Active
    <3>2. \E i \in DOMAIN a : w = a[i]
      BY <3>1 DEF Current
    <3>3. QED  BY <1>3, <3>1, <3>2 DEF Inactive
  <2>8. /\ \A k \in Fields \ {"status"} : w.f[k] = given.f[k]
        /\ given.f.status \in {"candidate", "approved"}
    <3>1. CASE w \in old /\ c.id \notin Drifted(old, new) /\ c.id \in Both(old, new)
      <4>1. UnitOf(old, id) = w
        BY <1>6, <2>2, <2>3, <3>1, OnlyUnit
      <4>2. ChangedFields(w, Offer(c, old)) = {}
        BY <2>2, <2>5, <3>1, <4>1 DEF Drifted
      <4>3. \A k \in Fields : w.f[k] = Offer(c, old).f[k]
        BY <4>2 DEF ChangedFields
      <4>4. /\ \A k \in Fields \ {"status"} : Offer(c, old).f[k] = given.f[k]
            /\ Offer(c, old).f.status =
                 IF given.f.status = "candidate" /\ c.id \in IdsOf(old)
                 THEN UnitOf(old, c.id).f.status ELSE given.f.status
        BY <2>5, OfferFacts
      <4>5. w.f.status = Offer(c, old).f.status
        BY <4>3 DEF Fields
      <4>6. given.f.status \in {"candidate", "approved"}
        BY <2>7, <4>4, <4>5
      <4> HIDE DEF given
      <4>7. \A k \in Fields \ {"status"} : w.f[k] = given.f[k]
        BY <4>3, <4>4
      <4>8. QED  BY <4>6, <4>7
    <3>2. CASE \E v \in units :
                 /\ v.id = c.id /\ v.f = w.f
                 /\ c.id \in Drifted(old, new) \/ c.id \notin IdsOf(old)
      <4>1. PICK v \in units :
                 /\ v.id = c.id /\ v.f = w.f
                 /\ c.id \in Drifted(old, new) \/ c.id \notin IdsOf(old)
        BY <3>2
      <4>2. \A o \in ActiveLog : o.unit = v.id => ~Holds(v, o)
        <5>1. \A o \in ActiveLog : w.id = o.unit => ~Holds(w, o)
          BY DEF now
        <5>2. QED  BY <2>3, <4>1, <5>1 DEF Holds
      <4>3. QED  BY <4>1, <4>2, StatedAgain
    <3>3. QED  BY <2>3, <3>1, <3>2
  <2> HIDE DEF given
  <2>9. \A k \in Fields : w.f[k] = Offer(c, now).f[k]
    BY <2>6, <2>7, <2>8
  <2>10. ChangedFields(w, Offer(c, now)) = {}
    BY <2>9 DEF ChangedFields
  <2>11. QED  BY <2>1, <2>4, <2>5, <2>10
<1>14. NoDrift(again.diff)
  BY <1>5, <1>11, <1>12, <1>13 DEF NoDrift
<1>15. QED  BY <1>14 DEF again

-----------------------------------------------------------------------------
(* The invariant is inductive.                                                *)

\* A sequence is one over its own range.
LEMMA OwnRange ==
  ASSUME NEW S, NEW s \in Seq(S)
  PROVE  s \in Seq(Range(s))
<1>1. s \in [1..Len(s) -> S] /\ DOMAIN s = 1..Len(s) /\ Len(s) \in Nat
  BY LenProperties
<1>2. s \in [1..Len(s) -> Range(s)]
  BY <1>1 DEF Range
<1>3. QED  BY <1>1, <1>2

\* The build publishes its units and writes each as its first record.
LEMMA InitInv == Init => Inv
<1> SUFFICES ASSUME Init  PROVE  Inv
  OBVIOUS
<1>1. skill = {FromBuild(c) : c \in Built} /\ records = SetToSeq(skill)
  BY DEF Init
<1>2. IsAnalysis(Built)
  BY FoldInAssumption
<1>3. ASSUME NEW c \in Built
      PROVE  /\ IsUnit(FromBuild(c)) /\ FromBuild(c).id = c.id
             /\ FromBuild(c).f.status = "approved"
  <2>1. IsUnit(FromCandidate(c)) /\ FromCandidate(c).id = c.id
    BY <1>2, FromCandidateFacts DEF IsAnalysis
  <2>2. FromBuild(c) = WithStatus(FromCandidate(c), "approved")
    BY DEF FromBuild, WithStatus
  <2>3. QED  BY <2>1, <2>2, WithStatusFacts
<1>4. /\ \A u \in skill : IsUnit(u) /\ u.f.status = "approved"
      /\ \A u, v \in skill : u.id = v.id => u = v
  BY <1>1, <1>2, <1>3 DEF IsAnalysis
<1>5. IsFiniteSet(skill)
  <2> DEFINE g == [c \in Built |-> FromBuild(c)]
  <2>1. skill \subseteq {g[c] : c \in Built}
    BY <1>1
  <2>2. IsFiniteSet(Built)
    BY <1>2 DEF IsAnalysis
  <2> HIDE DEF g
  <2>3. QED  BY <2>1, <2>2, ImageFinite
<1>6. /\ records \in Seq(skill)
      /\ \A u \in skill : \E i \in 1..Len(records) : records[i] = u
      /\ \A i, j \in 1..Len(records) : records[i] = records[j] => i = j
  <2>1. records = SetToSeq(skill)
    BY <1>1
  <2>2. QED  BY <2>1, <1>5, SetToSeqFacts
<1>7. /\ DOMAIN records = 1..Len(records) /\ Len(records) \in Nat
      /\ records \in [1..Len(records) -> skill]
  BY <1>6, LenProperties
<1>8. RecordsInv
  <2>2. records \in Seq(Range(records))
    BY <1>6, OwnRange
  <2>3. \A i \in DOMAIN records : records[i] \in skill
    BY <1>7
  <2>4. QED  BY <1>4, <2>2, <2>3 DEF RecordsInv, IsFile
<1>9. ASSUME NEW u \in skill  PROVE  u \in Active(records)
  <2>1. PICK i \in 1..Len(records) : records[i] = u
    BY <1>6
  <2>2. \A j \in DOMAIN records : records[i].id = records[j].id => i = j
    BY <1>4, <1>6, <1>7, <2>1
  <2>3. records[i].version \in Nat
    BY <1>4, <2>1 DEF IsUnit
  <2>4. u \in Current(records)
    BY <1>7, <2>1, <2>2, <2>3 DEF Current
  <2>5. QED  BY <1>4, <2>4 DEF Active, Inactive
<1>10. SkillInv
  BY <1>9 DEF SkillInv, IdsOf
<1>11. LogInv
  <2>1. log = <<>>
    BY DEF Init
  <2>2. QED  BY <2>1 DEF LogInv
<1>12. AppliedInv /\ RepeatChangesNothing
  BY DEF Init, AppliedInv, RepeatChangesNothing
<1>13. QED  BY <1>8, <1>10, <1>11, <1>12 DEF Inv

\* A line at the end of the log leaves what the earlier lines say.
LEMMA LogGrows ==
  ASSUME Inv, NEW line, log' = Append(log, line), IsLine(line, Len(log) + 1), last' = {},
         UNCHANGED <<records, skill, updates, applied, absorbed, revived>>
  PROVE  Inv'
<1>1. /\ log \in Seq(Range(log)) /\ DOMAIN log = 1..Len(log) /\ Len(log) \in Nat
      /\ \A i \in DOMAIN log : IsLine(log[i], i)
  BY LenProperties DEF Inv, LogInv
<1>2. /\ Len(log') = Len(log) + 1 /\ DOMAIN log' = 1..(Len(log) + 1)
      /\ \A i \in 1..Len(log) : log'[i] = log[i]
      /\ log'[Len(log) + 1] = line
      /\ log' \in Seq(Range(log) \cup {line})
  <2>1. log \in Seq(Range(log) \cup {line})
    BY <1>1
  <2>2. QED  BY <1>1, <2>1, AppendProperties
<1>3. LogInv'
  <2>2. log' \in Seq(Range(log'))
    BY <1>2, OwnRange
  <2>3. \A i \in DOMAIN log' : IsLine(log'[i], i)
    BY <1>1, <1>2
  <2>4. QED  BY <2>2, <2>3 DEF LogInv
<1>4. (RecordsInv /\ SkillInv)'
  BY DEF Inv, RecordsInv, SkillInv
<1>5. AppliedInv'
  <2>1. AppliedInv /\ applied' = applied /\ absorbed' = absorbed /\ skill' = skill
    BY DEF Inv
  <2>2. applied' \subseteq 1..Len(log)
    BY <2>1 DEF AppliedInv
  <2>3. \A i \in applied' \ absorbed' : log'[i] = log[i]
    BY <1>2, <2>2
  <2>4. applied' \subseteq 1..Len(log')
    BY <1>1, <1>2, <2>2
  <2>5. \A i \in applied' \ absorbed' : ~Provisional(log[i]) =>
          \A u \in skill' : u.id = log[i].unit => Holds(u, log[i])
    BY <2>1 DEF AppliedInv
  <2>6. \A i \in applied' \ absorbed' : ~Provisional(log'[i]) =>
          \A u \in skill' : u.id = log'[i].unit => Holds(u, log'[i])
    BY <2>3, <2>5
  <2>7. QED  BY <2>4, <2>6 DEF AppliedInv
<1>6. RepeatChangesNothing'
  BY DEF RepeatChangesNothing
<1>7. QED  BY <1>3, <1>4, <1>5, <1>6 DEF Inv

\* A human writes an edit.
LEMMA SaveOverrideStep ==
  ASSUME Inv, NEW e \in Edits, SaveOverride(e)
  PROVE  Inv'
<1> DEFINE line == [oid |-> Len(log) + 1, unit |-> e.unit, patch |-> e.patch,
                    at |-> Len(log) + 1, superseded |-> FALSE]
<1>1. /\ ValidPatch(e.patch) /\ log' = Append(log, line) /\ last' = {}
      /\ UNCHANGED <<records, skill, updates, applied, absorbed, revived>>
  BY DEF SaveOverride
<1>2. Len(log) \in Nat
  BY LenProperties DEF Inv, LogInv
<1>3. DOMAIN e.patch # {}
  BY FoldInAssumption
<1>4. IsLine(line, Len(log) + 1)
  BY <1>1, <1>2, <1>3 DEF IsLine
<1> HIDE DEF line
<1>5. QED  BY <1>1, <1>4, LogGrows

\* A human withdraws an edit.
LEMMA SupersedeOverrideStep ==
  ASSUME Inv, NEW oid, SupersedeOverride(oid)
  PROVE  Inv'
<1>1. PICK i \in DOMAIN log : log' = Append(log, [log[i] EXCEPT !.superseded = TRUE])
  BY DEF SupersedeOverride
<1> DEFINE line == [log[i] EXCEPT !.superseded = TRUE]
<1>2. /\ log' = Append(log, line) /\ last' = {}
      /\ UNCHANGED <<records, skill, updates, applied, absorbed, revived>>
  BY <1>1 DEF SupersedeOverride
<1>3. Len(log) \in Nat /\ i \in 1..Len(log) /\ IsLine(log[i], i)
  BY LenProperties DEF Inv, LogInv
<1>4. /\ line.oid = log[i].oid /\ line.unit = log[i].unit /\ line.patch = log[i].patch
      /\ line.at = log[i].at /\ line.superseded = TRUE
      /\ line = [oid |-> line.oid, unit |-> line.unit, patch |-> line.patch, at |-> line.at,
                 superseded |-> line.superseded]
  <2> DEFINE o == log[i]
  <2>1. o = [oid |-> o.oid, unit |-> o.unit, patch |-> o.patch, at |-> o.at,
             superseded |-> o.superseded]
    BY <1>3 DEF IsLine
  <2>2. line = [o EXCEPT !.superseded = TRUE]
    OBVIOUS
  <2> HIDE DEF o, line
  <2>3. /\ line.oid = o.oid /\ line.unit = o.unit /\ line.patch = o.patch
        /\ line.at = o.at /\ line.superseded = TRUE
        /\ line = [oid |-> line.oid, unit |-> line.unit, patch |-> line.patch,
                   at |-> line.at, superseded |-> line.superseded]
    BY <2>1, <2>2
  <2>4. QED  BY <2>3 DEF o
<1> HIDE DEF line
<1>5. IsLine(line, Len(log) + 1)
  <2>1. line.oid \in 1..(Len(log) + 1)
    BY <1>3, <1>4 DEF IsLine
  <2>2. QED  BY <1>3, <1>4, <2>1 DEF IsLine
<1>6. QED  BY <1>2, <1>5, LogGrows

\* An update that changes something is one of those that publish.
LEMMA ConfirmedFacts ==
  ASSUME Inv, NEW bundle \in Analyses, NEW removals \in BOOLEAN, NEW partial,
         Confirmed(bundle, removals, partial),
         NEW plan, plan = Plan(records, bundle, ActiveLog, removals),
         HasChanges(plan.diff)
  PROVE  LET old == Active(records)
             pending == PendingRecords(plan, Approved(plan))
         IN  /\ Publishes(plan, records, bundle, ActiveLog, removals, old,
                          Offers(bundle, old), Approved(plan), pending)
             /\ skill' = Approved(plan) /\ records' = Appended(records, pending)
             /\ applied' = OidsOf(plan.merge.applied)
             /\ absorbed' = OidsOf(Absorbed(plan))
             /\ revived' = revived \cup {u.id : u \in {u \in plan.diff.added :
                                           \E i \in DOMAIN records : records[i].id = u.id}}
             /\ plan.merge.preserved = {}
<1>1. IsAnalysis(bundle)
  BY FoldInAssumption
<1>2. IsPlan(plan, records, bundle, ActiveLog, removals, Active(records),
             Offers(bundle, Active(records)))
  BY <1>1 DEF IsPlan, Inv, RecordsInv
<1>3. /\ EnsurePublishable(Approved(plan), Unresolved(plan, {}))
      /\ skill' = Approved(plan)
      /\ records' = Appended(records, PendingRecords(plan, Approved(plan)))
      /\ applied' = OidsOf(plan.merge.applied)
      /\ absorbed' = OidsOf(Absorbed(plan))
      /\ revived' = revived \cup {u.id : u \in {u \in plan.diff.added :
                                    \E i \in DOMAIN records : records[i].id = u.id}}
      /\ MayConfirm(plan, partial, {})
  BY DEF Confirmed
<1>4. plan.merge.preserved = {}
  BY <1>3 DEF MayConfirm
<1>5. \A i \in DOMAIN records : records[i].f.status \in {"approved", "superseded"}
  BY DEF Inv, RecordsInv
<1>6. QED  BY <1>2, <1>3, <1>4, <1>5 DEF Publishes

\* The records of a published update.
LEMMA RecordsKept ==
  ASSUME Inv, NEW bundle \in Analyses, NEW removals \in BOOLEAN, NEW partial,
         Confirmed(bundle, removals, partial),
         NEW plan, plan = Plan(records, bundle, ActiveLog, removals),
         HasChanges(plan.diff)
  PROVE  /\ RecordsInv' /\ SkillInv'
         /\ \A id \in IdsOf(Active(records)) \ IdsOf(skill') :
              removals /\ \A o \in ActiveLog : o.unit # id
<1> DEFINE old == Active(records)
           new == Offers(bundle, old)
           units == Approved(plan)
           pending == PendingRecords(plan, units)
           a == Appended(records, pending)
<1>1. /\ Publishes(plan, records, bundle, ActiveLog, removals, old, new, units, pending)
      /\ skill' = units /\ records' = a
      /\ revived' = revived \cup {u.id : u \in {u \in plan.diff.added :
                                    \E i \in DOMAIN records : records[i].id = u.id}}
      /\ plan.merge.preserved = {}
  BY ConfirmedFacts
<1>2. IsPlan(plan, records, bundle, ActiveLog, removals, old, new)
  BY <1>1 DEF Publishes
<1> HIDE DEF old, new, units, pending, a
<1>3. After(a, records, removals, old, new, units)
  BY <1>1, AfterFacts DEF a
<1>4. RecordsInv'
  <2>1. IsFile(a) /\ \A i \in DOMAIN a : a[i].f.status \in {"approved", "superseded"}
    BY <1>3 DEF After
  <2>2. QED  BY <1>1, <2>1 DEF RecordsInv
<1>5. IsAnalysis(units) /\ IdsOf(units) = Kept(old, new, removals) \cup IdsOf(Added(old, new))
  BY <1>1, UnitsFacts
<1>6. plan.diff.added = Added(old, new)
  BY <1>2, PlanFacts
<1>7. ASSUME NEW v \in units, v.id \notin revived'
      PROVE  v.id \in IdsOf(Active(a))
  <2>1. CASE v.id \in Drifted(old, new)
    <3>1. PICK w \in Active(a) : w.id = v.id
      BY <1>3, <2>1 DEF After
    <3>2. QED  BY <3>1 DEF IdsOf
  <2>2. CASE v.id \in IdsOf(Added(old, new))
    <3>1. PICK n \in Added(old, new) : n.id = v.id
      BY <2>2 DEF IdsOf
    <3>2. \A i \in DOMAIN records : records[i].id # v.id
      BY <1>1, <1>6, <1>7, <3>1
    <3>3. v \in Active(a)
      BY <1>3, <2>2, <3>2 DEF After
    <3>4. QED  BY <3>3 DEF IdsOf
  <2>3. CASE v.id \in Kept(old, new, removals) /\ v.id \notin Drifted(old, new)
    <3>1. v.id \in IdsOf(old) /\ (removals => v.id \in IdsOf(new))
      BY <2>3 DEF Kept, Both
    <3>2. PICK u \in old : u.id = v.id
      BY <3>1 DEF IdsOf
    <3>3. u \in Active(a)
      BY <1>3, <2>3, <3>1, <3>2 DEF After
    <3>4. QED  BY <3>2, <3>3 DEF IdsOf
  <2>4. v.id \in IdsOf(units)
    BY DEF IdsOf
  <2>5. QED  BY <1>5, <2>1, <2>2, <2>3, <2>4
<1>8. SkillInv'
  <2>1. IdsOf(units) \ revived' \subseteq IdsOf(Active(a))
    BY <1>7 DEF IdsOf
  <2>2. QED  BY <1>1, <2>1 DEF SkillInv
<1>9. ASSUME NEW id \in IdsOf(old) \ IdsOf(units)
      PROVE  removals /\ \A o \in ActiveLog : o.unit # id
  <2>1. id \in IdsOf(old) /\ id \notin Kept(old, new, removals)
    BY <1>5
  <2>2. removals /\ id \in IdsOf(old) \ Both(old, new)
    BY <2>1 DEF Kept
  <2>3. plan.merge.preserved =
          {o \in ActiveLog : o.unit \in IdsOf(Added(old, new)) \cup
                               (IF removals THEN IdsOf(old) \ Both(old, new) ELSE {})}
    BY <1>2, PlanFacts
  <2>4. QED  BY <1>1, <2>2, <2>3
<1>10. QED  BY <1>1, <1>4, <1>8, <1>9 DEF old

\* The edits of a published update.
LEMMA AppliedKept ==
  ASSUME Inv, NEW bundle \in Analyses, NEW removals \in BOOLEAN, NEW partial,
         Confirmed(bundle, removals, partial),
         NEW plan, plan = Plan(records, bundle, ActiveLog, removals),
         HasChanges(plan.diff)
  PROVE  AppliedInv'
<1> DEFINE old == Active(records)
           new == Offers(bundle, old)
<1>1. /\ IsPlan(plan, records, bundle, ActiveLog, removals, old, new)
      /\ skill' = Approved(plan)
      /\ applied' = OidsOf(plan.merge.applied) /\ absorbed' = OidsOf(Absorbed(plan))
  BY ConfirmedFacts DEF Publishes
<1>2. log' = log /\ LogInv
  BY DEF Confirmed, Inv
<1> HIDE DEF old, new
<1>3. plan.merge.applied \subseteq ActiveLog
  <2>1. plan.merge.applied = {o \in ActiveLog : o.unit \in Kept(old, new, removals)}
    BY <1>1, PlanFacts
  <2>2. QED  BY <2>1
<1>4. ASSUME NEW o \in plan.merge.applied
      PROVE  o.oid \in 1..Len(log) /\ o = log[o.oid]
  <2>1. o.oid \in DOMAIN log /\ o = log[o.oid]
    BY <1>2, <1>3, ActiveLogFacts
  <2>2. QED  BY <1>2, <2>1, LenProperties DEF LogInv
<1>5. ASSUME NEW i \in applied' \ absorbed', ~Provisional(log[i]),
             NEW u \in Approved(plan), u.id = log[i].unit
      PROVE  Holds(u, log[i])
  <2>1. PICK o \in plan.merge.applied : o.oid = i
    BY <1>1 DEF OidsOf
  <2>2. o \notin Absorbed(plan)
    BY <1>1, <2>1 DEF OidsOf
  <2>3. o = log[i]
    BY <1>4, <2>1
  <2>4. QED  BY <1>1, <1>2, <1>5, <2>1, <2>2, <2>3, EditMerged
<1>6. applied' \subseteq 1..Len(log)
  BY <1>1, <1>4 DEF OidsOf
<1>7. QED  BY <1>1, <1>2, <1>5, <1>6 DEF AppliedInv

\* A confirmed update, whether it changes something or not.
LEMMA ConfirmedStep ==
  ASSUME Inv, NEW bundle \in Analyses, NEW removals \in BOOLEAN, NEW partial,
         Confirmed(bundle, removals, partial)
  PROVE  Inv'
<1> DEFINE plan == Plan(records, bundle, ActiveLog, removals)
<1>1. log' = log /\ ActiveLog' = ActiveLog /\ last' = {[bundle |-> bundle, removals |-> removals]}
  BY DEF Confirmed, ActiveLog
<1>2. LogInv'
  BY <1>1 DEF Inv, LogInv
<1>3. ASSUME Plan(records', bundle, ActiveLog, removals).diff.added # {}
               \/ Plan(records', bundle, ActiveLog, removals).diff.modified # {}
               \/ Plan(records', bundle, ActiveLog, removals).diff.removed # {}
               => \/ revived' # {} \/ \E c \in bundle : c.f.status = "reviewed"
                  \/ \E o \in ActiveLog, u \in Active(records') : u.id = o.unit /\ Holds(u, o)
      PROVE  RepeatChangesNothing'
  BY <1>1, <1>3 DEF RepeatChangesNothing
<1>4. CASE ~HasChanges(plan.diff)
  <2>1. UNCHANGED <<skill, records, updates, applied, absorbed, revived>>
    BY <1>4 DEF Confirmed
  <2>2. (RecordsInv /\ SkillInv /\ AppliedInv)'
    BY <1>1, <2>1 DEF Inv, RecordsInv, SkillInv, AppliedInv
  <2>3. plan.diff.added = {} /\ plan.diff.modified = {} /\ plan.diff.removed = {}
    BY <1>4 DEF HasChanges
  <2>4. RepeatChangesNothing'
    BY <1>3, <2>1, <2>3
  <2>5. QED  BY <1>2, <2>2, <2>4 DEF Inv
<1>5. CASE HasChanges(plan.diff)
  <2> DEFINE old == Active(records)
             new == Offers(bundle, old)
             units == Approved(plan)
             pending == PendingRecords(plan, units)
  <2>1. /\ Publishes(plan, records, bundle, ActiveLog, removals, old, new, units, pending)
        /\ records' = Appended(records, pending)
        /\ revived' = revived \cup {u.id : u \in {u \in plan.diff.added :
                                      \E i \in DOMAIN records : records[i].id = u.id}}
    BY <1>5, ConfirmedFacts
  <2>2. RecordsInv' /\ SkillInv' /\ AppliedInv'
    BY <1>5, RecordsKept, AppliedKept
  <2>3. plan.diff.added = Added(old, new)
    BY <2>1, PlanFacts DEF Publishes
  <2> HIDE DEF plan, old, new, units, pending
  <2>4. ASSUME revived' = {}, \A c \in bundle : c.f.status # "reviewed",
               \A o \in ActiveLog, u \in Active(records') : u.id = o.unit => ~Holds(u, o)
        PROVE  NoDrift(Plan(records', bundle, ActiveLog, removals).diff)
    <3>1. \A u \in Added(old, new) : \A i \in DOMAIN records : records[i].id # u.id
      BY <2>1, <2>3, <2>4
    <3>2. LogInv
      BY DEF Inv
    <3> DEFINE a == Appended(records, pending)
    <3>3. \A o \in ActiveLog, u \in Active(a) : u.id = o.unit => ~Holds(u, o)
      BY <2>1, <2>4
    <3>4. NoDrift(Plan(a, bundle, ActiveLog, removals).diff)
      <4> HIDE DEF a
      <4>1. a = Appended(records, pending)
        BY DEF a
      <4>2. QED  BY <2>1, <2>4, <3>1, <3>2, <3>3, <4>1, AgainNoDrift
    <3>5. QED  BY <2>1, <3>4
  <2>5. RepeatChangesNothing'
    BY <1>3, <2>4 DEF NoDrift
  <2>6. QED  BY <1>2, <2>2, <2>5 DEF Inv
<1>6. QED  BY <1>4, <1>5

-----------------------------------------------------------------------------
(* The theorems.                                                              *)

\* The invariant holds in every reachable state.
LEMMA SpecInv == Spec => []Inv
<1>1. Init => Inv
  BY InitInv
<1>2. Inv /\ [Next]_vars => Inv'
  <2> SUFFICES ASSUME Inv, [Next]_vars  PROVE  Inv'
    OBVIOUS
  <2>1. ASSUME NEW e \in Edits, SaveOverride(e)  PROVE  Inv'
    BY <2>1, SaveOverrideStep
  <2>2. ASSUME NEW oid \in 1..MaxEdits, SupersedeOverride(oid)  PROVE  Inv'
    BY <2>2, SupersedeOverrideStep
  <2>3. ASSUME NEW bundle \in Analyses, NEW removals \in BOOLEAN, NEW partial \in BOOLEAN,
               Confirmed(bundle, removals, partial)
        PROVE  Inv'
    BY <2>3, ConfirmedStep
  <2>4. CASE UNCHANGED vars
    BY <2>4 DEF vars, Inv, RecordsInv, SkillInv, LogInv, AppliedInv, RepeatChangesNothing,
                ActiveLog
  <2>5. QED  BY <2>1, <2>2, <2>3, <2>4 DEF Next
<1>3. QED  BY <1>1, <1>2, PTL DEF Spec

\* The published unit holds every active edit that its update reported as applied,
\* unless the record held the value already or the confirmation approved the unit.
THEOREM EditsKeptHolds == Spec => []EditsKept
<1>1. Inv => EditsKept
  <2> SUFFICES ASSUME Inv, NEW o \in ActiveLog, o.oid \in applied \ absorbed,
                      ~Provisional(o), NEW u \in skill, u.id = o.unit
               PROVE  Holds(u, o)
    BY DEF EditsKept
  <2>1. o = log[o.oid]
    BY ActiveLogFacts DEF Inv
  <2>2. QED  BY <2>1 DEF Inv, AppliedInv
<1>2. QED  BY <1>1, SpecInv, PTL

\* An update that is repeated over the records it has written finds no drift.
THEOREM RepeatChangesNothingHolds == Spec => []RepeatChangesNothing
<1>1. Inv => RepeatChangesNothing
  BY DEF Inv
<1>2. QED  BY <1>1, SpecInv, PTL

\* A published unit leaves the Skill by an update that replaces the sources alone,
\* and not while an edit of it is active.
THEOREM UnitsKeptHolds == Spec => UnitsKept
<1>1. ASSUME Inv, [Next]_vars,
             NEW id \in (IdsOf(skill) \ IdsOf(skill')) \ revived
      PROVE  /\ \A update \in last' : update.removals
             /\ \A o \in ActiveLog : o.unit # id
  <2>1. id \in IdsOf(Active(records))
    BY <1>1 DEF Inv, SkillInv
  <2>2. skill' # skill
    BY <1>1
  <2>3. PICK bundle \in Analyses, removals \in BOOLEAN, partial \in BOOLEAN :
          Confirmed(bundle, removals, partial)
    BY <1>1, <2>2 DEF Next, SaveOverride, SupersedeOverride, vars
  <2> DEFINE plan == Plan(records, bundle, ActiveLog, removals)
  <2>4. HasChanges(plan.diff)
    BY <2>2, <2>3 DEF Confirmed
  <2>5. removals /\ \A o \in ActiveLog : o.unit # id
    BY <1>1, <2>1, <2>3, <2>4, RecordsKept
  <2>6. last' = {[bundle |-> bundle, removals |-> removals]}
    BY <2>3 DEF Confirmed
  <2>7. QED  BY <2>5, <2>6
<1>2. Inv /\ [Next]_vars =>
        [\A id \in (IdsOf(skill) \ IdsOf(skill')) \ revived :
           /\ \A update \in last' : update.removals
           /\ \A o \in ActiveLog : o.unit # id]_vars
  BY <1>1
<1>3. QED  BY <1>2, SpecInv, PTL DEF Spec, UnitsKept
=============================================================================
