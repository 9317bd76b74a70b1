---------------------------- MODULE SVGResultProofs ----------------------------
(***************************************************************************)
(* SVGResult for any outlines, any number of executions, child jobs,       *)
(* requests for one slide and recoveries: the cache follows the store, a   *)
(* result that is called succeeded has a slide to show, and nobody is      *)
(* charged more than was reserved; a writer changes what others have made  *)
(* only by an older view.  The first rests on the order of save and cache  *)
(* in every writer, the others on what the helpers that merge slides keep. *)
(***************************************************************************)
EXTENDS SVGResult, FiniteSetTheorems, WellFoundedInduction, TLAPS

CachingPCs == {"startCache", "syncCache", "finishCache", "cache", "recoverCache"}

(* The locals of a writer that has come to its end. *)
Done == [Idle EXCEPT !.pc = "done"]

(* What a writer has in its locals at the places where it matters. *)
Fit(w, t) ==
  /\ t.pc = "finish" /\ t.ok => \E s \in Range(t.slides) : Made(s)
  /\ t.pc = "sync" => t.slides # <<>>
  /\ t.pc = "save" => Len(t.slides) = 1
  /\ w \in Runs \/ t.pc = "run" =>
       t.targets \subseteq Range(outline) /\ t.size \in {Len(outline), Cardinality(t.targets)}
  /\ t.pc = "new" => t.charged = 0
  /\ Distinct => t.charged <= t.size

Fits == \A w \in Writers : Fit(w, work[w])

(* While nothing has let them differ, at most one writer is between save   *)
(* and cache, with the record it saved.                                    *)
Synced ==
  ~apart =>
    /\ \A v \in Writers : Caching(v) => work[v].rec = record
    /\ \A v, w \in Writers : Caching(v) /\ Caching(w) => v = w
    /\ (\A v \in Writers : ~Caching(v)) /\ cached.status \notin Open => cached = record

IInv == TypeOK /\ Fits /\ Synced /\ SucceededShows

-----------------------------------------------------------------------------
(* The helpers.                                                            *)

LEMMA LeastExists ==
  ASSUME NEW N \in SUBSET Nat, N # {}
  PROVE  \E n \in N : \A m \in N : n <= m
<1> DEFINE less == {p \in Nat \X Nat : p[1] < p[2]}
<1>1. IsWellFoundedOn(less, Nat)
  BY NatLessThanWellFounded DEF OpToRel
<1>2. PICK n \in N : \A m \in N : <<m, n>> \notin less
  <2> HIDE DEF less
  <2> QED BY <1>1, WFMin
<1>3. ASSUME NEW m \in N PROVE n <= m
  <2>1. m \in Nat /\ n \in Nat /\ <<m, n>> \notin less
    BY <1>2
  <2>2. ~(m < n)
    BY <2>1
  <2> QED BY <2>1, <2>2
<1> QED BY <1>3

(* Among the indexes of a property there is a last one. *)
LEMMA LastExists ==
  ASSUME NEW S, NEW ss \in Seq(S), NEW I \in SUBSET DOMAIN ss, I # {}
  PROVE  \E i \in I : \A k \in (i + 1)..Len(ss) : k \notin I
<1> DEFINE N == {n \in Nat : Len(ss) - n \in I}
<1>1. N # {} /\ N \subseteq Nat
  <2>1. PICK i \in I : i \in 1..Len(ss)
    OBVIOUS
  <2>2. Len(ss) - (Len(ss) - i) = i /\ Len(ss) - i \in Nat
    BY <2>1
  <2> QED BY <2>1, <2>2
<1>2. PICK n \in N : \A m \in N : n <= m
  <2> HIDE DEF N
  <2> QED BY <1>1, LeastExists
<1>3. \A k \in (Len(ss) - n + 1)..Len(ss) : k \notin I
  <2> SUFFICES ASSUME NEW k \in (Len(ss) - n + 1)..Len(ss), k \in I PROVE FALSE
    OBVIOUS
  <2>1. Len(ss) - k \in N
    <3>1. Len(ss) - (Len(ss) - k) = k /\ Len(ss) - k \in Nat
      BY <1>2
    <3> QED BY <3>1
  <2> QED BY <1>2, <2>1
<1> QED BY <1>2, <1>3

LEMMA FirstExists ==
  ASSUME NEW S, NEW ss \in Seq(S), NEW I \in SUBSET DOMAIN ss, I # {}
  PROVE  \E i \in I : \A k \in 1..(i - 1) : k \notin I
<1>1. I \subseteq Nat
  OBVIOUS
<1>2. PICK i \in I : \A m \in I : i <= m
  BY <1>1, LeastExists
<1> QED BY <1>1, <1>2

(* Of a slide that is there, the first and the last place are its own.     *)
LEMMA PlaceOf ==
  ASSUME NEW ss \in Seq(Slide), NEW id, Has(ss, id)
  PROVE  /\ First(ss, id) \in DOMAIN ss /\ ss[First(ss, id)].id = id
         /\ Last(ss, id) \in DOMAIN ss /\ ss[Last(ss, id)].id = id
<1> DEFINE I == {i \in DOMAIN ss : ss[i].id = id}
<1>1. I # {} /\ I \in SUBSET DOMAIN ss
  BY DEF Has, Range
<1>2. \E i \in DOMAIN ss : ss[i].id = id /\ \A k \in 1..(i - 1) : ss[k].id # id
  <2>1. PICK i \in I : \A k \in 1..(i - 1) : k \notin I
    <3> HIDE DEF I
    <3> QED BY <1>1, FirstExists
  <2>2. \A k \in 1..(i - 1) : k \in DOMAIN ss
    BY <2>1
  <2> QED BY <2>1, <2>2
<1>3. \E i \in DOMAIN ss : ss[i].id = id /\ \A k \in (i + 1)..Len(ss) : ss[k].id # id
  <2>1. PICK i \in I : \A k \in (i + 1)..Len(ss) : k \notin I
    <3> HIDE DEF I
    <3> QED BY <1>1, LastExists
  <2>2. \A k \in (i + 1)..Len(ss) : k \in DOMAIN ss
    BY <2>1
  <2> QED BY <2>1, <2>2
<1> QED BY <1>2, <1>3 DEF First, Last

(* The deck a job makes: a slide for each entry of the outline.            *)
LEMMA DeckType ==
  ASSUME outline \in Seq(Ids), NEW existing \in Seq(Slide), NEW w \in Writers,
         NEW targets \in SUBSET Ids, NEW made \in [targets -> {w, NoSVG}]
  PROVE  LET ss == upsertSlide(mergeExistingSlides(existing), made) IN
         /\ ss \in Seq(Slide) /\ Len(ss) = Len(outline)
         /\ \A i \in 1..Len(outline) : ss[i].id = outline[i]
<1> DEFINE merged == mergeExistingSlides(existing)
           ss     == upsertSlide(merged, made)
<1>1. /\ DOMAIN merged = 1..Len(outline)
      /\ \A i \in 1..Len(outline) : merged[i] \in Slide /\ merged[i].id = outline[i]
  <2>1. DOMAIN outline = 1..Len(outline)
    OBVIOUS
  <2>2. ASSUME NEW i \in 1..Len(outline)
        PROVE  merged[i] \in Slide /\ merged[i].id = outline[i]
    <3>1. merged[i] = IF Has(existing, outline[i]) THEN existing[Last(existing, outline[i])]
                      ELSE [id |-> outline[i], svg |-> NoSVG]
      BY <2>1 DEF mergeExistingSlides
    <3>2. CASE Has(existing, outline[i])
      BY <3>1, <3>2, PlaceOf
    <3>3. CASE ~Has(existing, outline[i])
      BY <3>1, <3>3 DEF Slide
    <3> QED BY <3>2, <3>3
  <2> QED BY <2>1, <2>2 DEF mergeExistingSlides
<1> HIDE DEF merged
<1>2. DOMAIN ss = 1..Len(outline)
  BY <1>1 DEF upsertSlide
<1>3. ASSUME NEW i \in 1..Len(outline)
      PROVE  ss[i] \in Slide /\ ss[i].id = outline[i]
  <2>1. ss[i] = IF merged[i].id \in DOMAIN made /\ i = First(merged, merged[i].id)
                THEN [id |-> merged[i].id, svg |-> made[merged[i].id]] ELSE merged[i]
    BY <1>1 DEF upsertSlide
  <2>2. CASE merged[i].id \in DOMAIN made /\ i = First(merged, merged[i].id)
    <3>1. merged[i].id \in targets /\ made[merged[i].id] \in Writers \cup {NoSVG}
      BY <2>2
    <3> QED BY <1>1, <2>1, <2>2, <3>1 DEF Slide
  <2>3. CASE ~(merged[i].id \in DOMAIN made /\ i = First(merged, merged[i].id))
    BY <1>1, <2>1, <2>3
  <2> QED BY <2>2, <2>3
<1>4. ss = [i \in 1..Len(outline) |-> ss[i]]
  BY <1>1 DEF upsertSlide
<1> HIDE DEF ss
<1>5. ss \in [1..Len(outline) -> Slide]
  BY <1>3, <1>4
<1>6. ss \in Seq(Slide) /\ Len(ss) = Len(outline)
  BY <1>5
<1>7. \A i \in 1..Len(outline) : ss[i].id = outline[i]
  BY <1>3
<1> QED BY <1>6, <1>7 DEF ss, merged

LEMMA OutlineFacts ==
  ASSUME outline \in Outlines
  PROVE  /\ outline \in Seq(Ids) /\ Len(outline) \in Nat \ {0} /\ DOMAIN outline = 1..Len(outline)
         /\ Range(outline) \subseteq Ids
         /\ IsFiniteSet(1..Len(outline)) /\ Cardinality(1..Len(outline)) = Len(outline)
         /\ IsFiniteSet(Range(outline)) /\ Cardinality(Range(outline)) <= Len(outline)
<1>1. outline \in Seq(Ids) /\ outline # <<>>
  BY SVGResultAssumption
<1>2. Len(outline) \in Nat \ {0} /\ DOMAIN outline = 1..Len(outline) /\ Range(outline) \subseteq Ids
  BY <1>1 DEF Range
<1>3. outline \in Surjection(1..Len(outline), Range(outline))
  BY <1>1, <1>2 DEF Range, Surjection
<1>4. IsFiniteSet(1..Len(outline)) /\ Cardinality(1..Len(outline)) = Len(outline)
  BY <1>2, FS_Interval
<1>5. /\ IsFiniteSet(Range(outline))
      /\ Cardinality(Range(outline)) <= Cardinality(1..Len(outline))
  BY <1>3, <1>4, FS_Surjection
<1> QED BY <1>1, <1>2, <1>4, <1>5

(* The slides counted are as many as the targets at most, when every id is *)
(* in the outline once, and never more than the outline has entries; when  *)
(* some are counted, some are made.                                        *)
LEMMA CountBound ==
  ASSUME outline \in Outlines, NEW ss \in Seq(Slide), Len(ss) = Len(outline),
         \A i \in 1..Len(outline) : ss[i].id = outline[i],
         NEW targets \in SUBSET Range(outline)
  PROVE  LET n == countSlideResultsByIDs(ss, targets) IN
         /\ n \in Nat /\ n <= Len(outline)
         /\ Distinct => n <= Cardinality(targets)
         /\ n > 0 => \E s \in Range(ss) : Made(s)
<1> DEFINE C == {i \in DOMAIN ss : ss[i].id \in targets /\ Made(ss[i])}
           n == Cardinality(C)
<1>1. /\ DOMAIN outline = 1..Len(outline) /\ Len(outline) \in Nat \ {0}
      /\ IsFiniteSet(Range(outline))
  BY OutlineFacts
<1>2. DOMAIN ss = 1..Len(outline)
  OBVIOUS
<1>3. IsFiniteSet(1..Len(outline)) /\ Cardinality(1..Len(outline)) = Len(outline)
  BY OutlineFacts
<1>4. C \in SUBSET (1..Len(outline))
  BY <1>2
<1>5. IsFiniteSet(C) /\ n <= Len(outline)
  <2> HIDE DEF C
  <2> QED BY <1>3, <1>4, FS_Subset
<1>6. n \in Nat
  <2> HIDE DEF C
  <2> QED BY <1>5, FS_CardinalityType
<1>7. Distinct => n <= Cardinality(targets)
  <2> SUFFICES ASSUME Distinct PROVE n <= Cardinality(targets)
    OBVIOUS
  <2> DEFINE f == [i \in C |-> outline[i]]
  <2>1. \A i \in C : outline[i] \in targets
    BY <1>2
  <2>2. \A i, k \in C : outline[i] = outline[k] => i = k
    BY <1>1, <1>4 DEF Distinct
  <2>3. f \in Injection(C, targets)
    <3> HIDE DEF C
    <3> QED BY <2>1, <2>2 DEF Injection, IsInjective
  <2>4. IsFiniteSet(targets)
    BY <1>1, FS_Subset
  <2> HIDE DEF C, f
  <2> QED BY <2>3, <2>4, FS_Injection
<1>8. n > 0 => \E s \in Range(ss) : Made(s)
  <2>1. n > 0 => C # {}
    <3> HIDE DEF C
    <3> QED BY FS_EmptySet, <1>5
  <2>2. C # {} => \E s \in Range(ss) : Made(s)
    BY DEF Range
  <2> QED BY <2>1, <2>2
<1> QED BY <1>5, <1>6, <1>7, <1>8 DEF countSlideResultsByIDs

(* A patched result is never empty. *)
LEMMA PatchedType ==
  ASSUME NEW ss \in Seq(Slide), NEW s \in Slide
  PROVE  Patched(ss, s) \in Seq(Slide) /\ Patched(ss, s) # <<>>
<1>1. CASE Has(ss, s.id)
  <2>1. First(ss, s.id) \in DOMAIN ss
    BY <1>1, PlaceOf
  <2>2. ss # <<>>
    BY <2>1
  <2> QED BY <1>1, <2>1, <2>2 DEF Patched
<1>2. CASE ~Has(ss, s.id)
  BY <1>2 DEF Patched
<1> QED BY <1>1, <1>2

(* A judged result that is called succeeded has a slide. *)
LEMMA JudgedType ==
  ASSUME NEW ss \in Seq(Slide), ss # <<>>
  PROVE  /\ Judged(ss) \in Record
         /\ Judged(ss).status = "succeeded" => \E s \in Range(Judged(ss).slides) : Made(s)
BY DEF Judged, Record, Statuses, AllFailed

(* What is asked for is in the outline, and that much is reserved.         *)
LEMMA AskFacts ==
  ASSUME outline \in Outlines, NEW ask \in Asks
  PROVE  /\ ask[1] \subseteq Range(outline) /\ ask[1] \in SUBSET Ids
         /\ ask[2] \in {Len(outline), Cardinality(ask[1])} /\ ask[2] \in Nat
<1>1. ask[1] \subseteq Range(outline) /\ ask[2] \in {Len(outline), Cardinality(ask[1])}
  BY DEF Asks
<1>2. Range(outline) \subseteq Ids /\ Len(outline) \in Nat /\ IsFiniteSet(Range(outline))
  BY OutlineFacts
<1>3. Cardinality(ask[1]) \in Nat
  BY <1>1, <1>2, FS_Subset, FS_CardinalityType
<1> QED BY <1>1, <1>2, <1>3

LEMMA EmptyFacts ==
  /\ Empty \in Record /\ Empty.status = "queued" /\ Empty.slides = <<>>
  /\ <<>> \in Seq(Slide) /\ 0 \in Nat /\ {} \in SUBSET Ids /\ TRUE \in BOOLEAN
  /\ "new" \in PCs /\ "done" \in PCs
BY DEF Empty, Record, Statuses, Open, PCs

LEMMA IdleFacts ==
  /\ Idle \in Work /\ Idle.pc = "new" /\ Idle.charged = 0 /\ Idle.size = 0
  /\ Idle.targets = {} /\ Idle.existing = <<>> /\ Idle.slides = <<>> /\ Idle.rec = Empty
<1> HIDE DEF Empty
<1> QED BY EmptyFacts DEF Idle, Work

LEMMA DoneFacts ==
  /\ Done \in Work /\ Done.pc = "done" /\ Done.charged = 0 /\ Done.size = 0
  /\ Done.targets = {} /\ Done.existing = <<>> /\ Done.slides = <<>> /\ Done.rec = Empty
  /\ \A w : Fit(w, Done)
<1>1. /\ Done \in Work /\ Done.pc = "done" /\ Done.charged = 0 /\ Done.size = 0
      /\ Done.targets = {} /\ Done.existing = <<>> /\ Done.slides = <<>> /\ Done.rec = Empty
  BY EmptyFacts, IdleFacts DEF Done, Work
<1>2. Cardinality({}) = 0
  BY FS_EmptySet
<1>3. \A w : Fit(w, Done)
  <2>1. Done.size = Cardinality(Done.targets)
    BY <1>1, <1>2
  <2> QED BY <1>1, <2>1 DEF Fit
<1> QED BY <1>1, <1>3

-----------------------------------------------------------------------------
LEMMA InitInv == Init => IInv
<1> SUFFICES ASSUME Init PROVE IInv
  OBVIOUS
<1>1. outline \in Outlines /\ record = Empty /\ cached = Empty /\ apart = FALSE /\ sent = 1
  BY DEF Init
<1>2. PICK ask \in Asks :
        work = [w \in Writers |->
                  IF w \in Runs THEN [Idle EXCEPT !.targets = ask[1], !.size = ask[2]] ELSE Idle]
  BY DEF Init
<1> DEFINE asked == [Idle EXCEPT !.targets = ask[1], !.size = ask[2]]
<1>3. /\ asked \in Work /\ asked.pc = "new" /\ asked.charged = 0
      /\ asked.targets = ask[1] /\ asked.size = ask[2]
  BY <1>1, AskFacts, IdleFacts DEF Work
<1> HIDE DEF asked
<1>4. /\ ask[1] \subseteq Range(outline) /\ ask[2] \in {Len(outline), Cardinality(ask[1])}
      /\ ask[2] \in Nat
  BY <1>1, AskFacts
<1>5. ASSUME NEW w \in Writers
      PROVE  /\ work[w] \in Work /\ work[w].pc = "new" /\ Fit(w, work[w])
  <2>1. CASE w \in Runs
    <3>1. work[w] = asked
      BY <1>2, <2>1 DEF asked
    <3> QED BY <1>3, <1>4, <3>1 DEF Fit
  <2>2. CASE w \notin Runs
    <3>1. work[w] = Idle
      BY <1>2, <2>2
    <3> QED BY IdleFacts, <2>2, <3>1 DEF Fit
  <2> QED BY <2>1, <2>2
<1>6. work \in [Writers -> Work]
  <2>1. work = [w \in Writers |-> work[w]]
    BY <1>2
  <2> QED BY <1>5, <2>1
<1>7. TypeOK
  <2>1. 1 \in 0..QueueCap
    BY SVGResultAssumption
  <2> QED BY <1>1, <1>6, <2>1, EmptyFacts DEF TypeOK
<1>8. Fits
  BY <1>5 DEF Fits
<1>9. Synced /\ SucceededShows
  BY <1>1, <1>5, EmptyFacts DEF Synced, Caching, SucceededShows
<1> QED BY <1>7, <1>8, <1>9 DEF IInv

(* One writer goes from its locals to t.  The others are as they were.     *)
LEMMA WorkStep ==
  ASSUME TypeOK, Fits, NEW w \in Writers, NEW t \in Work, Fit(w, t),
         work' = [work EXCEPT ![w] = t], outline' = outline
  PROVE  /\ work' \in [Writers -> Work] /\ work'[w] = t /\ Fits'
         /\ \A v \in Writers \ {w} : work'[v] = work[v]
<1>1. /\ work' \in [Writers -> Work] /\ work'[w] = t
      /\ \A v \in Writers \ {w} : work'[v] = work[v]
  BY DEF TypeOK
<1>2. \A v \in Writers : Fit(v, work'[v])
  BY <1>1 DEF Fits
<1>3. Fits'
  BY <1>2 DEF Fits, Fit, Distinct
<1> QED BY <1>1, <1>3

(* It neither saves nor caches. *)
LEMMA QuietStep ==
  ASSUME IInv, NEW w \in Writers, NEW t \in Work, Fit(w, t),
         work' = [work EXCEPT ![w] = t], sent' \in 0..QueueCap,
         UNCHANGED <<outline, record, cached, apart>>,
         work[w].pc \notin CachingPCs, t.pc \notin CachingPCs
  PROVE  IInv'
<1>1. /\ work' \in [Writers -> Work] /\ work'[w] = t /\ Fits'
      /\ \A v \in Writers \ {w} : work'[v] = work[v]
  BY WorkStep DEF IInv
<1>2. TypeOK'
  BY <1>1 DEF IInv, TypeOK
<1>3. /\ \A v \in Writers : Caching(v)' <=> Caching(v)
      /\ \A v \in Writers : Caching(v) => work'[v] = work[v]
  BY <1>1 DEF Caching, CachingPCs
<1>4. Synced' /\ SucceededShows'
  BY <1>3 DEF IInv, Synced, SucceededShows
<1> QED BY <1>1, <1>2, <1>4 DEF IInv

(* It saves, or fails to, and goes on to cache what it has. *)
LEMMA SaveStep ==
  ASSUME IInv, NEW w \in Writers, NEW t \in Work, Fit(w, t),
         work' = [work EXCEPT ![w] = t], UNCHANGED <<outline, cached, sent>>,
         work[w].pc \notin CachingPCs, t.pc \in CachingPCs,
         \/ record' = t.rec /\ apart' = \E v \in Writers \ {w} : Caching(v)
         \/ record' = record /\ apart' = TRUE,
         t.rec.status = "succeeded" => \E s \in Range(t.rec.slides) : Made(s)
  PROVE  IInv'
<1>1. /\ work' \in [Writers -> Work] /\ work'[w] = t /\ Fits'
      /\ \A v \in Writers \ {w} : work'[v] = work[v]
  BY WorkStep DEF IInv
<1>2. TypeOK'
  BY <1>1 DEF IInv, TypeOK, Work
<1>3. Caching(w)' /\ \A v \in Writers \ {w} : Caching(v)' <=> Caching(v)
  BY <1>1 DEF Caching, CachingPCs
<1>4. Synced'
  <2> SUFFICES ASSUME ~apart' PROVE Synced'
    BY DEF Synced
  <2>1. record' = t.rec /\ \A v \in Writers \ {w} : ~Caching(v)
    BY <1>1
  <2>2. \A v \in Writers : Caching(v)' => v = w
    BY <1>3, <2>1
  <2>3. work'[w].rec = record'
    BY <1>1, <2>1
  <2> QED BY <1>3, <2>2, <2>3 DEF Synced
<1>5. SucceededShows'
  BY DEF IInv, SucceededShows
<1> QED BY <1>1, <1>2, <1>4, <1>5 DEF IInv

(* It caches what it has. *)
LEMMA CacheStep ==
  ASSUME IInv, NEW w \in Writers, NEW t \in Work, Fit(w, t),
         work' = [work EXCEPT ![w] = t], cached' = work[w].rec,
         UNCHANGED <<outline, record, sent, apart>>,
         work[w].pc \in CachingPCs, t.pc \notin CachingPCs
  PROVE  IInv'
<1>1. /\ work' \in [Writers -> Work] /\ work'[w] = t /\ Fits'
      /\ \A v \in Writers \ {w} : work'[v] = work[v]
  BY WorkStep DEF IInv
<1>2. TypeOK'
  BY <1>1 DEF IInv, TypeOK, Work
<1>3. Caching(w) /\ ~Caching(w)' /\ \A v \in Writers \ {w} : Caching(v)' <=> Caching(v)
  BY <1>1 DEF Caching, CachingPCs
<1>4. Synced'
  BY <1>1, <1>3 DEF IInv, Synced
<1>5. SucceededShows'
  BY DEF IInv, SucceededShows
<1> QED BY <1>1, <1>2, <1>4, <1>5 DEF IInv

-----------------------------------------------------------------------------
(* The forms in which the actions change the locals of a writer.           *)

LEMMA Places ==
  /\ \A pc \in {"new", "load", "start", "run", "fail", "sync", "finish", "save", "recover",
                 "send", "done"} :
       pc \in PCs /\ pc \notin CachingPCs
  /\ CachingPCs \subseteq PCs
BY DEF PCs, CachingPCs

LEMMA Apart ==
  /\ Runs \subseteq Writers /\ Others \subseteq Writers
  /\ \A w \in Others : w \notin Runs
BY SVGResultAssumption DEF Writers

Moves(w, pc, rec) == work' = [work EXCEPT ![w].pc = pc, ![w].rec = rec]
Works(w, pc, slides, charge, ok) ==
  work' = [work EXCEPT ![w].pc = pc, ![w].slides = slides, ![w].charged = charge, ![w].ok = ok]

LEMMA WorkEnds ==
  ASSUME IInv, NEW w \in Writers, Ends(w)
  PROVE  work' = [work EXCEPT ![w] = Done] /\ Done \in Work /\ Fit(w, Done)
                                          /\ Done.pc = "done" /\ Done.pc \notin CachingPCs
BY DoneFacts, Places DEF Ends, Done

LEMMA WorkMoves ==
  ASSUME IInv, NEW w \in Writers, NEW pc \in PCs, NEW rec \in Record,
         Moves(w, pc, rec),
         pc \notin {"new", "finish", "sync", "save"}, pc = "run" => w \in Runs
  PROVE  \E t \in Work : /\ Fit(w, t) /\ work' = [work EXCEPT ![w] = t]
                         /\ t.pc = pc /\ t.rec = rec
<1> DEFINE t == [work[w] EXCEPT !.pc = pc, !.rec = rec]
<1>1. work[w] \in Work /\ Fit(w, work[w])
  BY DEF IInv, TypeOK, Fits
<1>2. work' = [work EXCEPT ![w] = t]
  BY DEF Moves, IInv, TypeOK
<1>3. /\ t.pc = pc /\ t.rec = rec /\ t.charged = work[w].charged
      /\ t.targets = work[w].targets /\ t.size = work[w].size
  BY <1>1 DEF Work
<1>4. t \in Work
  BY <1>1 DEF Work
<1> HIDE DEF t
<1>5. Fit(w, t)
  BY <1>1, <1>3 DEF Fit
<1> QED BY <1>2, <1>3, <1>4, <1>5

LEMMA WorkGoes ==
  ASSUME IInv, NEW w \in Writers, NEW pc \in PCs, Go(w, pc),
         pc \notin {"new", "finish", "sync", "save"}, pc = "run" => w \in Runs
  PROVE  \E t \in Work : /\ Fit(w, t) /\ work' = [work EXCEPT ![w] = t]
                         /\ t.pc = pc
<1> DEFINE rec == work[w].rec
<1>1. rec \in Record /\ Moves(w, pc, rec)
  BY DEF Moves, Go, IInv, TypeOK, Work
<1> HIDE DEF rec
<1> QED BY <1>1, WorkMoves

(* A save, or a worker's failed one, of a record that may be saved.        *)
LEMMA SavesOrNot ==
  ASSUME IInv, NEW w \in Writers, NEW next \in Record, NEW then \in CachingPCs,
         Saves(w, next, then) \/ Unsaved(w, next, then),
         work[w].pc \notin CachingPCs, UNCHANGED <<outline, cached, sent>>,
         next.status = "succeeded" => \E s \in Range(next.slides) : Made(s)
  PROVE  IInv'
<1>1. then \in PCs /\ then \notin {"new", "finish", "sync", "save"}
  BY DEF CachingPCs, PCs
<1>2. /\ Moves(w, then, next) /\ then # "run"
      /\ \/ record' = next /\ apart' = \E v \in Writers \ {w} : Caching(v)
         \/ record' = record /\ apart' = TRUE
  BY DEF Saves, Unsaved, Moves, CachingPCs
<1>3. PICK t \in Work : /\ Fit(w, t) /\ work' = [work EXCEPT ![w] = t]
                        /\ t.pc = then /\ t.rec = next
  BY <1>1, <1>2, WorkMoves
<1> QED BY <1>2, <1>3, SaveStep

LEMMA CachesThen ==
  ASSUME IInv, NEW w \in Writers, NEW then \in {"run", "send", "done"}, Caches(w, then),
         then = "run" => w \in Runs,
         work[w].pc \in CachingPCs, UNCHANGED <<outline, record, sent, apart>>
  PROVE  IInv'
<1>1. /\ then \in PCs /\ then \notin CachingPCs
      /\ then \notin {"new", "finish", "sync", "save"} /\ cached' = work[w].rec
  BY Places DEF Caches
<1>2. PICK t \in Work : /\ Fit(w, t) /\ work' = [work EXCEPT ![w] = t]
                        /\ t.pc = then
  <2>1. CASE then = "done"
    BY <1>1, <2>1, WorkEnds DEF Caches
  <2>2. CASE then # "done"
    BY <1>1, <2>2, WorkGoes DEF Caches
  <2> QED BY <2>1, <2>2
<1> QED BY <1>1, <1>2, CacheStep

LEMMA EndsQuietly ==
  ASSUME IInv, NEW w \in Writers, Ends(w), work[w].pc \notin CachingPCs,
         UNCHANGED <<outline, record, cached, apart>>, sent' \in 0..QueueCap
  PROVE  IInv'
BY WorkEnds, QuietStep

(* A patch or child that could not save, whether the store applied it.     *)
LEMMA RefusedStep ==
  ASSUME IInv, NEW w \in Writers, NEW next \in Record, Refused(w, next),
         work[w].pc \notin CachingPCs, UNCHANGED <<outline, cached, sent>>,
         next.status = "succeeded" => \E s \in Range(next.slides) : Made(s)
  PROVE  IInv'
<1>1. Ends(w) /\ sent' \in 0..QueueCap
  BY DEF Refused, IInv, TypeOK
<1>2. CASE UNCHANGED <<record, apart>>
  BY <1>1, <1>2, EndsQuietly
<1>3. CASE record' = next /\ apart' = TRUE
  <2>1. work' \in [Writers -> Work] /\ Fits'
    BY <1>1, WorkEnds, WorkStep DEF IInv
  <2>2. TypeOK'
    BY <1>3, <2>1 DEF IInv, TypeOK
  <2>3. Synced' /\ SucceededShows'
    BY <1>3 DEF Synced, SucceededShows
  <2> QED BY <2>1, <2>2, <2>3 DEF IInv
<1> QED BY <1>2, <1>3 DEF Refused

(* The non-blocking send. *)
LEMMA SendsStep == TypeOK /\ Sends => sent' \in 0..QueueCap
BY SVGResultAssumption DEF TypeOK, Sends

-----------------------------------------------------------------------------
(* The job and its children.                                               *)

LEMMA CreateStep ==
  ASSUME IInv, NEW w \in Others, handleCreateSVGJob(w)
  PROVE  IInv'
<1>1. /\ w \in Writers /\ work[w] \in Work /\ Fit(w, work[w]) /\ work[w].pc = "new"
      /\ outline \in Outlines /\ cached.slides \in Seq(Slide)
  BY Apart DEF handleCreateSVGJob, IInv, TypeOK, Fits, Record
<1>2. PICK ask \in Asks :
        work' = [work EXCEPT ![w].pc = "run", ![w].targets = ask[1], ![w].size = ask[2],
                             ![w].existing = cached.slides]
  BY DEF handleCreateSVGJob
<1> DEFINE t == [work[w] EXCEPT !.pc = "run", !.targets = ask[1], !.size = ask[2],
                                !.existing = cached.slides]
<1>3. work' = [work EXCEPT ![w] = t]
  BY <1>2 DEF IInv, TypeOK
<1>4. /\ ask[1] \subseteq Range(outline) /\ ask[1] \in SUBSET Ids
      /\ ask[2] \in {Len(outline), Cardinality(ask[1])} /\ ask[2] \in Nat
  BY <1>1, AskFacts
<1>5. /\ t \in Work /\ t.pc = "run" /\ t.targets = ask[1] /\ t.size = ask[2]
      /\ t.charged = work[w].charged
  <2>1. "run" \in PCs
    BY Places
  <2> QED BY <1>1, <1>4, <2>1 DEF Work
<1> HIDE DEF t
<1>6. work[w].charged = 0
  BY <1>1 DEF Fit
<1>7. Fit(w, t)
  BY <1>4, <1>5, <1>6 DEF Fit
<1>8. /\ UNCHANGED <<outline, record, cached, apart>> /\ sent' \in 0..QueueCap
      /\ work[w].pc \notin CachingPCs /\ t.pc \notin CachingPCs
  BY <1>1, <1>5, Places DEF handleCreateSVGJob, IInv, TypeOK
<1> QED BY <1>1, <1>3, <1>5, <1>7, <1>8, QuietStep

LEMMA TakeStep ==
  ASSUME IInv, NEW w \in Runs, WorkerTake(w)
  PROVE  IInv'
<1>1. /\ w \in Writers /\ "load" \in PCs /\ Go(w, "load") /\ work[w].pc \notin CachingPCs
      /\ UNCHANGED <<outline, record, cached, apart>> /\ "load" \notin CachingPCs
  BY Apart, Places DEF WorkerTake
<1>2. sent' \in 0..QueueCap
  BY SVGResultAssumption DEF WorkerTake, IInv, TypeOK
<1>3. PICK t \in Work : Fit(w, t) /\ work' = [work EXCEPT ![w] = t] /\ t.pc = "load"
  BY <1>1, WorkGoes
<1> QED BY <1>1, <1>2, <1>3, QuietStep

LEMMA LoadStep ==
  ASSUME IInv, NEW w \in Runs, WorkerLoad(w)
  PROVE  IInv'
<1>1. PICK job \in {cached, record} : Moves(w, "start", job)
  BY DEF WorkerLoad, Moves
<1>2. /\ w \in Writers /\ job \in Record /\ "start" \in PCs /\ work[w].pc \notin CachingPCs
      /\ "start" \notin CachingPCs
      /\ UNCHANGED <<outline, record, cached, apart>> /\ sent' \in 0..QueueCap
  BY Apart, Places DEF WorkerLoad, IInv, TypeOK
<1>3. PICK t \in Work : Fit(w, t) /\ work' = [work EXCEPT ![w] = t] /\ t.pc = "start"
  BY <1>1, <1>2, WorkMoves
<1> QED BY <1>2, <1>3, QuietStep

LEMMA StartStep ==
  ASSUME IInv, NEW w \in Runs, WorkerStart(w)
  PROVE  IInv'
<1> DEFINE running == [work[w].rec EXCEPT !.status = "running"]
<1>1. w \in Writers /\ work[w].rec \in Record
  BY Apart DEF IInv, TypeOK, Work
<1>2. running \in Record /\ running.status # "succeeded"
  BY <1>1 DEF Record, Statuses, Open
<1>3. /\ Saves(w, running, "startCache") \/ Unsaved(w, running, "startCache")
      /\ work[w].pc = "start" /\ UNCHANGED <<outline, cached, sent>>
  BY DEF WorkerStart
<1>4. "startCache" \in CachingPCs /\ "start" \notin CachingPCs
  BY DEF CachingPCs
<1> HIDE DEF running
<1> QED BY <1>1, <1>2, <1>3, <1>4, SavesOrNot

LEMMA FinishStep ==
  ASSUME IInv, NEW w \in Runs, WorkerFinish(w)
  PROVE  IInv'
<1> DEFINE failed == work[w].pc = "fail"
           next   == [status |-> IF work[w].ok /\ ~failed THEN "succeeded" ELSE "failed",
                      slides |-> IF failed THEN work[w].rec.slides ELSE work[w].slides]
<1>1. w \in Writers /\ work[w] \in Work /\ Fit(w, work[w])
  BY Apart DEF IInv, TypeOK, Fits
<1>2. next \in Record
  BY <1>1 DEF Record, Statuses, Open, Work
<1>3. next.status = "succeeded" => \E s \in Range(next.slides) : Made(s)
  BY <1>1 DEF Fit, WorkerFinish
<1>4. /\ Saves(w, next, "finishCache") \/ Unsaved(w, next, "finishCache")
      /\ work[w].pc \in {"finish", "fail"} /\ UNCHANGED <<outline, cached, sent>>
  BY DEF WorkerFinish
<1>5. "finishCache" \in CachingPCs /\ "finish" \notin CachingPCs /\ "fail" \notin CachingPCs
  BY DEF CachingPCs
<1> HIDE DEF next, failed
<1> QED BY <1>1, <1>2, <1>3, <1>4, <1>5, SavesOrNot

(* What the job makes: a slide for each entry of the outline, and some of  *)
(* the targets at least when they are counted.                             *)
LEMMA RunStep ==
  ASSUME IInv, NEW w \in Writers, runSVGJob(w)
  PROVE  IInv'
<1>1. /\ work[w] \in Work /\ Fit(w, work[w]) /\ work[w].pc = "run"
      /\ UNCHANGED <<outline, record, cached, sent, apart>>
      /\ sent' \in 0..QueueCap /\ outline \in Outlines
  BY DEF runSVGJob, IInv, TypeOK, Fits
<1> DEFINE targets    == work[w].targets
           Deck(made)  == upsertSlide(mergeExistingSlides(work[w].existing), made)
           Count(made) == countSlideResultsByIDs(Deck(made), targets)
           next        == IF w \in Runs THEN "finish" ELSE "sync"
<1>2. PICK made \in [targets -> {w, NoSVG}] :
        \/ Works(w, next, Deck(made), Count(made), Count(made) > 0)
        \/ Count(made) > 0 /\ w \in Runs /\ Works(w, "finish", Deck(made), 0, FALSE)
        \/ Count(made) > 0 /\ w \in Others /\ Ends(w)
  BY DEF runSVGJob, Works
<1> DEFINE slides  == Deck(made)
           success == countSlideResultsByIDs(slides, targets)
<1>b. \/ Works(w, next, slides, success, success > 0)
      \/ success > 0 /\ w \in Runs /\ Works(w, "finish", slides, 0, FALSE)
      \/ success > 0 /\ w \in Others /\ Ends(w)
  BY <1>2
<1>3. /\ targets \in SUBSET Range(outline) /\ targets \in SUBSET Ids
      /\ work[w].size \in {Len(outline), Cardinality(targets)} /\ work[w].size \in Nat
      /\ work[w].existing \in Seq(Slide)
  BY <1>1, OutlineFacts DEF Fit, Work
<1>4. /\ slides \in Seq(Slide) /\ Len(slides) = Len(outline)
      /\ \A i \in 1..Len(outline) : slides[i].id = outline[i]
  <2> HIDE DEF targets
  <2> QED BY <1>1, <1>3, DeckType, OutlineFacts
<1> HIDE DEF slides
<1>5. /\ success \in Nat /\ success <= Len(outline)
      /\ Distinct => success <= Cardinality(targets)
      /\ success > 0 => \E s \in Range(slides) : Made(s)
  <2> HIDE DEF targets
  <2> QED BY <1>1, <1>3, <1>4, CountBound
<1> HIDE DEF success, targets
<1>6. slides # <<>>
  BY <1>1, <1>4, OutlineFacts
<1>7. ASSUME NEW pc \in {"finish", "sync"}, NEW charge \in {success, 0}, NEW ok \in BOOLEAN,
             w \in Runs => pc = "finish", w \notin Runs => pc = "sync",
             ok => success > 0,
             Works(w, pc, slides, charge, ok)
      PROVE  IInv'
  <2> DEFINE t == [work[w] EXCEPT !.pc = pc, !.slides = slides, !.charged = charge, !.ok = ok]
  <2>1. work' = [work EXCEPT ![w] = t]
    BY <1>7 DEF Works, IInv, TypeOK
  <2>2. /\ t.pc = pc /\ t.slides = slides /\ t.charged = charge /\ t.ok = ok
        /\ t.targets = work[w].targets /\ t.size = work[w].size
    BY <1>1 DEF Work
  <2>3. t \in Work
    <3>1. pc \in PCs /\ charge \in Nat
      BY <1>5, Places
    <3> QED BY <1>1, <1>4, <3>1 DEF Work
  <2> HIDE DEF t
  <2>4. Fit(w, t)
    <3>1. t.pc = "finish" /\ t.ok => \E s \in Range(t.slides) : Made(s)
      BY <1>5, <1>7, <2>2
    <3>2. t.slides # <<>> /\ t.pc # "save"
      BY <1>6, <2>2
    <3>4. /\ t.targets \subseteq Range(outline)
          /\ t.size \in {Len(outline), Cardinality(t.targets)}
      BY <1>3, <2>2 DEF targets
    <3>5. t.pc # "new" /\ (Distinct => t.charged <= t.size)
      BY <1>3, <1>5, <2>2
    <3> QED BY <3>1, <3>2, <3>4, <3>5 DEF Fit
  <2>5. work[w].pc \notin CachingPCs /\ t.pc \notin CachingPCs
    BY <1>1, <2>2, Places
  <2> QED BY <1>1, <2>1, <2>3, <2>4, <2>5, QuietStep
<1> DEFINE some == success > 0
<1>c. /\ some \in BOOLEAN /\ (some => success > 0) /\ FALSE \in BOOLEAN
      /\ "finish" \in {"finish", "sync"} /\ "sync" \in {"finish", "sync"}
      /\ success \in {success, 0} /\ 0 \in {success, 0}
  OBVIOUS
<1>d. \/ Works(w, next, slides, success, some)
      \/ w \in Runs /\ Works(w, "finish", slides, 0, FALSE)
      \/ w \in Others /\ Ends(w)
  BY <1>b
<1> HIDE DEF some
<1>8. CASE w \in Runs
  <2>1. CASE Works(w, "finish", slides, success, some)
    BY <1>c, <1>7, <1>8, <2>1
  <2>2. CASE Works(w, "finish", slides, 0, FALSE)
    BY <1>c, <1>7, <1>8, <2>2
  <2>3. w \notin Others /\ next = "finish"
    BY <1>8, Apart
  <2> QED BY <1>d, <2>1, <2>2, <2>3
<1>9. CASE w \notin Runs
  <2>1. CASE Ends(w)
    BY <1>1, <2>1, Places, EndsQuietly
  <2>2. CASE ~Ends(w)
    <3>a. w \in Others
      BY <1>9 DEF Writers
    <3>1. Works(w, "sync", slides, success, some)
      BY <1>d, <1>9, <2>2
    <3> QED BY <1>c, <1>7, <1>9, <3>1, <3>a
  <2> QED BY <2>1, <2>2
<1> QED BY <1>8, <1>9

LEMMA FailStep ==
  ASSUME IInv, NEW w \in Writers, RunFails(w)
  PROVE  IInv'
<1>1. /\ work[w].pc = "run" /\ work[w].pc \notin CachingPCs
      /\ UNCHANGED <<outline, record, cached, sent, apart>> /\ sent' \in 0..QueueCap
  BY Places DEF RunFails, IInv, TypeOK
<1>2. CASE w \in Runs
  <2>1. PICK t \in Work : /\ Fit(w, t) /\ work' = [work EXCEPT ![w] = t] /\ t.pc = "fail"
    <3>1. Go(w, "fail")
      BY <1>2 DEF RunFails
    <3> QED BY <1>1, <3>1, Places, WorkGoes
  <2> QED BY <1>1, <2>1, Places, QuietStep
<1>3. CASE w \notin Runs
  BY <1>1, <1>3, EndsQuietly DEF RunFails
<1> QED BY <1>2, <1>3

LEMMA SyncStep ==
  ASSUME IInv, NEW w \in Others, SyncSave(w)
  PROVE  IInv'
<1>1. /\ w \in Writers /\ work[w] \in Work /\ Fit(w, work[w]) /\ work[w].pc = "sync"
      /\ UNCHANGED <<outline, cached, sent>> /\ work[w].pc \notin CachingPCs
  BY Apart, Places DEF SyncSave, IInv, TypeOK, Fits
<1> DEFINE next == Judged(work[w].slides)
<1>2. /\ next \in Record
      /\ next.status = "succeeded" => \E s \in Range(next.slides) : Made(s)
  BY <1>1, JudgedType DEF Fit, Work
<1> HIDE DEF next
<1>3. CASE Saves(w, next, "syncCache")
  <2>1. "syncCache" \in CachingPCs
    BY DEF CachingPCs
  <2> QED BY <1>1, <1>2, <1>3, <2>1, SavesOrNot
<1>4. CASE Refused(w, next)
  BY <1>1, <1>2, <1>4, RefusedStep
<1> QED BY <1>3, <1>4 DEF SyncSave, next

-----------------------------------------------------------------------------
(* The requests for one slide.                                             *)

LEMMA OneStep ==
  ASSUME IInv, NEW w \in Others, handleGenerateOneSVG(w)
  PROVE  IInv'
<1>1. /\ w \in Writers /\ work[w] \in Work /\ Fit(w, work[w]) /\ work[w].pc = "new"
      /\ UNCHANGED <<outline, record, cached, apart>> /\ sent' \in 0..QueueCap
      /\ Range(outline) \subseteq Ids /\ record \in Record
  BY Apart, OutlineFacts DEF handleGenerateOneSVG, IInv, TypeOK, Fits
<1>2. PICK id \in Range(outline), svg \in {w, NoSVG} :
       work' = [work EXCEPT ![w].pc = "save", ![w].targets = {id}, ![w].size = 1,
                            ![w].slides = <<[id |-> id, svg |-> svg]>>,
                            ![w].charged = IF svg = NoSVG THEN 0 ELSE 1, ![w].rec = record]
  BY DEF handleGenerateOneSVG
<1> DEFINE slide  == [id |-> id, svg |-> svg]
           charge == IF svg = NoSVG THEN 0 ELSE 1
           t == [work[w] EXCEPT !.pc = "save", !.targets = {id}, !.size = 1,
                                !.slides = <<slide>>, !.charged = charge, !.rec = record]
<1>3. work' = [work EXCEPT ![w] = t]
  BY <1>2 DEF IInv, TypeOK
<1>4. slide \in Slide /\ charge \in {0, 1}
  BY <1>1 DEF Slide
<1> HIDE DEF slide, charge
<1>5. t.pc = "save" /\ t.slides = <<slide>> /\ t.size = 1 /\ t.charged = charge
  BY <1>1 DEF Work
<1>6. t \in Work
  <2>1. "save" \in PCs /\ {id} \in SUBSET Ids /\ <<slide>> \in Seq(Slide) /\ charge \in Nat
    BY <1>1, <1>4, Places
  <2> QED BY <1>1, <2>1 DEF Work
<1> HIDE DEF t
<1>7. Fit(w, t)
  BY <1>4, <1>5, Apart DEF Fit
<1>8. work[w].pc \notin CachingPCs /\ t.pc \notin CachingPCs
  BY <1>1, <1>5, Places
<1> QED BY <1>1, <1>3, <1>6, <1>7, <1>8, QuietStep

LEMMA PatchStep ==
  ASSUME IInv, NEW w \in Others, PatchSVGSlide(w)
  PROVE  IInv'
<1>1. /\ w \in Writers /\ work[w] \in Work /\ Fit(w, work[w]) /\ work[w].pc = "save"
      /\ UNCHANGED <<outline, cached, sent>> /\ work[w].pc \notin CachingPCs
  BY Apart, Places DEF PatchSVGSlide, IInv, TypeOK, Fits
<1> DEFINE patched == Patched(work[w].rec.slides, work[w].slides[1])
           next    == Judged(patched)
<1>2. patched \in Seq(Slide) /\ patched # <<>>
  <2>1. work[w].slides \in Seq(Slide) /\ Len(work[w].slides) = 1
    BY <1>1 DEF Fit, Work
  <2>2. work[w].slides[1] \in Slide /\ work[w].rec.slides \in Seq(Slide)
    BY <1>1, <2>1 DEF Work, Record
  <2> QED BY <2>2, PatchedType
<1> HIDE DEF patched
<1>3. /\ next \in Record
      /\ next.status = "succeeded" => \E s \in Range(next.slides) : Made(s)
  BY <1>2, JudgedType
<1> HIDE DEF next
<1>4. CASE Saves(w, next, "cache")
  <2>1. "cache" \in CachingPCs
    BY DEF CachingPCs
  <2> QED BY <1>1, <1>3, <1>4, <2>1, SavesOrNot
<1>5. CASE Refused(w, next)
  BY <1>1, <1>3, <1>5, RefusedStep
<1> QED BY <1>4, <1>5 DEF PatchSVGSlide, next, patched

-----------------------------------------------------------------------------
(* Recovery and the reaper.                                                *)

LEMMA ListStep ==
  ASSUME IInv, NEW w \in Others, RecoverList(w)
  PROVE  IInv'
<1>1. /\ w \in Writers /\ record \in Record /\ "recover" \in PCs /\ Moves(w, "recover", record)
      /\ work[w].pc \notin CachingPCs /\ "recover" \notin CachingPCs
      /\ UNCHANGED <<outline, record, cached, apart>> /\ sent' \in 0..QueueCap
  BY Apart, Places DEF RecoverList, Moves, IInv, TypeOK
<1>2. PICK t \in Work : Fit(w, t) /\ work' = [work EXCEPT ![w] = t] /\ t.pc = "recover"
  BY <1>1, WorkMoves
<1> QED BY <1>1, <1>2, QuietStep

LEMMA RecoverSaveStep ==
  ASSUME IInv, NEW w \in Others, RecoverSave(w)
  PROVE  IInv'
<1> DEFINE queued == [work[w].rec EXCEPT !.status = "queued"]
<1>1. w \in Writers /\ work[w].rec \in Record
  BY Apart DEF IInv, TypeOK, Work
<1>2. queued \in Record /\ queued.status # "succeeded"
  BY <1>1 DEF Record, Statuses, Open
<1>3. /\ Saves(w, queued, "recoverCache") \/ Unsaved(w, queued, "recoverCache")
      /\ work[w].pc = "recover" /\ UNCHANGED <<outline, cached, sent>>
  BY DEF RecoverSave
<1>4. "recoverCache" \in CachingPCs /\ "recover" \notin CachingPCs
  BY DEF CachingPCs
<1> HIDE DEF queued
<1> QED BY <1>1, <1>2, <1>3, <1>4, SavesOrNot

(* Who skips leaves the cache to whoever finishes the open job.            *)
LEMMA SkipStep ==
  ASSUME IInv, NEW w \in Others, RecoverSkip(w)
  PROVE  IInv'
<1>1. /\ w \in Writers /\ Ends(w) /\ cached.status \in Open /\ outline' = outline
      /\ UNCHANGED <<outline, record, cached, sent, apart>>
  BY Apart DEF RecoverSkip
<1>2. /\ work' \in [Writers -> Work] /\ work'[w] = Done /\ Fits' /\ Done.pc \notin CachingPCs
      /\ \A v \in Writers \ {w} : work'[v] = work[v]
  BY <1>1, WorkEnds, WorkStep DEF IInv
<1>3. TypeOK'
  BY <1>1, <1>2 DEF IInv, TypeOK
<1>4. ~Caching(w)' /\ \A v \in Writers \ {w} : Caching(v)' <=> Caching(v)
  BY <1>2 DEF Caching, CachingPCs
<1>5. Synced' /\ SucceededShows'
  BY <1>1, <1>2, <1>4 DEF IInv, Synced, SucceededShows
<1> QED BY <1>2, <1>3, <1>5 DEF IInv

LEMMA SendStep ==
  ASSUME IInv, NEW w \in Others, RecoverSend(w)
  PROVE  IInv'
<1>1. /\ w \in Writers /\ Ends(w) /\ work[w].pc \notin CachingPCs /\ sent' \in 0..QueueCap
      /\ UNCHANGED <<outline, record, cached, apart>>
  BY Apart, Places, SendsStep DEF RecoverSend, IInv
<1> QED BY <1>1, EndsQuietly

LEMMA ReapStep ==
  ASSUME IInv, ReapStalled
  PROVE  IInv'
<1>1. /\ cached' \in Record /\ cached'.status = "queued" /\ work' = work /\ outline' = outline
      /\ sent' \in 0..QueueCap
  BY SendsStep DEF ReapStalled, IInv, TypeOK, Record, Statuses, Open
<1>2. Fits' /\ \A v \in Writers : Caching(v)' <=> Caching(v)
  BY <1>1 DEF IInv, Fits, Fit, Distinct, Caching
<1>3. "queued" \in Open /\ "queued" # "succeeded"
  BY DEF Open
<1>4. CASE record' = cached' /\ apart' = \E v \in Writers : Caching(v)
  <2>1. TypeOK'
    BY <1>1, <1>4 DEF IInv, TypeOK
  <2>2. Synced' /\ SucceededShows'
    BY <1>1, <1>2, <1>3, <1>4 DEF Synced, SucceededShows
  <2> QED BY <1>2, <2>1, <2>2 DEF IInv
<1>5. CASE UNCHANGED <<record, apart>>
  <2>1. TypeOK'
    BY <1>1, <1>5 DEF IInv, TypeOK
  <2>2. Synced' /\ SucceededShows'
    BY <1>1, <1>2, <1>3, <1>5 DEF IInv, Synced, SucceededShows
  <2> QED BY <1>2, <2>1, <2>2 DEF IInv
<1> QED BY <1>4, <1>5 DEF ReapStalled

-----------------------------------------------------------------------------
LEMMA NextInv == IInv /\ [Next]_vars => IInv'
<1> SUFFICES ASSUME IInv, [Next]_vars PROVE IInv'
  OBVIOUS
<1>1. ASSUME NEW w \in Runs, WorkerStep(w) PROVE IInv'
  <2>1. CASE WorkerTake(w)
    BY <2>1, TakeStep
  <2>2. CASE WorkerLoad(w)
    BY <2>2, LoadStep
  <2>3. CASE WorkerStart(w)
    BY <2>3, StartStep
  <2>4. CASE WorkerCacheRunning(w)
    BY <2>4, Apart, CachesThen DEF WorkerCacheRunning, CachingPCs
  <2>5. CASE WorkerFinish(w)
    BY <2>5, FinishStep
  <2>6. CASE WorkerCacheFinished(w)
    BY <2>6, Apart, CachesThen DEF WorkerCacheFinished, CachingPCs
  <2> QED BY <1>1, <2>1, <2>2, <2>3, <2>4, <2>5, <2>6 DEF WorkerStep
<1>2. ASSUME NEW w \in Writers, runSVGJob(w) PROVE IInv'
  BY <1>2, RunStep
<1>3. ASSUME NEW w \in Writers, RunFails(w) PROVE IInv'
  BY <1>3, FailStep
<1>4. ASSUME NEW w \in Others, handleCreateSVGJob(w) PROVE IInv'
  BY <1>4, CreateStep
<1>5. ASSUME NEW w \in Others, SyncSave(w) PROVE IInv'
  BY <1>5, SyncStep
<1>6. ASSUME NEW w \in Others, SyncCache(w) PROVE IInv'
  BY <1>6, Apart, CachesThen DEF SyncCache, CachingPCs
<1>7. ASSUME NEW w \in Others, handleGenerateOneSVG(w) PROVE IInv'
  BY <1>7, OneStep
<1>8. ASSUME NEW w \in Others, PatchSVGSlide(w) PROVE IInv'
  BY <1>8, PatchStep
<1>9. ASSUME NEW w \in Others, PatchCache(w) PROVE IInv'
  BY <1>9, Apart, CachesThen DEF PatchCache, CachingPCs
<1>10. ASSUME NEW w \in Others, RecoverStep(w) PROVE IInv'
  <2>1. CASE RecoverList(w)
    BY <2>1, ListStep
  <2>2. CASE RecoverSave(w)
    BY <2>2, RecoverSaveStep
  <2>3. CASE RecoverSkip(w)
    BY <2>3, SkipStep
  <2>4. CASE RecoverCache(w)
    BY <2>4, Apart, CachesThen DEF RecoverCache, CachingPCs
  <2>5. CASE RecoverSend(w)
    BY <2>5, SendStep
  <2> QED BY <1>10, <2>1, <2>2, <2>3, <2>4, <2>5 DEF RecoverStep
<1>11. CASE ReapStalled
  BY <1>11, ReapStep
<1>12. CASE UNCHANGED vars
  BY <1>12 DEF vars, IInv, TypeOK, Fits, Fit, Synced, SucceededShows, Caching, Distinct
<1> QED BY <1>1, <1>2, <1>3, <1>4, <1>5, <1>6, <1>7, <1>8, <1>9, <1>10, <1>11, <1>12 DEF Next

LEMMA Inductive == Spec => []IInv
BY InitInv, NextInv, PTL DEF Spec

(* Every writer keeps its types, whatever the outline and however often it *)
(* is run: results are sequences of slides, statuses are known ones.       *)
THEOREM TypeCorrect == Spec => []TypeOK
<1>1. IInv => TypeOK
  BY DEF IInv
<1> QED BY <1>1, Inductive, PTL

(* Execute, syncParentSVGJob, PatchSVGSlide and recovery each save and     *)
(* then cache: when the cache has the job as finished and nobody is        *)
(* writing, clients are answered with the store's record, unless two       *)
(* writers crossed each other or one could not save.  What makes this      *)
(* inductive: a writer that saves alone is the only one that will cache,   *)
(* and recovery that skips its cache and the reaper leave the job open.    *)
THEOREM CacheCorrect == Spec => []CacheFollowsStore
<1>1. IInv => CacheFollowsStore
  BY DEF IInv, Synced, CacheFollowsStore, Caching
<1> QED BY <1>1, Inductive, PTL

(* Whoever wrote the result last, worker, child or patch: a result called  *)
(* succeeded has a slide.                                                  *)
THEOREM SucceededCorrect == Spec => []SucceededShows
<1>1. IInv => SucceededShows
  BY DEF IInv
<1> QED BY <1>1, Inductive, PTL

(* countSlideResultsByIDs never counts more slides than handleCreateSVGJob *)
(* reserved, when the outline has no id twice.                             *)
THEOREM ChargeCorrect == Spec => []ChargedAsReserved
<1>1. IInv => ChargedAsReserved
  BY DEF IInv, Fits, Fit, ChargedAsReserved
<1> QED BY <1>1, Inductive, PTL

-----------------------------------------------------------------------------
(* Others' slides.                                                         *)

(* Slides of the outline, each at most once. *)
Neat(ss) ==
  /\ \A i \in DOMAIN ss : ss[i].id \in Range(outline)
  /\ \A i, k \in DOMAIN ss : ss[i].id = ss[k].id => i = k

SameBut(targets, ss, tt) == \A id \in Ids \ targets : SVGs(ss, id) = SVGs(tt, id)

(* What a writer has made differs from what it was sent only in what it    *)
(* was asked for. *)
Tidy(t) ==
  /\ Neat(t.existing) /\ Neat(t.slides) /\ Neat(t.rec.slides)
  /\ t.pc \in {"finish", "sync"} => SameBut(t.targets, t.slides, t.existing)
  /\ t.pc = "save" => \A i \in DOMAIN t.slides : t.slides[i].id \in t.targets

AllTidy ==
  Distinct =>
    /\ Neat(record.slides) /\ Neat(cached.slides)
    /\ \A w \in Writers : Tidy(work[w])

(* A step of w that keeps this, and what others have. *)
TidyStep(w) ==
  /\ cached' \in {cached, work[w].rec}
  /\ \/ record' = record
     \/ Neat(record'.slides) /\ SameBut(work[w].targets, record'.slides, Seen(w))
  /\ \E t : work' = [work EXCEPT ![w] = t] /\ Tidy(t)

LEMMA SVGsAre ==
  ASSUME NEW ss \in Seq(Slide), NEW id, NEW v
  PROVE  v \in SVGs(ss, id) <=>
           v # NoSVG /\ \E i \in DOMAIN ss : ss[i].id = id /\ ss[i].svg = v
BY DEF SVGs, Range

LEMMA NothingNeat == Neat(<<>>)
BY DEF Neat

(* The deck of a job has, besides its targets, what was sent along. *)
LEMMA DeckOthers ==
  ASSUME outline \in Seq(Ids), Distinct, NEW existing \in Seq(Slide), Neat(existing),
         NEW w \in Writers, NEW targets \in SUBSET Ids, NEW made \in [targets -> {w, NoSVG}]
  PROVE  LET ss == upsertSlide(mergeExistingSlides(existing), made) IN
         Neat(ss) /\ SameBut(targets, ss, existing)
<1> DEFINE merged == mergeExistingSlides(existing)
           ss     == upsertSlide(merged, made)
<1>1. /\ ss \in Seq(Slide) /\ DOMAIN ss = 1..Len(outline) /\ DOMAIN outline = 1..Len(outline)
      /\ \A i \in 1..Len(outline) : ss[i].id = outline[i]
  <2>1. /\ ss \in Seq(Slide) /\ Len(ss) = Len(outline)
        /\ \A i \in 1..Len(outline) : ss[i].id = outline[i]
    BY DeckType
  <2> HIDE DEF ss
  <2> QED BY <2>1
<1>2. ASSUME NEW i \in 1..Len(outline), outline[i] \notin targets
      PROVE  ss[i] = IF Has(existing, outline[i]) THEN existing[Last(existing, outline[i])]
                     ELSE [id |-> outline[i], svg |-> NoSVG]
  <2>1. /\ DOMAIN merged = 1..Len(outline)
        /\ merged[i] = IF Has(existing, outline[i]) THEN existing[Last(existing, outline[i])]
                       ELSE [id |-> outline[i], svg |-> NoSVG]
    BY <1>1 DEF mergeExistingSlides
  <2>2. merged[i].id = outline[i]
    <3>1. CASE Has(existing, outline[i])
      BY <2>1, <3>1, PlaceOf
    <3>2. CASE ~Has(existing, outline[i])
      BY <2>1, <3>2
    <3> QED BY <3>1, <3>2
  <2> HIDE DEF merged
  <2>3. DOMAIN made = targets
    OBVIOUS
  <2>4. ss[i] = merged[i]
    BY <1>2, <2>1, <2>2, <2>3 DEF upsertSlide
  <2> QED BY <2>1, <2>4
<1> HIDE DEF ss
<1>3. Neat(ss)
  BY <1>1 DEF Neat, Distinct, Range
<1>4. ASSUME NEW id \in Ids \ targets, NEW v
      PROVE  v \in SVGs(ss, id) <=> v \in SVGs(existing, id)
  <2>1. ASSUME v \in SVGs(ss, id) PROVE v \in SVGs(existing, id)
    <3>1. PICK i \in 1..Len(outline) : ss[i].id = id /\ ss[i].svg = v
      BY <1>1, <2>1, SVGsAre
    <3>2. v # NoSVG /\ outline[i] = id
      BY <1>1, <2>1, <3>1, SVGsAre
    <3>3. ss[i] = IF Has(existing, id) THEN existing[Last(existing, id)]
                  ELSE [id |-> id, svg |-> NoSVG]
      <4>1. outline[i] \notin targets
        BY <3>2
      <4> QED BY <1>2, <3>2, <4>1
    <3>a. Has(existing, id)
      BY <3>1, <3>2, <3>3
    <3>4. Last(existing, id) \in DOMAIN existing /\ existing[Last(existing, id)].id = id
      BY <3>a, PlaceOf
    <3>5. existing[Last(existing, id)].svg = v
      BY <3>1, <3>3, <3>a
    <3> QED BY <3>2, <3>4, <3>5, SVGsAre
  <2>2. ASSUME v \in SVGs(existing, id) PROVE v \in SVGs(ss, id)
    <3>1. PICK j \in DOMAIN existing : existing[j].id = id /\ existing[j].svg = v
      BY <2>2, SVGsAre
    <3>2. PICK i \in 1..Len(outline) : outline[i] = id
      BY <1>1, <3>1 DEF Neat, Range
    <3>3. Has(existing, id)
      BY <3>1 DEF Has, Range
    <3>4. Last(existing, id) = j
      BY <3>1, <3>3, PlaceOf DEF Neat
    <3>5. ss[i] = existing[j]
      BY <1>2, <3>2, <3>3, <3>4
    <3>6. v # NoSVG
      BY <2>2, SVGsAre
    <3> QED BY <1>1, <3>1, <3>5, <3>6, SVGsAre
  <2> QED BY <2>1, <2>2
<1>5. SameBut(targets, ss, existing)
  <2>1. ASSUME NEW id \in Ids \ targets PROVE SVGs(ss, id) = SVGs(existing, id)
    BY <1>4
  <2> QED BY <2>1 DEF SameBut
<1> QED BY <1>3, <1>5 DEF ss, merged

(* A patch changes its slide. *)
LEMMA PatchedOthers ==
  ASSUME NEW ss \in Seq(Slide), Neat(ss), NEW s \in Slide, s.id \in Range(outline),
         NEW targets, s.id \in targets
  PROVE  Neat(Patched(ss, s)) /\ SameBut(targets, Patched(ss, s), ss)
<1> DEFINE tt == Patched(ss, s)
<1>1. tt \in Seq(Slide)
  BY PatchedType
<1>2. CASE Has(ss, s.id)
  <2> DEFINE f == First(ss, s.id)
  <2>1. f \in DOMAIN ss /\ ss[f].id = s.id
    BY <1>2, PlaceOf
  <2>2. tt = [ss EXCEPT ![f] = s]
    BY <1>2 DEF Patched
  <2> HIDE DEF f, tt
  <2>3. /\ DOMAIN tt = DOMAIN ss /\ tt[f] = s
        /\ \A i \in DOMAIN ss \ {f} : tt[i] = ss[i]
        /\ \A i \in DOMAIN ss : tt[i].id = ss[i].id
    BY <2>1, <2>2
  <2>4. Neat(tt)
    BY <2>3 DEF Neat
  <2>5. ASSUME NEW id \in Ids \ targets, NEW v PROVE v \in SVGs(tt, id) <=> v \in SVGs(ss, id)
    <3>1. \A i \in DOMAIN ss : ss[i].id = id => i # f
      BY <2>1
    <3>2. \A i \in DOMAIN ss : tt[i].id = id /\ tt[i].svg = v <=> ss[i].id = id /\ ss[i].svg = v
      BY <2>3, <3>1
    <3> QED BY <1>1, <2>3, <3>2, SVGsAre
  <2>6. SameBut(targets, tt, ss)
    <3>1. ASSUME NEW id \in Ids \ targets PROVE SVGs(tt, id) = SVGs(ss, id)
      BY <2>5
    <3> QED BY <3>1 DEF SameBut
  <2> QED BY <2>4, <2>6 DEF tt
<1>3. CASE ~Has(ss, s.id)
  <2>1. tt = Append(ss, s)
    BY <1>3 DEF Patched
  <2> HIDE DEF tt
  <2>2. /\ DOMAIN tt = 1..(Len(ss) + 1) /\ DOMAIN ss = 1..Len(ss) /\ Len(ss) \in Nat
        /\ tt[Len(ss) + 1] = s /\ \A i \in 1..Len(ss) : tt[i] = ss[i]
    BY <2>1
  <2>3. \A i \in 1..Len(ss) : ss[i].id # s.id
    BY <1>3, <2>2 DEF Has, Range
  <2>4. \A i \in 1..(Len(ss) + 1) : i \in 1..Len(ss) \/ i = Len(ss) + 1
    BY <2>2
  <2>5. Neat(tt)
    BY <2>2, <2>3, <2>4 DEF Neat
  <2>6. ASSUME NEW id \in Ids \ targets, NEW v PROVE v \in SVGs(tt, id) <=> v \in SVGs(ss, id)
    <3>1. s.id # id
      OBVIOUS
    <3>2. (\E i \in DOMAIN tt : tt[i].id = id /\ tt[i].svg = v)
            <=> \E i \in DOMAIN ss : ss[i].id = id /\ ss[i].svg = v
      <4>1. ASSUME NEW i \in DOMAIN tt, tt[i].id = id, tt[i].svg = v
            PROVE  \E k \in DOMAIN ss : ss[k].id = id /\ ss[k].svg = v
        BY <2>2, <2>4, <3>1, <4>1
      <4>2. ASSUME NEW i \in DOMAIN ss, ss[i].id = id, ss[i].svg = v
            PROVE  \E k \in DOMAIN tt : tt[k].id = id /\ tt[k].svg = v
        BY <2>2, <4>2
      <4> QED BY <4>1, <4>2
    <3> QED BY <1>1, <3>2, SVGsAre
  <2>7. SameBut(targets, tt, ss)
    <3>1. ASSUME NEW id \in Ids \ targets PROVE SVGs(tt, id) = SVGs(ss, id)
      BY <2>6
    <3> QED BY <3>1 DEF SameBut
  <2> QED BY <2>5, <2>7 DEF tt
<1> QED BY <1>2, <1>3

-----------------------------------------------------------------------------
(* The forms of steps again. *)

LEMMA TidyMoves ==
  ASSUME IInv, NEW w \in Writers, Tidy(work[w]), NEW pc, NEW rec, Moves(w, pc, rec),
         Neat(rec.slides), pc \notin {"finish", "sync", "save"}
  PROVE  \E t : work' = [work EXCEPT ![w] = t] /\ Tidy(t)
<1> DEFINE t == [work[w] EXCEPT !.pc = pc, !.rec = rec]
<1>1. work' = [work EXCEPT ![w] = t] /\ work[w] \in Work
  BY DEF Moves, IInv, TypeOK
<1>2. t.pc = pc /\ t.rec = rec /\ t.existing = work[w].existing /\ t.slides = work[w].slides
  BY <1>1 DEF Work
<1> HIDE DEF t
<1>3. Tidy(t)
  BY <1>2 DEF Tidy
<1> QED BY <1>1, <1>3

LEMMA TidyGoes ==
  ASSUME IInv, NEW w \in Writers, Tidy(work[w]), NEW pc, Go(w, pc),
         pc \notin {"finish", "sync", "save"}
  PROVE  \E t : work' = [work EXCEPT ![w] = t] /\ Tidy(t)
<1>1. Moves(w, pc, work[w].rec) /\ Neat(work[w].rec.slides)
  BY DEF Go, Moves, IInv, TypeOK, Work, Tidy
<1> QED BY <1>1, TidyMoves

LEMMA TidyEnds ==
  ASSUME IInv, NEW w \in Writers, Ends(w)
  PROVE  \E t : work' = [work EXCEPT ![w] = t] /\ Tidy(t)
<1>1. /\ work' = [work EXCEPT ![w] = Done] /\ Done.pc = "done" /\ Done.slides = <<>>
      /\ Done.existing = <<>> /\ Done.rec.slides = <<>>
  BY DoneFacts, EmptyFacts DEF Ends, Done
<1>2. Tidy(Done)
  BY <1>1, NothingNeat DEF Tidy
<1> QED BY <1>1, <1>2

LEMMA TidySaves ==
  ASSUME IInv, NEW w \in Writers, Tidy(work[w]), NEW next \in Record, NEW then \in CachingPCs,
         Saves(w, next, then) \/ Unsaved(w, next, then), UNCHANGED cached,
         Neat(next.slides), SameBut(work[w].targets, next.slides, Seen(w))
  PROVE  TidyStep(w)
<1>1. Moves(w, then, next) /\ record' \in {next, record} /\ then \notin {"finish", "sync", "save"}
  BY DEF Saves, Unsaved, Moves, CachingPCs
<1>2. \E t : work' = [work EXCEPT ![w] = t] /\ Tidy(t)
  BY <1>1, TidyMoves
<1>3. CASE record' = record
  BY <1>2, <1>3 DEF TidyStep
<1>4. CASE record' = next
  <2>1. record'.slides = next.slides
    BY <1>4
  <2>2. Neat(record'.slides) /\ SameBut(work[w].targets, record'.slides, Seen(w))
    BY <2>1
  <2> QED BY <1>2, <2>2 DEF TidyStep
<1> QED BY <1>1, <1>3, <1>4

LEMMA TidyRefused ==
  ASSUME IInv, NEW w \in Writers, NEW next \in Record, Refused(w, next), UNCHANGED cached,
         Neat(next.slides), SameBut(work[w].targets, next.slides, Seen(w))
  PROVE  TidyStep(w)
<1>1. \E t : work' = [work EXCEPT ![w] = t] /\ Tidy(t)
  BY TidyEnds DEF Refused
<1>2. CASE record' = record
  BY <1>1, <1>2 DEF TidyStep
<1>3. CASE record' = next
  BY <1>1, <1>3 DEF TidyStep
<1> QED BY <1>2, <1>3 DEF Refused

LEMMA TidyCaches ==
  ASSUME IInv, NEW w \in Writers, Tidy(work[w]), NEW then \in {"run", "send", "done"},
         Caches(w, then), UNCHANGED record
  PROVE  TidyStep(w)
<1>1. \E t : work' = [work EXCEPT ![w] = t] /\ Tidy(t)
  BY TidyEnds, TidyGoes DEF Caches
<1> QED BY <1>1 DEF TidyStep, Caches

-----------------------------------------------------------------------------
LEMMA CreateTidy ==
  ASSUME IInv, Neat(cached.slides), NEW w \in Others, Tidy(work[w]), handleCreateSVGJob(w)
  PROVE  TidyStep(w)
<1>1. w \in Writers /\ work[w] \in Work /\ UNCHANGED <<record, cached>>
  BY Apart DEF handleCreateSVGJob, IInv, TypeOK
<1>2. PICK ask :
        work' = [work EXCEPT ![w].pc = "run", ![w].targets = ask[1], ![w].size = ask[2],
                             ![w].existing = cached.slides]
  BY DEF handleCreateSVGJob
<1> DEFINE t == [work[w] EXCEPT !.pc = "run", !.targets = ask[1], !.size = ask[2],
                                !.existing = cached.slides]
<1>3. work' = [work EXCEPT ![w] = t]
  BY <1>2 DEF IInv, TypeOK
<1>4. /\ t.pc = "run" /\ t.existing = cached.slides /\ t.slides = work[w].slides
      /\ t.rec = work[w].rec
  BY <1>1 DEF Work
<1> HIDE DEF t
<1>5. Tidy(t)
  BY <1>4 DEF Tidy
<1> QED BY <1>1, <1>3, <1>5 DEF TidyStep

LEMMA RunTidy ==
  ASSUME IInv, Distinct, NEW w \in Writers, Tidy(work[w]), runSVGJob(w)
  PROVE  TidyStep(w)
<1>1. /\ work[w] \in Work /\ Fit(w, work[w]) /\ work[w].pc = "run"
      /\ UNCHANGED <<record, cached>> /\ outline \in Outlines
  BY DEF runSVGJob, IInv, TypeOK, Fits
<1> DEFINE targets    == work[w].targets
           Deck(made) == upsertSlide(mergeExistingSlides(work[w].existing), made)
           Count(made) == countSlideResultsByIDs(Deck(made), targets)
           next        == IF w \in Runs THEN "finish" ELSE "sync"
<1>2. PICK made \in [targets -> {w, NoSVG}] :
        \/ Works(w, next, Deck(made), Count(made), Count(made) > 0)
        \/ Count(made) > 0 /\ w \in Runs /\ Works(w, "finish", Deck(made), 0, FALSE)
        \/ Count(made) > 0 /\ w \in Others /\ Ends(w)
  BY DEF runSVGJob, Works
<1> DEFINE slides == Deck(made)
<1>3. targets \in SUBSET Ids /\ work[w].existing \in Seq(Slide) /\ Neat(work[w].existing)
  BY <1>1 DEF Work, Tidy
<1>4. Neat(slides) /\ SameBut(targets, slides, work[w].existing)
  <2> HIDE DEF targets
  <2> QED BY <1>1, <1>3, DeckOthers, OutlineFacts
<1> DEFINE count == Count(made)
           some  == count > 0
<1>5. Works(w, next, slides, count, some) \/ Works(w, "finish", slides, 0, FALSE) \/ Ends(w)
  BY <1>2
<1> HIDE DEF count, some, next, slides, targets
<1>a. next \in {"finish", "sync"} /\ "finish" \in {"finish", "sync"}
  BY DEF next
<1>6. ASSUME NEW pc \in {"finish", "sync"}, NEW charge, NEW ok, Works(w, pc, slides, charge, ok)
      PROVE  \E t : work' = [work EXCEPT ![w] = t] /\ Tidy(t)
  <2> DEFINE t == [work[w] EXCEPT !.pc = pc, !.slides = slides, !.charged = charge, !.ok = ok]
  <2>1. work' = [work EXCEPT ![w] = t]
    BY <1>6 DEF Works, IInv, TypeOK
  <2>2. /\ t.slides = slides /\ t.targets = targets /\ t.existing = work[w].existing
        /\ t.rec = work[w].rec /\ t.pc # "save"
    BY <1>1 DEF Work, targets
  <2> HIDE DEF t
  <2>3. Tidy(t)
    BY <1>4, <2>2 DEF Tidy
  <2> QED BY <2>1, <2>3
<1>7. \E t : work' = [work EXCEPT ![w] = t] /\ Tidy(t)
  BY <1>5, <1>a, <1>6, TidyEnds
<1> QED BY <1>1, <1>7 DEF TidyStep

LEMMA OneTidy ==
  ASSUME IInv, Neat(record.slides), NEW w \in Others, Tidy(work[w]), handleGenerateOneSVG(w)
  PROVE  TidyStep(w)
<1>1. w \in Writers /\ work[w] \in Work /\ UNCHANGED <<record, cached>>
  BY Apart DEF handleGenerateOneSVG, IInv, TypeOK
<1>2. PICK id \in Range(outline), svg \in {w, NoSVG} :
       work' = [work EXCEPT ![w].pc = "save", ![w].targets = {id}, ![w].size = 1,
                            ![w].slides = <<[id |-> id, svg |-> svg]>>,
                            ![w].charged = IF svg = NoSVG THEN 0 ELSE 1, ![w].rec = record]
  BY DEF handleGenerateOneSVG
<1> DEFINE slide  == [id |-> id, svg |-> svg]
           charge == IF svg = NoSVG THEN 0 ELSE 1
           t == [work[w] EXCEPT !.pc = "save", !.targets = {id}, !.size = 1,
                                !.slides = <<slide>>, !.charged = charge, !.rec = record]
<1>3. work' = [work EXCEPT ![w] = t]
  BY <1>2 DEF IInv, TypeOK
<1>4. slide.id = id
  OBVIOUS
<1> HIDE DEF slide, charge
<1>5. /\ t.pc = "save" /\ t.targets = {id} /\ t.slides = <<slide>> /\ t.rec = record
      /\ t.existing = work[w].existing
  BY <1>1 DEF Work
<1> HIDE DEF t
<1>6. DOMAIN <<slide>> = {1} /\ <<slide>>[1] = slide
  OBVIOUS
<1>7. Neat(<<slide>>)
  BY <1>4, <1>6 DEF Neat
<1>8. Tidy(t)
  BY <1>4, <1>5, <1>6, <1>7, Apart DEF Tidy
<1> QED BY <1>1, <1>3, <1>8 DEF TidyStep

LEMMA PatchTidy ==
  ASSUME IInv, NEW w \in Others, Tidy(work[w]), PatchSVGSlide(w)
  PROVE  TidyStep(w)
<1>1. /\ w \in Writers /\ work[w] \in Work /\ Fit(w, work[w]) /\ work[w].pc = "save"
      /\ UNCHANGED cached
  BY Apart DEF PatchSVGSlide, IInv, TypeOK, Fits
<1> DEFINE patched == Patched(work[w].rec.slides, work[w].slides[1])
           next    == Judged(patched)
<1>2. /\ work[w].rec.slides \in Seq(Slide) /\ Neat(work[w].rec.slides)
      /\ work[w].slides \in Seq(Slide) /\ Len(work[w].slides) = 1 /\ Neat(work[w].slides)
  BY <1>1 DEF Work, Record, Tidy, Fit
<1>3. /\ work[w].slides[1] \in Slide /\ work[w].slides[1].id \in Range(outline)
      /\ work[w].slides[1].id \in work[w].targets
  <2>1. 1 \in DOMAIN work[w].slides
    BY <1>2
  <2> QED BY <1>1, <1>2, <2>1 DEF Neat, Tidy
<1>4. /\ patched \in Seq(Slide) /\ patched # <<>> /\ Neat(patched)
      /\ SameBut(work[w].targets, patched, work[w].rec.slides)
  BY <1>2, <1>3, PatchedType, PatchedOthers
<1> HIDE DEF patched
<1>5. next \in Record /\ next.slides = patched /\ Seen(w) = work[w].rec.slides
  BY <1>1, <1>4, JudgedType DEF Judged, Seen
<1> HIDE DEF next
<1>6. CASE Saves(w, next, "cache")
  <2>1. "cache" \in CachingPCs
    BY DEF CachingPCs
  <2> QED BY <1>1, <1>4, <1>5, <1>6, <2>1, TidySaves
<1>7. CASE Refused(w, next)
  BY <1>1, <1>4, <1>5, <1>7, TidyRefused
<1> QED BY <1>6, <1>7 DEF PatchSVGSlide, next, patched

LEMMA SyncTidy ==
  ASSUME IInv, NEW w \in Others, Tidy(work[w]), SyncSave(w)
  PROVE  TidyStep(w)
<1>1. /\ w \in Writers /\ work[w] \in Work /\ Fit(w, work[w])
      /\ work[w].pc = "sync" /\ UNCHANGED cached
  BY Apart DEF SyncSave, IInv, TypeOK, Fits
<1> DEFINE next == Judged(work[w].slides)
<1>2. work[w].slides \in Seq(Slide) /\ work[w].slides # <<>>
  BY <1>1 DEF Fit, Work
<1>3. /\ next \in Record /\ next.slides = work[w].slides /\ Seen(w) = work[w].existing
  BY <1>1, <1>2, JudgedType DEF Judged, Seen
<1>4. Neat(next.slides) /\ SameBut(work[w].targets, next.slides, Seen(w))
  BY <1>1, <1>3 DEF Tidy
<1> HIDE DEF next
<1>5. CASE Saves(w, next, "syncCache")
  <2>1. "syncCache" \in CachingPCs
    BY DEF CachingPCs
  <2> QED BY <1>1, <1>3, <1>4, <1>5, <2>1, TidySaves
<1>6. CASE Refused(w, next)
  BY <1>1, <1>3, <1>4, <1>6, TidyRefused
<1> QED BY <1>5, <1>6 DEF SyncSave, next

LEMMA SameAsSeen == \A targets, ss : SameBut(targets, ss, ss)
BY DEF SameBut

LEMMA StartTidy ==
  ASSUME IInv, NEW w \in Runs, Tidy(work[w]), WorkerStart(w)
  PROVE  TidyStep(w)
<1> DEFINE running == [work[w].rec EXCEPT !.status = "running"]
<1>1. w \in Writers /\ work[w].rec \in Record /\ Neat(work[w].rec.slides)
  BY Apart DEF IInv, TypeOK, Work, Tidy
<1>2. running \in Record /\ running.slides = work[w].rec.slides
  BY <1>1 DEF Record, Statuses, Open
<1>3. /\ Saves(w, running, "startCache") \/ Unsaved(w, running, "startCache")
      /\ UNCHANGED cached /\ Seen(w) = work[w].rec.slides /\ "startCache" \in CachingPCs
  BY DEF WorkerStart, Seen, CachingPCs
<1> HIDE DEF running
<1> QED BY <1>1, <1>2, <1>3, TidySaves, SameAsSeen

LEMMA FinishTidy ==
  ASSUME IInv, NEW w \in Runs, Tidy(work[w]), WorkerFinish(w)
  PROVE  TidyStep(w)
<1> DEFINE failed == work[w].pc = "fail"
           next   == [status |-> IF work[w].ok /\ ~failed THEN "succeeded" ELSE "failed",
                      slides |-> IF failed THEN work[w].rec.slides ELSE work[w].slides]
<1>1. w \in Writers /\ work[w] \in Work
  BY Apart DEF IInv, TypeOK
<1>2. next \in Record
  BY <1>1 DEF Record, Statuses, Open, Work
<1>3. /\ Saves(w, next, "finishCache") \/ Unsaved(w, next, "finishCache")
      /\ work[w].pc \in {"finish", "fail"} /\ UNCHANGED cached
      /\ "finishCache" \in CachingPCs
  BY DEF WorkerFinish, CachingPCs
<1>4. Neat(next.slides) /\ SameBut(work[w].targets, next.slides, Seen(w))
  <2>1. CASE work[w].pc = "fail"
    BY <1>1, <2>1, SameAsSeen DEF Tidy, Seen
  <2>2. CASE work[w].pc = "finish"
    BY <1>1, <2>2 DEF Tidy, Seen
  <2> QED BY <1>3, <2>1, <2>2
<1> HIDE DEF next, failed
<1> QED BY <1>1, <1>2, <1>3, <1>4, TidySaves

LEMMA RecoverSaveTidy ==
  ASSUME IInv, NEW w \in Others, Tidy(work[w]), RecoverSave(w)
  PROVE  TidyStep(w)
<1> DEFINE queued == [work[w].rec EXCEPT !.status = "queued"]
<1>1. w \in Writers /\ work[w].rec \in Record /\ Neat(work[w].rec.slides)
  BY Apart DEF IInv, TypeOK, Work, Tidy
<1>2. queued \in Record /\ queued.slides = work[w].rec.slides
  BY <1>1 DEF Record, Statuses, Open
<1>3. /\ Saves(w, queued, "recoverCache") \/ Unsaved(w, queued, "recoverCache")
      /\ UNCHANGED cached /\ Seen(w) = work[w].rec.slides /\ "recoverCache" \in CachingPCs
  BY DEF RecoverSave, Seen, CachingPCs
<1> HIDE DEF queued
<1> QED BY <1>1, <1>2, <1>3, TidySaves, SameAsSeen

(* Every step is a tidy one of some writer, or the reaper's. *)
LEMMA NextTidy ==
  ASSUME IInv, AllTidy, Distinct, Next
  PROVE  ReapStalled \/ \E w \in Writers : TidyStep(w)
<1>1. /\ Neat(record.slides) /\ Neat(cached.slides)
      /\ \A w \in Writers : Tidy(work[w])
      /\ \A w \in Runs \cup Others : w \in Writers /\ Tidy(work[w])
  BY Apart DEF AllTidy
<1>2. ASSUME NEW w \in Runs, WorkerStep(w) PROVE TidyStep(w)
  <2>1. CASE WorkerTake(w)
    <3>1. \E t : work' = [work EXCEPT ![w] = t] /\ Tidy(t)
      BY <1>1, <2>1, TidyGoes DEF WorkerTake
    <3> QED BY <2>1, <3>1 DEF TidyStep, WorkerTake
  <2>2. CASE WorkerLoad(w)
    <3>1. PICK job \in {cached, record} : Moves(w, "start", job)
      BY <2>2 DEF WorkerLoad, Moves
    <3>2. \E t : work' = [work EXCEPT ![w] = t] /\ Tidy(t)
      BY <1>1, <3>1, TidyMoves
    <3> QED BY <2>2, <3>2 DEF TidyStep, WorkerLoad
  <2>3. CASE WorkerStart(w)
    BY <1>1, <2>3, StartTidy
  <2>4. CASE WorkerCacheRunning(w)
    BY <1>1, <2>4, TidyCaches DEF WorkerCacheRunning
  <2>5. CASE WorkerFinish(w)
    BY <1>1, <2>5, FinishTidy
  <2>6. CASE WorkerCacheFinished(w)
    BY <1>1, <2>6, TidyCaches DEF WorkerCacheFinished
  <2> QED BY <1>2, <2>1, <2>2, <2>3, <2>4, <2>5, <2>6 DEF WorkerStep
<1>3. ASSUME NEW w \in Writers, runSVGJob(w) PROVE TidyStep(w)
  BY <1>1, <1>3, RunTidy
<1>4. ASSUME NEW w \in Writers, RunFails(w) PROVE TidyStep(w)
  <2>1. \E t : work' = [work EXCEPT ![w] = t] /\ Tidy(t)
    BY <1>1, <1>4, TidyGoes, TidyEnds DEF RunFails
  <2> QED BY <1>4, <2>1 DEF TidyStep, RunFails
<1>5. ASSUME NEW w \in Others, handleCreateSVGJob(w) PROVE TidyStep(w)
  BY <1>1, <1>5, CreateTidy
<1>6. ASSUME NEW w \in Others, SyncSave(w) PROVE TidyStep(w)
  BY <1>1, <1>6, SyncTidy
<1>7. ASSUME NEW w \in Others, SyncCache(w) PROVE TidyStep(w)
  BY <1>1, <1>7, TidyCaches DEF SyncCache
<1>8. ASSUME NEW w \in Others, handleGenerateOneSVG(w) PROVE TidyStep(w)
  BY <1>1, <1>8, OneTidy
<1>9. ASSUME NEW w \in Others, PatchSVGSlide(w) PROVE TidyStep(w)
  BY <1>1, <1>9, PatchTidy
<1>10. ASSUME NEW w \in Others, PatchCache(w) PROVE TidyStep(w)
  BY <1>1, <1>10, TidyCaches DEF PatchCache
<1>11. ASSUME NEW w \in Others, RecoverStep(w) PROVE TidyStep(w)
  <2>1. CASE RecoverList(w)
    <3>1. Moves(w, "recover", record) /\ UNCHANGED <<record, cached>>
      BY <2>1 DEF RecoverList, Moves
    <3>2. \E t : work' = [work EXCEPT ![w] = t] /\ Tidy(t)
      BY <1>1, <3>1, TidyMoves
    <3> QED BY <3>1, <3>2 DEF TidyStep
  <2>2. CASE RecoverSave(w)
    BY <1>1, <2>2, RecoverSaveTidy
  <2>3. CASE RecoverSkip(w)
    <3>1. \E t : work' = [work EXCEPT ![w] = t] /\ Tidy(t)
      BY <1>1, <2>3, TidyEnds DEF RecoverSkip
    <3> QED BY <2>3, <3>1 DEF TidyStep, RecoverSkip
  <2>4. CASE RecoverCache(w)
    BY <1>1, <2>4, TidyCaches DEF RecoverCache
  <2>5. CASE RecoverSend(w)
    <3>1. \E t : work' = [work EXCEPT ![w] = t] /\ Tidy(t)
      BY <1>1, <2>5, TidyEnds DEF RecoverSend
    <3> QED BY <2>5, <3>1 DEF TidyStep, RecoverSend
  <2> QED BY <1>11, <2>1, <2>2, <2>3, <2>4, <2>5 DEF RecoverStep
<1> QED BY <1>1, <1>2, <1>3, <1>4, <1>5, <1>6, <1>7, <1>8, <1>9, <1>10, <1>11 DEF Next

LEMMA OutlineStays == [Next]_vars => outline' = outline
BY DEF Next, vars, WorkerStep, WorkerTake, WorkerLoad, WorkerStart, WorkerCacheRunning,
       WorkerCacheFinished, WorkerFinish, handleCreateSVGJob, runSVGJob, RunFails, SyncSave,
       SyncCache, handleGenerateOneSVG, PatchSVGSlide, PatchCache, RecoverStep, RecoverList,
       RecoverSave, RecoverSkip, RecoverCache, RecoverSend, ReapStalled

LEMMA InitTidy == Init => AllTidy
<1> SUFFICES ASSUME Init PROVE AllTidy
  OBVIOUS
<1>1. record.slides = <<>> /\ cached.slides = <<>>
  BY EmptyFacts DEF Init
<1>2. PICK ask \in Asks :
        work = [w \in Writers |->
                  IF w \in Runs THEN [Idle EXCEPT !.targets = ask[1], !.size = ask[2]] ELSE Idle]
  BY DEF Init
<1> DEFINE asked == [Idle EXCEPT !.targets = ask[1], !.size = ask[2]]
<1>3. \A t \in {Idle, asked} : /\ t.pc = "new" /\ t.existing = <<>> /\ t.slides = <<>>
                               /\ t.rec.slides = <<>>
  BY IdleFacts, EmptyFacts DEF Work
<1>4. \A w \in Writers : work[w] \in {Idle, asked}
  BY <1>2
<1> HIDE DEF asked
<1>5. \A t \in {Idle, asked} : Tidy(t)
  BY <1>3, NothingNeat DEF Tidy
<1>6. \A w \in Writers : Tidy(work[w])
  BY <1>4, <1>5
<1> QED BY <1>1, <1>6, NothingNeat DEF AllTidy

LEMMA TidyKept == IInv /\ AllTidy /\ [Next]_vars => AllTidy'
<1> SUFFICES ASSUME IInv, AllTidy, [Next]_vars PROVE AllTidy'
  OBVIOUS
<1>1. outline' = outline
  BY OutlineStays
<1>2. CASE UNCHANGED vars
  BY <1>2 DEF vars, AllTidy, Distinct, Neat, Tidy, SameBut, SVGs
<1>a. CASE ReapStalled /\ Distinct
  <2>1. /\ Neat(record.slides) /\ Neat(cached.slides) /\ \A v \in Writers : Tidy(work[v])
    BY <1>a DEF AllTidy
  <2>2. cached'.slides = cached.slides /\ record'.slides \in {record.slides, cached.slides}
    BY <1>a DEF ReapStalled, IInv, TypeOK, Record
  <2>3. work' = work
    BY <1>a DEF ReapStalled
  <2>4. Neat(record'.slides) /\ Neat(cached'.slides) /\ \A v \in Writers : Tidy(work'[v])
    BY <2>1, <2>2, <2>3
  <2> QED BY <1>1, <2>4 DEF AllTidy, Neat, Tidy, SameBut, SVGs
<1>3. CASE Next /\ ~ReapStalled /\ Distinct
  <2>1. PICK w \in Writers : TidyStep(w)
    BY <1>3, NextTidy
  <2>2. PICK t : work' = [work EXCEPT ![w] = t] /\ Tidy(t)
    BY <2>1 DEF TidyStep
  <2>3. /\ Neat(record.slides) /\ Neat(cached.slides) /\ Neat(work[w].rec.slides)
        /\ \A v \in Writers : Tidy(work[v])
    BY <1>3 DEF AllTidy, Tidy
  <2>4. Neat(cached'.slides)
    <3>1. CASE cached' = cached
      BY <2>3, <3>1
    <3>2. CASE cached' = work[w].rec
      BY <2>3, <3>2
    <3> QED BY <2>1, <3>1, <3>2 DEF TidyStep
  <2>5. Neat(record'.slides)
    <3>1. CASE record' = record
      BY <2>3, <3>1
    <3> QED BY <2>1, <3>1 DEF TidyStep
  <2>6. \A v \in Writers : Tidy(work'[v])
    BY <2>2, <2>3 DEF IInv, TypeOK
  <2> QED BY <1>1, <2>4, <2>5, <2>6 DEF AllTidy, Neat, Tidy, SameBut, SVGs
<1>4. CASE ~Distinct
  BY <1>1, <1>4 DEF AllTidy, Distinct
<1> QED BY <1>2, <1>a, <1>3, <1>4

(* Besides the slides it was asked for, a writer changes only slides of    *)
(* which it had an older view: mergeExistingSlides, upsertSlide and        *)
(* PatchSVGSlide keep all others as the writer has seen them.              *)
THEOREM OthersCorrect == Spec => OthersKept
<1>1. ASSUME IInv, AllTidy, Next, Distinct, NEW v \in Writers, work'[v] # work[v],
             NEW id \in Ids \ work[v].targets
      PROVE  \/ SVGs(record'.slides, id) = SVGs(record.slides, id)
             \/ SVGs(Seen(v), id) # SVGs(record.slides, id)
  <2>1. PICK w \in Writers : TidyStep(w)
    <3>1. ~ReapStalled
      BY <1>1 DEF ReapStalled
    <3> QED BY <1>1, <3>1, NextTidy
  <2>2. v = w
    BY <1>1, <2>1 DEF TidyStep, IInv, TypeOK
  <2>3. CASE record' = record
    BY <2>3
  <2>4. CASE record' # record
    <3>1. SVGs(record'.slides, id) = SVGs(Seen(v), id)
      BY <2>1, <2>2, <2>4 DEF TidyStep, SameBut
    <3> QED BY <3>1
  <2> QED BY <2>3, <2>4
<1>2. IInv /\ AllTidy /\ [Next]_vars =>
        [\A w \in Writers : work'[w] # work[w] /\ Distinct =>
           \A id \in Ids \ work[w].targets :
             \/ SVGs(record'.slides, id) = SVGs(record.slides, id)
             \/ SVGs(Seen(w), id) # SVGs(record.slides, id)]_vars
  BY <1>1
<1>3. Spec => []AllTidy
  BY InitTidy, TidyKept, Inductive, PTL DEF Spec
<1> QED BY <1>2, <1>3, Inductive, PTL DEF Spec, OthersKept

=============================================================================
