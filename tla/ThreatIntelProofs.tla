------------------------- MODULE ThreatIntelProofs -------------------------
(***************************************************************************)
(* For every set of indicators, assets and requests, whatever overlaps: a  *)
(* pair never raises a second alert, a correlation leaves no text without  *)
(* a match, and a confidence falls only at the commit of a stale upsert.   *)
(***************************************************************************)
EXTENDS ThreatIntel, TLAPS

Item == [indicator: Indicators, confidence: Levels]

LEMMA IdleTyped == Idle \in Job /\ Idle.stage = "idle"
  BY DEF Idle, Job

LEMMA StartsSafe == Init => IntelInv
  <1> SUFFICES ASSUME Init PROVE IntelInv
      OBVIOUS
  <1>1. TypeOK  BY IdleTyped DEF Init, TypeOK
  <1>2. OneAlertPerPair /\ NothingUnborn
        BY DEF Init, OneAlertPerPair, NothingUnborn, Fleet, Pairs
  <1>3. WritesReady /\ KnowsStored
        BY IdleTyped DEF Init, WritesReady, KnowsStored
  <1> QED  BY <1>1, <1>2, <1>3 DEF IntelInv

\* A step that only moves a request's own job, to one that keeps the
\* request's part of the invariant.
LEMMA JobMoves ==
    ASSUME IntelInv, UNCHANGED tables, NEW q \in Requests, NEW j \in Job,
           job' = [job EXCEPT ![q] = j],
           j.stage = "upsert" => \A i \in j.loaded : j.write[i] \in Levels,
           j.stage \in {"assets", "pairs"} =>
             \A t \in Texts : j.index[t] \in Stored \cup {None},
           j.stage = "match" => j.new \subseteq Stored \X Assets
    PROVE  IntelInv'
  <1>1. /\ job' \in [Requests -> Job] /\ job'[q] = j
        /\ \A r \in Requests : r # q => job'[r] = job[r]
        BY DEF IntelInv, TypeOK
  <1>2. Stored' = Stored /\ Fleet' = Fleet
        BY DEF tables, Stored, Fleet
  <1>3. TypeOK'  BY <1>1, <1>2 DEF IntelInv, TypeOK, tables
  <1>4. OneAlertPerPair' /\ NothingUnborn'
        BY <1>2 DEF IntelInv, OneAlertPerPair, NothingUnborn, tables
  <1>5. WritesReady'  BY <1>1 DEF IntelInv, WritesReady
  <1>6. KnowsStored'  BY <1>1, <1>2 DEF IntelInv, KnowsStored
  <1> QED  BY <1>3, <1>4, <1>5, <1>6 DEF IntelInv

\* A request that ends, whatever it leaves in the tables, keeps the other
\* requests' part as long as no indicator disappears.
LEMMA JobEnds ==
    ASSUME IntelInv, NEW q \in Requests, Done(q), Stored \subseteq Stored'
    PROVE  /\ job' \in [Requests -> Job]
           /\ WritesReady' /\ KnowsStored'
  <1>1. /\ job' \in [Requests -> Job] /\ job'[q] = Idle
        /\ \A r \in Requests : r # q => job'[r] = job[r]
        BY IdleTyped DEF IntelInv, TypeOK, Done
  <1>2. WritesReady'  BY <1>1, IdleTyped DEF IntelInv, WritesReady
  <1>3. KnowsStored'
    <2> SUFFICES ASSUME NEW r \in Requests
                 PROVE  /\ job'[r].stage \in {"assets", "pairs"} =>
                             \A t \in Texts : job'[r].index[t] \in Stored' \cup {None}
                        /\ job'[r].stage = "match" =>
                             job'[r].new \subseteq Stored' \X Assets
        BY DEF KnowsStored
    <2>1. CASE r = q  BY <1>1, <2>1, IdleTyped
    <2>2. CASE r # q
      <3>1. job'[r] = job[r]  BY <1>1, <2>2
      <3>2. /\ job[r].stage \in {"assets", "pairs"} =>
                 \A t \in Texts : job[r].index[t] \in Stored \cup {None}
            /\ job[r].stage = "match" => job[r].new \subseteq Stored \X Assets
            BY DEF IntelInv, KnowsStored
      <3> QED  BY <3>1, <3>2
    <2> QED  BY <2>1, <2>2
  <1> QED  BY <1>1, <1>2, <1>3

\* One item of an upsert, confidence c for indicator i, field by field.
UpsertEffect(q, k, i, c) ==
    LET j == job[q]
        now == IF i \in j.loaded THEN j.write[i] ELSE confidence[i]
    IN
    /\ job' = [job EXCEPT ![q] = k]
    /\ k.stage = "upsert" /\ j.stage = "upsert"
    /\ k.loaded = j.loaded \cup {i}
    /\ k.read[i] = IF i \in j.loaded THEN j.read[i] ELSE confidence[i]
    /\ k.write[i] = IF now # None /\ now >= c THEN now ELSE c
    /\ \A h \in Indicators : h # i => k.read[h] = j.read[h]
                                      /\ k.write[h] = j.write[h]

LEMMA UpsertJob ==
    ASSUME TypeOK, NEW q \in Requests, Upsert(q)
    PROVE  \E k \in Job, i \in Indicators, c \in Levels :
              UpsertEffect(q, k, i, c)
  <1> DEFINE j == job[q]
             i == Head(j.items).indicator
             c == Head(j.items).confidence
             now == IF i \in j.loaded THEN j.write[i] ELSE confidence[i]
             rd == [j.read EXCEPT ![i] = IF i \in j.loaded THEN @ ELSE confidence[i]]
             wr == [j.write EXCEPT ![i] = IF now # None /\ now >= c THEN now ELSE c]
             k == [j EXCEPT !.items = Tail(@), !.loaded = @ \cup {i},
                            !.read = rd, !.write = wr]
  <1>1. j \in Job /\ job \in [Requests -> Job]  BY DEF TypeOK
  <1>2. j.items \in Seq(Item) /\ j.items # <<>> /\ j.stage = "upsert"
        BY <1>1 DEF Upsert, Job, Item
  <1>3. Head(j.items) \in Item /\ Tail(j.items) \in Seq(Item)  BY <1>2
  <1>4. i \in Indicators /\ c \in Levels  BY <1>3 DEF Item
  <1>5. job' = [job EXCEPT ![q] = k]  BY <1>1 DEF Upsert, Job
  <1>6. /\ j.write \in [Indicators -> Levels \cup {None}]
        /\ j.read \in [Indicators -> Levels \cup {None}]
        /\ j.loaded \subseteq Indicators
        /\ confidence \in [Indicators -> Levels \cup {None}]
        BY <1>1 DEF Job, TypeOK
  <1>7. /\ rd \in [Indicators -> Levels \cup {None}]
        /\ rd[i] = IF i \in j.loaded THEN j.read[i] ELSE confidence[i]
        /\ \A h \in Indicators : h # i => rd[h] = j.read[h]
        BY <1>4, <1>6
  <1>8. /\ wr \in [Indicators -> Levels \cup {None}]
        /\ wr[i] = IF now # None /\ now >= c THEN now ELSE c
        /\ \A h \in Indicators : h # i => wr[h] = j.write[h]
        BY <1>4, <1>6
  <1> HIDE DEF rd, wr
  <1>9. k \in Job  BY <1>1, <1>3, <1>4, <1>6, <1>7, <1>8 DEF Job, Item
  <1>10. k.stage = "upsert" /\ k.loaded = j.loaded \cup {i}
         /\ k.read = rd /\ k.write = wr
         BY <1>1, <1>2 DEF Job
  <1> HIDE DEF k
  <1>11. /\ k.read[i] = IF i \in j.loaded THEN j.read[i] ELSE confidence[i]
         /\ k.write[i] = IF now # None /\ now >= c THEN now ELSE c
         /\ \A h \in Indicators : h # i => k.read[h] = j.read[h]
                                           /\ k.write[h] = j.write[h]
         BY <1>7, <1>8, <1>10
  <1>12. UpsertEffect(q, k, i, c)
         BY <1>2, <1>5, <1>10, <1>11 DEF UpsertEffect
  <1> HIDE DEF i, c
  <1> QED  BY <1>4, <1>9, <1>12

LEMMA CommitUpsertsSafe ==
    ASSUME IntelInv, NEW q \in Requests, CommitUpserts(q)
    PROVE  IntelInv'
  <1>1. /\ Done(q) /\ life' = life /\ attributes' = attributes
        /\ matches' = matches /\ alerts' = alerts
        /\ job[q].stage = "upsert"
        BY DEF CommitUpserts
  <1>2. /\ job[q] \in Job /\ confidence \in [Indicators -> Levels \cup {None}]
        /\ \A i \in job[q].loaded : job[q].write[i] \in Levels
        BY <1>1 DEF IntelInv, TypeOK, WritesReady
  <1>3. confidence' \in [Indicators -> Levels \cup {None}]
        BY <1>2 DEF CommitUpserts
  <1>4. Stored \subseteq Stored'
    <2>1. \A i \in Indicators : confidence[i] # None => confidence'[i] # None
          BY <1>2, IntelAssumption DEF CommitUpserts
    <2> QED  BY <2>1 DEF Stored
  <1>5. job' \in [Requests -> Job] /\ WritesReady' /\ KnowsStored'
        BY <1>1, <1>4, JobEnds
  <1>6. Fleet' = Fleet  BY <1>1 DEF Fleet
  <1>7. TypeOK'  BY <1>1, <1>3, <1>4, <1>5, <1>6 DEF IntelInv, TypeOK
  <1>8. OneAlertPerPair' /\ NothingUnborn'
        BY <1>1, <1>6 DEF IntelInv, OneAlertPerPair, NothingUnborn
  <1> QED  BY <1>5, <1>7, <1>8 DEF IntelInv

LEMMA CommitMatchesSafe ==
    ASSUME IntelInv, NEW q \in Requests, CommitMatches(q)
    PROVE  IntelInv'
  <1> DEFINE new == job[q].new
  <1>1. /\ Done(q) /\ confidence' = confidence /\ life' = life
        /\ attributes' = attributes /\ job[q].stage = "match"
        BY DEF CommitMatches
  <1>2. Stored' = Stored /\ Fleet' = Fleet  BY <1>1 DEF Stored, Fleet
  <1>3. job' \in [Requests -> Job] /\ WritesReady' /\ KnowsStored'
        BY <1>1, <1>2, JobEnds
  <1>4. new \subseteq Stored \X Assets
        BY <1>1 DEF IntelInv, KnowsStored
  <1>5. CASE new \cap matches # {} \/ \E p \in new : p[2] \notin Fleet
    <2>1. matches' = matches  BY <1>5 DEF CommitMatches
    <2>2. alerts' = alerts  BY <1>5 DEF CommitMatches, IntelInv, TypeOK
    <2>3. TypeOK'  BY <1>1, <1>2, <1>3, <2>1, <2>2 DEF IntelInv, TypeOK
    <2>4. OneAlertPerPair' /\ NothingUnborn'
          BY <1>1, <1>2, <2>1, <2>2
          DEF IntelInv, OneAlertPerPair, NothingUnborn
    <2> QED  BY <1>3, <2>3, <2>4 DEF IntelInv
  <1>6. CASE new \cap matches = {} /\ \A p \in new : p[2] \in Fleet
    <2>1. matches' = matches \cup new  BY <1>6 DEF CommitMatches
    <2>2. alerts' = [p \in Pairs |-> IF p \in new THEN alerts[p] + 1 ELSE alerts[p]]
          BY <1>6 DEF CommitMatches
    <2>3. new \subseteq Stored \X Fleet  BY <1>4, <1>6
    <2>4. alerts' \in [Pairs -> Nat]  BY <2>2 DEF IntelInv, TypeOK
    <2>5. TypeOK'
          BY <1>1, <1>2, <1>3, <2>1, <2>3, <2>4 DEF IntelInv, TypeOK
    <2>6. \A p \in new : p[2] \in Fleet /\ p \notin matches  BY <1>6
    <2>7. \A p \in Pairs : alerts[p] \in Nat /\ alerts[p] <= 1
            /\ (p[2] \in Fleet => (alerts[p] = 1 <=> p \in matches))
          BY DEF IntelInv, TypeOK, OneAlertPerPair
    <2>8. \A p \in Pairs : p \in new => alerts[p] = 0
          BY <2>6, <2>7
    <2>9. OneAlertPerPair'
      <3> SUFFICES ASSUME NEW p \in Pairs
                   PROVE  /\ alerts'[p] <= 1
                          /\ p[2] \in Fleet' => (alerts'[p] = 1 <=> p \in matches')
          BY DEF OneAlertPerPair, Pairs
      <3>1. CASE p \in new
        <4>1. alerts'[p] = 1  BY <2>2, <2>8, <3>1
        <4> QED  BY <2>1, <3>1, <4>1
      <3>2. CASE p \notin new
        <4>1. alerts'[p] = alerts[p] /\ (p \in matches' <=> p \in matches)
              BY <2>1, <2>2, <3>2
        <4> QED  BY <1>2, <2>7, <4>1
      <3> QED  BY <3>1, <3>2
    <2>10. NothingUnborn'
      <3>1. \A p \in Pairs : life[p[2]] = "unborn" => p \notin new
            BY <2>6 DEF Fleet
      <3> QED  BY <1>1, <2>2, <3>1 DEF IntelInv, NothingUnborn
    <2> QED  BY <1>3, <2>5, <2>9, <2>10 DEF IntelInv
  <1> QED  BY <1>5, <1>6

LEMMA CreateAssetSafe ==
    ASSUME IntelInv, NEW a \in Assets, CreateAsset(a)
    PROVE  IntelInv'
  <1>1. /\ life[a] = "unborn" /\ life' = [life EXCEPT ![a] = "present"]
        /\ confidence' = confidence /\ matches' = matches
        /\ alerts' = alerts /\ job' = job
        BY DEF CreateAsset
  <1>2. attributes' \in [Assets -> SUBSET Texts]
        BY IntelAssumption DEF CreateAsset, IntelInv, TypeOK
  <1>3. Stored' = Stored  BY <1>1 DEF Stored
  <1>4. /\ life' \in [Assets -> {"unborn", "present", "deleted"}]
        /\ life'[a] = "present"
        /\ \A b \in Assets : b # a => life'[b] = life[b]
        BY <1>1 DEF IntelInv, TypeOK
  <1>5. Fleet' = Fleet \cup {a}  BY <1>4 DEF Fleet
  <1>6. TypeOK'  BY <1>1, <1>2, <1>3, <1>4, <1>5 DEF IntelInv, TypeOK
  <1>7. a \notin Fleet  BY <1>1 DEF Fleet
  <1>8. \A p \in matches : p[2] # a  BY <1>7 DEF IntelInv, TypeOK
  <1>9. \A p \in Pairs : p[2] = a => alerts[p] = 0
        BY <1>1 DEF IntelInv, NothingUnborn
  <1>10. OneAlertPerPair'
         BY <1>1, <1>5, <1>8, <1>9 DEF IntelInv, OneAlertPerPair, Pairs
  <1>11. NothingUnborn'
         BY <1>1, <1>4 DEF IntelInv, NothingUnborn, Pairs
  <1>12. WritesReady' /\ KnowsStored'
         BY <1>1, <1>3 DEF IntelInv, WritesReady, KnowsStored
  <1> QED  BY <1>6, <1>10, <1>11, <1>12 DEF IntelInv

LEMMA UpdateAssetSafe ==
    ASSUME IntelInv, NEW a \in Assets, UpdateAsset(a)
    PROVE  IntelInv'
  <1>1. /\ life' = life /\ confidence' = confidence /\ matches' = matches
        /\ alerts' = alerts /\ job' = job
        BY DEF UpdateAsset
  <1>2. attributes' \in [Assets -> SUBSET Texts]
        BY IntelAssumption DEF UpdateAsset, IntelInv, TypeOK
  <1>3. Stored' = Stored /\ Fleet' = Fleet  BY <1>1 DEF Stored, Fleet
  <1>4. TypeOK'  BY <1>1, <1>2, <1>3 DEF IntelInv, TypeOK
  <1> QED  BY <1>1, <1>3, <1>4 DEF IntelInv, OneAlertPerPair, NothingUnborn,
           WritesReady, KnowsStored

LEMMA DeleteAssetSafe ==
    ASSUME IntelInv, NEW a \in Assets, DeleteAsset(a)
    PROVE  IntelInv'
  <1>1. /\ life' = [life EXCEPT ![a] = "deleted"]
        /\ matches' = {p \in matches : p[2] # a}
        /\ confidence' = confidence /\ alerts' = alerts /\ job' = job
        BY DEF DeleteAsset
  <1>2. attributes' \in [Assets -> SUBSET Texts]
        BY DEF DeleteAsset, IntelInv, TypeOK
  <1>3. Stored' = Stored  BY <1>1 DEF Stored
  <1>4. /\ life' \in [Assets -> {"unborn", "present", "deleted"}]
        /\ life'[a] = "deleted"
        /\ \A b \in Assets : b # a => life'[b] = life[b]
        BY <1>1 DEF IntelInv, TypeOK
  <1>5. Fleet' = Fleet \ {a}  BY <1>4 DEF Fleet
  <1>6. TypeOK'  BY <1>1, <1>2, <1>3, <1>4, <1>5 DEF IntelInv, TypeOK
  <1>7. OneAlertPerPair'
        BY <1>1, <1>5 DEF IntelInv, OneAlertPerPair, Pairs
  <1>8. NothingUnborn'
        BY <1>1, <1>4 DEF IntelInv, NothingUnborn, Pairs
  <1>9. WritesReady' /\ KnowsStored'
        BY <1>1, <1>3 DEF IntelInv, WritesReady, KnowsStored
  <1> QED  BY <1>6, <1>7, <1>8, <1>9 DEF IntelInv

LEMMA EngineSafe ==
    ASSUME IntelInv, NEW q \in Requests, Engine(q)
    PROVE  IntelInv'
  <1>a. job \in [Requests -> Job] /\ job[q] \in Job  BY DEF IntelInv, TypeOK
  <1>b. Idle.loaded = {} /\ Idle.stage = "idle"  BY DEF Idle
  <1>1. CASE BeginUpsert(q)
    <2>1. PICK f \in Feeds :
            job' = [job EXCEPT ![q].stage = "upsert", ![q].items = f]
          BY <1>1 DEF BeginUpsert
    <2> DEFINE k == [job[q] EXCEPT !.stage = "upsert", !.items = f]
    <2>2. f \in Seq(Item)  BY IntelAssumption DEF Item
    <2>3. k \in Job  BY <1>a, <2>2 DEF Job, Item
    <2>4. job' = [job EXCEPT ![q] = k]  BY <1>a, <2>1
    <2>5. k.stage = "upsert" /\ k.loaded = job[q].loaded
          BY <1>a DEF Job
    <2>6. k.loaded = {}  BY <1>1, <1>b, <2>5 DEF BeginUpsert
    <2>7. UNCHANGED tables  BY <1>1 DEF BeginUpsert
    <2> HIDE DEF k
    <2> QED  BY <2>3, <2>4, <2>5, <2>6, <2>7, JobMoves
  <1>2. CASE Upsert(q)
    <2>1. TypeOK  BY DEF IntelInv
    <2> DEFINE j == job[q]
    <2>2. PICK k \in Job, i \in Indicators, c \in Levels :
            UpsertEffect(q, k, i, c)
          BY <1>2, <2>1, UpsertJob
    <2>3. /\ job' = [job EXCEPT ![q] = k]
          /\ k.stage = "upsert" /\ j.stage = "upsert"
          /\ k.loaded = j.loaded \cup {i}
          /\ k.write[i] =
               LET now == IF i \in j.loaded THEN j.write[i] ELSE confidence[i]
               IN  IF now # None /\ now >= c THEN now ELSE c
          /\ \A h \in Indicators : h # i => k.write[h] = j.write[h]
          BY <2>2 DEF UpsertEffect
    <2>4. \A h \in j.loaded : h \in Indicators /\ j.write[h] \in Levels
          BY <1>a, <2>3 DEF IntelInv, WritesReady, Job
    <2>5. confidence[i] \in Levels \cup {None}  BY <2>1 DEF TypeOK
    <2>6. k.write[i] \in Levels  BY <2>4, <2>5, <2>3
    <2>7. \A h \in k.loaded : k.write[h] \in Levels
          BY <2>4, <2>6, <2>3
    <2>8. UNCHANGED tables  BY <1>2 DEF Upsert
    <2> QED  BY <2>7, <2>8, <2>3, JobMoves
  <1>3. CASE CommitUpserts(q)  BY <1>3, CommitUpsertsSafe
  <1>4. CASE ReadIndicators(q)
    <2>1. PICK ix \in [Texts -> Indicators \cup {None}] :
            /\ \A t \in Texts :
                 LET with == {i \in Stored : Text[i] = t} IN
                 IF with = {} THEN ix[t] = None ELSE ix[t] \in with
            /\ job' = [job EXCEPT ![q].stage = "assets", ![q].index = ix,
                                  ![q].loaded = Stored]
          BY <1>4 DEF ReadIndicators
    <2> DEFINE k == [job[q] EXCEPT !.stage = "assets", !.index = ix,
                                   !.loaded = Stored]
    <2>2. k \in Job  BY <1>a DEF Job, Stored
    <2>3. job' = [job EXCEPT ![q] = k]  BY <1>a, <2>1
    <2>4. k.stage = "assets" /\ k.index = ix  BY <1>a DEF Job
    <2>5. \A t \in Texts : k.index[t] \in Stored \cup {None}
          BY <2>1, <2>4
    <2>6. UNCHANGED tables  BY <1>4 DEF ReadIndicators
    <2> HIDE DEF k
    <2> QED  BY <2>2, <2>3, <2>4, <2>5, <2>6, JobMoves
  <1>5. CASE ReadAssets(q)
    <2> DEFINE s == [a \in Assets |-> IF a \in Page THEN attributes[a] ELSE {}]
               k == [job[q] EXCEPT !.stage = "pairs", !.snap = s]
    <2>0. s \in [Assets -> SUBSET Texts]  BY DEF IntelInv, TypeOK
    <2>1. k \in Job  BY <1>a, <2>0 DEF Job
    <2>2. job' = [job EXCEPT ![q] = k]  BY <1>a, <1>5 DEF ReadAssets
    <2>3. k.stage = "pairs" /\ k.index = job[q].index  BY <1>a DEF Job
    <2>4. \A t \in Texts : k.index[t] \in Stored \cup {None}
          BY <1>5, <2>3 DEF ReadAssets, IntelInv, KnowsStored
    <2>5. UNCHANGED tables  BY <1>5 DEF ReadAssets
    <2> HIDE DEF k, s
    <2> QED  BY <2>1, <2>2, <2>3, <2>4, <2>5, JobMoves
  <1>6. CASE ReadPairs(q)
    <2> DEFINE new == Hits(job[q]) \ matches
               k == [job[q] EXCEPT !.stage = "match", !.new = new]
    <2>1. new \subseteq Pairs  BY DEF Hits
    <2>2. k \in Job  BY <1>a, <2>1 DEF Job
    <2>3. job' = [job EXCEPT ![q] = k]  BY <1>a, <1>6 DEF ReadPairs
    <2>4. k.stage = "match" /\ k.new = new  BY <1>a DEF Job
    <2>5. \A t \in Texts : job[q].index[t] \in Stored \cup {None}
          BY <1>6 DEF ReadPairs, IntelInv, KnowsStored
    <2>6. \A p \in new : p[1] \in Stored
      <3> SUFFICES ASSUME NEW p \in new PROVE p[1] \in Stored
          OBVIOUS
      <3>1. p \in Pairs /\ \E t \in job[q].snap[p[2]] : job[q].index[t] = p[1]
            BY DEF Hits
      <3>2. p[1] \in Indicators /\ p[2] \in Assets  BY <3>1 DEF Pairs
      <3>3. job[q].snap[p[2]] \subseteq Texts  BY <1>a, <3>2 DEF Job
      <3> QED  BY <2>5, <3>1, <3>2, <3>3, IntelAssumption
    <2>7. new \subseteq Stored \X Assets  BY <2>1, <2>6 DEF Pairs
    <2>8. UNCHANGED tables  BY <1>6 DEF ReadPairs
    <2> HIDE DEF k, new
    <2> QED  BY <2>2, <2>3, <2>4, <2>7, <2>8, JobMoves
  <1>7. CASE CommitMatches(q)  BY <1>7, CommitMatchesSafe
  <1>8. CASE Fail(q)
        BY <1>8, <1>b, IdleTyped, JobMoves DEF Fail, Done
  <1> QED
      BY <1>1, <1>2, <1>3, <1>4, <1>5, <1>6, <1>7, <1>8 DEF Engine

LEMMA StepSafe == IntelInv /\ [Next]_vars => IntelInv'
  <1> SUFFICES ASSUME IntelInv, [Next]_vars PROVE IntelInv'
      OBVIOUS
  <1>1. ASSUME NEW q \in Requests, Engine(q) PROVE IntelInv'
        BY <1>1, EngineSafe
  <1>2. ASSUME NEW a \in Assets, CreateAsset(a) \/ UpdateAsset(a) \/ DeleteAsset(a)
        PROVE  IntelInv'
        BY <1>2, CreateAssetSafe, UpdateAssetSafe, DeleteAssetSafe
  <1>3. CASE UNCHANGED vars
    <2>1. Stored' = Stored /\ Fleet' = Fleet
          BY <1>3 DEF vars, tables, Stored, Fleet
    <2> QED  BY <1>3, <2>1 DEF vars, tables, IntelInv, TypeOK, OneAlertPerPair,
             NothingUnborn, WritesReady, KnowsStored
  <1> QED  BY <1>1, <1>2, <1>3 DEF Next
-----------------------------------------------------------------------------
\* The invariant: an asset raises nothing before it exists, an upsert only
\* writes confidences, a correlation only knows stored indicators.
THEOREM Invariance == Spec => []IntelInv
  BY StartsSafe, StepSafe, PTL DEF Spec

\* A match always names an indicator and an asset that exist.
THEOREM TypeCorrect == Spec => []TypeOK
  <1>1. IntelInv => TypeOK  BY DEF IntelInv
  <1> QED  BY <1>1, Invariance, PTL

\* However many correlations overlap, a pair raises one alert and has one
\* match (ThreatIntelService.correlate and the unique constraint).
THEOREM OneAlert == Spec => []OneAlertPerPair
  <1>1. IntelInv => OneAlertPerPair  BY DEF IntelInv
  <1> QED  BY <1>1, Invariance, PTL

\* A request's own step, to a job that is current unless it is stale.
LEMMA CurrentMoves ==
    ASSUME TypeOK, UpsertCurrent, UNCHANGED <<tables, stale>>,
           NEW q \in Requests, NEW k \in Job, job' = [job EXCEPT ![q] = k],
           job[q].stage = "upsert" =>
             k.stage = "upsert" /\ job[q].loaded \subseteq k.loaded,
           k.stage = "upsert" =>
             \A i \in k.loaded : <<q, i>> \notin stale =>
                /\ k.read[i] = confidence[i]
                /\ confidence[i] # None => k.write[i] >= confidence[i]
    PROVE  UpsertCurrent'
  <1>1. job'[q] = k /\ \A r \in Requests : r # q => job'[r] = job[r]
        BY DEF TypeOK
  <1>2. stale' = stale /\ confidence' = confidence  BY DEF tables
  <1>3. stale \subseteq Requests \X Indicators  BY DEF UpsertCurrent
  <1>4. ASSUME NEW p \in stale
        PROVE  job'[p[1]].stage = "upsert" /\ p[2] \in job'[p[1]].loaded
    <2>1. p[1] \in Requests  BY <1>3
    <2>2. job[p[1]].stage = "upsert" /\ p[2] \in job[p[1]].loaded
          BY DEF UpsertCurrent
    <2>3. CASE p[1] = q  BY <1>1, <2>2, <2>3
    <2>4. CASE p[1] # q  BY <1>1, <2>1, <2>2, <2>4
    <2> QED  BY <2>3, <2>4
  <1>5. ASSUME NEW r \in Requests, job'[r].stage = "upsert",
               NEW i \in job'[r].loaded, <<r, i>> \notin stale
        PROVE  /\ job'[r].read[i] = confidence[i]
               /\ confidence[i] # None => job'[r].write[i] >= confidence[i]
    <2>1. CASE r = q  BY <1>1, <1>5, <2>1
    <2>2. CASE r # q
      <3>1. job'[r] = job[r]  BY <1>1, <2>2
      <3> QED  BY <1>5, <3>1 DEF UpsertCurrent
    <2> QED  BY <2>1, <2>2
  <1> QED  BY <1>2, <1>3, <1>4, <1>5 DEF UpsertCurrent

\* A request that ends marks as stale whatever it has changed under another.
LEMMA CurrentEnds ==
    ASSUME TypeOK, UpsertCurrent, NEW q \in Requests, Done(q)
    PROVE  UpsertCurrent'
  <1>1. job'[q] = Idle /\ \A r \in Requests : r # q => job'[r] = job[r]
        BY DEF TypeOK, Done
  <1>2. stale' = {p \in stale : p[1] # q} \cup
          {p \in (Requests \ {q}) \X Indicators :
             /\ job[p[1]].stage = "upsert" /\ p[2] \in job[p[1]].loaded
             /\ confidence'[p[2]] # confidence[p[2]]}
        BY DEF Done
  <1>3. stale \subseteq Requests \X Indicators  BY DEF UpsertCurrent
  <1>4. stale' \subseteq (Requests \ {q}) \X Indicators  BY <1>2, <1>3
  <1>5. ASSUME NEW p \in stale'
        PROVE  job'[p[1]].stage = "upsert" /\ p[2] \in job'[p[1]].loaded
    <2>1. job'[p[1]] = job[p[1]]  BY <1>1, <1>4
    <2>2. job[p[1]].stage = "upsert" /\ p[2] \in job[p[1]].loaded
          BY <1>2 DEF UpsertCurrent
    <2> QED  BY <2>1, <2>2
  <1>6. ASSUME NEW r \in Requests, job'[r].stage = "upsert",
               NEW i \in job'[r].loaded, <<r, i>> \notin stale'
        PROVE  /\ job'[r].read[i] = confidence'[i]
               /\ confidence'[i] # None => job'[r].write[i] >= confidence'[i]
    <2>1. r # q  BY <1>1, <1>6, IdleTyped
    <2>2. job'[r] = job[r] /\ job[r] \in Job  BY <1>1, <2>1 DEF TypeOK
    <2>3. i \in Indicators  BY <2>2 DEF Job
    <2>4. <<r, i>> \notin stale  BY <1>2, <1>6, <2>1
    <2>5. confidence'[i] = confidence[i]  BY <1>2, <1>6, <2>1, <2>2, <2>3
    <2> QED  BY <1>6, <2>2, <2>4, <2>5 DEF UpsertCurrent
  <1> QED  BY <1>3, <1>4, <1>5, <1>6 DEF UpsertCurrent

LEMMA UpsertKeepsCurrent ==
    ASSUME IntelInv, UpsertCurrent, NEW q \in Requests, Upsert(q)
    PROVE  UpsertCurrent'
  <1> DEFINE j == job[q]
  <1>1. /\ TypeOK /\ j \in Job
        /\ confidence \in [Indicators -> Levels \cup {None}]
        BY DEF IntelInv, TypeOK
  <1>2. PICK k \in Job, i \in Indicators, c \in Levels :
          UpsertEffect(q, k, i, c)
        BY <1>1, UpsertJob
  <1>3. LET now == IF i \in j.loaded THEN j.write[i] ELSE confidence[i] IN
         /\ job' = [job EXCEPT ![q] = k]
         /\ k.stage = "upsert" /\ j.stage = "upsert"
         /\ k.loaded = j.loaded \cup {i}
         /\ k.read[i] = IF i \in j.loaded THEN j.read[i] ELSE confidence[i]
         /\ k.write[i] = IF now # None /\ now >= c THEN now ELSE c
         /\ \A h \in Indicators : h # i => k.read[h] = j.read[h]
                                           /\ k.write[h] = j.write[h]
        BY <1>2 DEF UpsertEffect
  <1>4. UNCHANGED <<tables, stale>>  BY DEF Upsert
  <1>5. \A h \in j.loaded :
          /\ h \in Indicators /\ j.write[h] \in Levels
          /\ <<q, h>> \notin stale =>
               /\ j.read[h] = confidence[h]
               /\ confidence[h] # None => j.write[h] >= confidence[h]
        BY <1>1, <1>3 DEF IntelInv, WritesReady, UpsertCurrent, Job
  <1>6. ASSUME <<q, i>> \notin stale
        PROVE  /\ k.read[i] = confidence[i]
               /\ confidence[i] # None => k.write[i] >= confidence[i]
    <2>1. k.read[i] = confidence[i]  BY <1>3, <1>5, <1>6
    <2> DEFINE now == IF i \in j.loaded THEN j.write[i] ELSE confidence[i]
    <2>2. k.write[i] = IF now # None /\ now >= c THEN now ELSE c
          BY <1>3
    <2>3. c \in Nat /\ (confidence[i] # None => confidence[i] \in Nat)
          BY <1>1, IntelAssumption
    <2>4. CASE i \in j.loaded
      <3>1. now \in Nat  BY <1>5, <2>4, IntelAssumption
      <3>2. confidence[i] # None => now >= confidence[i]  BY <1>5, <1>6, <2>4
      <3> HIDE DEF now
      <3>3. now # None  BY <1>5, <2>4, IntelAssumption DEF now
      <3> QED  BY <2>1, <2>2, <2>3, <3>1, <3>2, <3>3
    <2>5. CASE i \notin j.loaded
      <3>1. now = confidence[i]  BY <2>5
      <3> HIDE DEF now
      <3> QED  BY <2>1, <2>2, <2>3, <3>1
    <2> QED  BY <2>4, <2>5
  <1>7. \A h \in k.loaded : <<q, h>> \notin stale =>
          /\ k.read[h] = confidence[h]
          /\ confidence[h] # None => k.write[h] >= confidence[h]
        BY <1>3, <1>5, <1>6
  <1> HIDE DEF j
  <1> QED  BY <1>1, <1>3, <1>4, <1>7, CurrentMoves DEF j

LEMMA EngineKeepsCurrent ==
    ASSUME IntelInv, UpsertCurrent, NEW q \in Requests, Engine(q)
    PROVE  UpsertCurrent'
  <1>a. TypeOK /\ job \in [Requests -> Job] /\ job[q] \in Job
        BY DEF IntelInv, TypeOK
  <1>b. Idle.loaded = {} /\ Idle.stage = "idle"  BY DEF Idle
  <1>1. CASE BeginUpsert(q)
    <2>1. PICK f \in Feeds :
            job' = [job EXCEPT ![q].stage = "upsert", ![q].items = f]
          BY <1>1 DEF BeginUpsert
    <2> DEFINE k == [job[q] EXCEPT !.stage = "upsert", !.items = f]
    <2>2. f \in Seq(Item)  BY IntelAssumption DEF Item
    <2>3. k \in Job  BY <1>a, <2>2 DEF Job, Item
    <2>4. job' = [job EXCEPT ![q] = k]  BY <1>a, <2>1
    <2>5. k.loaded = job[q].loaded  BY <1>a DEF Job
    <2>6. k.loaded = {} /\ job[q].stage = "idle"
          BY <1>1, <1>b, <2>5 DEF BeginUpsert
    <2>7. UNCHANGED <<tables, stale>>  BY <1>1 DEF BeginUpsert
    <2> HIDE DEF k
    <2> QED  BY <1>a, <2>3, <2>4, <2>6, <2>7, CurrentMoves
  <1>2. CASE Upsert(q)  BY <1>2, UpsertKeepsCurrent
  <1>3. CASE CommitUpserts(q) \/ CommitMatches(q) \/ Fail(q)
        BY <1>3, <1>a, CurrentEnds DEF CommitUpserts, CommitMatches, Fail
  <1>4. CASE ReadIndicators(q) \/ ReadAssets(q) \/ ReadPairs(q)
    <2>1. PICK k \in Job : /\ job' = [job EXCEPT ![q] = k]
                           /\ k.stage # "upsert"
      <3>1. job' \in [Requests -> Job]
            BY <1>4, EngineSafe DEF IntelInv, TypeOK, Engine
      <3>2. \E x : job' = [job EXCEPT ![q] = x] /\ x.stage # "upsert"
        <4>1. CASE ReadIndicators(q)
          <5>1. PICK ix \in [Texts -> Indicators \cup {None}] :
                  job' = [job EXCEPT ![q].stage = "assets", ![q].index = ix,
                                     ![q].loaded = Stored]
                BY <4>1 DEF ReadIndicators
          <5> WITNESS [job[q] EXCEPT !.stage = "assets", !.index = ix,
                                     !.loaded = Stored]
          <5> QED  BY <1>a, <5>1 DEF Job
        <4>2. CASE ReadAssets(q)
          <5> DEFINE s == [a \in Assets |-> IF a \in Page THEN attributes[a] ELSE {}]
          <5> WITNESS [job[q] EXCEPT !.stage = "pairs", !.snap = s]
          <5> QED  BY <1>a, <4>2 DEF Job, ReadAssets
        <4>3. CASE ReadPairs(q)
          <5> WITNESS [job[q] EXCEPT !.stage = "match",
                                     !.new = Hits(job[q]) \ matches]
          <5> QED  BY <1>a, <4>3 DEF Job, ReadPairs
        <4> QED  BY <1>4, <4>1, <4>2, <4>3
      <3>3. PICK x : job' = [job EXCEPT ![q] = x] /\ x.stage # "upsert"
            BY <3>2
      <3>4. x = job'[q]  BY <1>a, <3>3
      <3> QED  BY <3>1, <3>3, <3>4
    <2>2. UNCHANGED <<tables, stale>> /\ job[q].stage # "upsert"
          BY <1>4, <1>b DEF ReadIndicators, ReadAssets, ReadPairs
    <2> QED  BY <1>a, <2>1, <2>2, CurrentMoves
  <1> QED  BY <1>1, <1>2, <1>3, <1>4 DEF Engine

\* A confidence falls only at the commit of an upsert that is stale for it.
LEMMA FallIsStale ==
    ASSUME IntelInv, UpsertCurrent, NEW q \in Requests, CommitUpserts(q),
           NEW i \in Stored
    PROVE  \/ confidence'[i] >= confidence[i]
           \/ <<q, i>> \in stale /\ job'[q] = Idle
  <1>1. /\ job[q] \in Job /\ job'[q] = Idle /\ job[q].stage = "upsert"
        BY DEF CommitUpserts, Done, IntelInv, TypeOK
  <1>2. i \in Indicators /\ confidence[i] \in Nat /\ confidence[i] # None
        BY IntelAssumption DEF IntelInv, TypeOK, Stored
  <1>3. CASE confidence'[i] = confidence[i]
    <2>1. confidence'[i] >= confidence[i]  BY <1>2, <1>3
    <2> QED  BY <2>1
  <1>4. CASE confidence'[i] # confidence[i]
    <2>1. i \in job[q].loaded /\ confidence'[i] = job[q].write[i]
          BY <1>2, <1>4 DEF CommitUpserts
    <2> QED  BY <1>1, <1>2, <2>1 DEF UpsertCurrent
  <1> QED  BY <1>3, <1>4

\* A stored confidence falls only at the commit of an upsert that another
\* upsert has overtaken, whatever overlaps (_upsert).
THEOREM ConfidenceRises == Spec => ConfidenceNeverFalls
  <1> DEFINE Known == IntelInv /\ UpsertCurrent
             Rises == \A i \in Stored :
                         \/ confidence'[i] >= confidence[i]
                         \/ \E q \in Requests : <<q, i>> \in stale /\ job'[q] = Idle
  <1>1. Init => Known
        BY StartsSafe, IdleTyped DEF Init, UpsertCurrent
  <1>2. Known /\ [Next]_vars => Known' /\ Rises
    <2> SUFFICES ASSUME Known, [Next]_vars PROVE Known' /\ Rises
        OBVIOUS
    <2>1. IntelInv'  BY StepSafe
    <2>2. UpsertCurrent'
      <3>1. ASSUME NEW a \in Assets, CreateAsset(a) \/ UpdateAsset(a) \/ DeleteAsset(a)
            PROVE  UNCHANGED <<confidence, job, stale>>
            BY <3>1 DEF CreateAsset, UpdateAsset, DeleteAsset
      <3>2. CASE UNCHANGED <<confidence, job, stale>>  BY <3>2 DEF UpsertCurrent
      <3> QED  BY <3>1, <3>2, EngineKeepsCurrent DEF Next, vars, tables
    <2>3. Rises
      <3>1. ASSUME confidence' = confidence PROVE Rises
        <4>1. \A i \in Stored : confidence[i] \in Nat
              BY IntelAssumption DEF IntelInv, TypeOK, Stored
        <4>2. \A i \in Stored : confidence'[i] >= confidence[i]
              BY <3>1, <4>1
        <4> QED  BY <4>2
      <3>2. ASSUME NEW q \in Requests, CommitUpserts(q) PROVE Rises
            BY <3>2, FallIsStale
      <3>3. confidence' = confidence \/ \E q \in Requests : CommitUpserts(q)
            BY DEF Next, Engine, BeginUpsert, Upsert, ReadIndicators, ReadAssets,
               ReadPairs, CommitMatches, Fail, CreateAsset, UpdateAsset,
               DeleteAsset, vars, tables
      <3> QED  BY <3>1, <3>2, <3>3
    <2> QED  BY <2>1, <2>2, <2>3
  <1>3. Rises => [Rises]_vars
        OBVIOUS
  <1> QED  BY <1>1, <1>2, <1>3, PTL DEF Spec, ConfidenceNeverFalls
-----------------------------------------------------------------------------
\* A request's own step, to a job that keeps the lookup complete.
LEMMA LookupMoves ==
    ASSUME TypeOK, LookupComplete, UNCHANGED tables, NEW q \in Requests, NEW j \in Job,
           job' = [job EXCEPT ![q] = j],
           j.stage \in {"assets", "pairs"} =>
             \A i \in j.loaded :
                \E h \in j.loaded : Text[h] = Text[i] /\ j.index[Text[i]] = h,
           j.stage = "match" =>
             \A i \in j.loaded, a \in Assets :
                life[a] # "deleted" /\ Text[i] \in j.snap[a] =>
                  \E h \in j.loaded :
                      Text[h] = Text[i] /\ <<h, a>> \in j.new \cup matches
    PROVE  LookupComplete'
  <1>1. job'[q] = j /\ \A r \in Requests : r # q => job'[r] = job[r]
        BY DEF TypeOK
  <1>2. life' = life /\ matches' = matches  BY DEF tables
  <1> QED  BY <1>1, <1>2 DEF LookupComplete

\* A request that ends leaves the others complete when no match goes.
LEMMA LookupEnds ==
    ASSUME TypeOK, LookupComplete, NEW q \in Requests, Done(q),
           matches \subseteq matches', life' = life
    PROVE  LookupComplete'
  <1>1. job'[q] = Idle /\ \A r \in Requests : r # q => job'[r] = job[r]
        BY DEF TypeOK, Done
  <1> QED  BY <1>1, IdleTyped DEF LookupComplete

LEMMA LookupKept ==
    ASSUME TypeOK, LookupComplete, NEW q \in Requests, Engine(q)
    PROVE  LookupComplete'
  <1>a. job \in [Requests -> Job] /\ job[q] \in Job  BY DEF TypeOK
  <1>1. CASE BeginUpsert(q)
    <2>1. PICK f \in Feeds :
            job' = [job EXCEPT ![q].stage = "upsert", ![q].items = f]
          BY <1>1 DEF BeginUpsert
    <2> DEFINE k == [job[q] EXCEPT !.stage = "upsert", !.items = f]
    <2>2. f \in Seq(Item)  BY IntelAssumption DEF Item
    <2>3. k \in Job /\ k.stage = "upsert"  BY <1>a, <2>2 DEF Job, Item
    <2>4. job' = [job EXCEPT ![q] = k]  BY <1>a, <2>1
    <2>5. UNCHANGED tables  BY <1>1 DEF BeginUpsert
    <2> HIDE DEF k
    <2> QED  BY <2>3, <2>4, <2>5, LookupMoves
  <1>2. CASE Upsert(q)
    <2>1. PICK k \in Job, i \in Indicators, c \in Levels :
            UpsertEffect(q, k, i, c)
          BY <1>2, UpsertJob
    <2>2. job' = [job EXCEPT ![q] = k] /\ k.stage = "upsert"
          BY <2>1 DEF UpsertEffect
    <2>3. UNCHANGED tables  BY <1>2 DEF Upsert
    <2> QED  BY <2>2, <2>3, LookupMoves
  <1>3. CASE CommitUpserts(q)
        BY <1>3, LookupEnds DEF CommitUpserts
  <1>4. CASE ReadIndicators(q)
    <2>1. PICK ix \in [Texts -> Indicators \cup {None}] :
            /\ \A t \in Texts :
                 LET with == {i \in Stored : Text[i] = t} IN
                 IF with = {} THEN ix[t] = None ELSE ix[t] \in with
            /\ job' = [job EXCEPT ![q].stage = "assets", ![q].index = ix,
                                  ![q].loaded = Stored]
          BY <1>4 DEF ReadIndicators
    <2> DEFINE k == [job[q] EXCEPT !.stage = "assets", !.index = ix,
                                   !.loaded = Stored]
    <2>2. k \in Job  BY <1>a DEF Job, Stored
    <2>3. job' = [job EXCEPT ![q] = k]  BY <1>a, <2>1
    <2>4. k.stage = "assets" /\ k.index = ix /\ k.loaded = Stored  BY <1>a DEF Job
    <2>5. ASSUME NEW i \in Stored
          PROVE  \E h \in Stored : Text[h] = Text[i] /\ ix[Text[i]] = h
      <3>1. i \in Indicators /\ Text[i] \in Texts  BY IntelAssumption DEF Stored
      <3>2. ix[Text[i]] \in {h \in Stored : Text[h] = Text[i]}
            BY <2>1, <3>1
      <3> QED  BY <3>2
    <2>6. UNCHANGED tables  BY <1>4 DEF ReadIndicators
    <2> HIDE DEF k
    <2> QED  BY <2>2, <2>3, <2>4, <2>5, <2>6, LookupMoves
  <1>5. CASE ReadAssets(q)
    <2> DEFINE s == [a \in Assets |-> IF a \in Page THEN attributes[a] ELSE {}]
               k == [job[q] EXCEPT !.stage = "pairs", !.snap = s]
    <2>0. s \in [Assets -> SUBSET Texts]  BY DEF TypeOK
    <2>1. k \in Job  BY <1>a, <2>0 DEF Job
    <2>2. job' = [job EXCEPT ![q] = k]  BY <1>a, <1>5 DEF ReadAssets
    <2>3. k.stage = "pairs" /\ k.index = job[q].index /\ k.loaded = job[q].loaded
          BY <1>a DEF Job
    <2>4. \A i \in k.loaded :
             \E h \in k.loaded : Text[h] = Text[i] /\ k.index[Text[i]] = h
          BY <1>5, <2>3 DEF ReadAssets, LookupComplete
    <2>5. UNCHANGED tables  BY <1>5 DEF ReadAssets
    <2> HIDE DEF k, s
    <2> QED  BY <2>1, <2>2, <2>3, <2>4, <2>5, LookupMoves
  <1>6. CASE ReadPairs(q)
    <2> DEFINE new == Hits(job[q]) \ matches
               k == [job[q] EXCEPT !.stage = "match", !.new = new]
    <2>1. new \subseteq Pairs  BY DEF Hits
    <2>2. k \in Job  BY <1>a, <2>1 DEF Job
    <2>3. job' = [job EXCEPT ![q] = k]  BY <1>a, <1>6 DEF ReadPairs
    <2>4. /\ k.stage = "match" /\ k.new = new
          /\ k.loaded = job[q].loaded /\ k.snap = job[q].snap
          BY <1>a DEF Job
    <2>5. ASSUME NEW i \in job[q].loaded, NEW a \in Assets, Text[i] \in job[q].snap[a]
          PROVE  \E h \in job[q].loaded :
                     Text[h] = Text[i] /\ <<h, a>> \in new \cup matches
      <3>1. PICK h \in job[q].loaded :
              Text[h] = Text[i] /\ job[q].index[Text[i]] = h
            BY <1>6 DEF ReadPairs, LookupComplete
      <3>2. h \in Indicators  BY <1>a DEF Job
      <3>3. <<h, a>> \in Hits(job[q])
            BY <2>5, <3>1, <3>2 DEF Hits, Pairs
      <3> QED  BY <3>1, <3>3
    <2>7. UNCHANGED tables  BY <1>6 DEF ReadPairs
    <2> HIDE DEF k, new
    <2> QED  BY <2>2, <2>3, <2>4, <2>5, <2>7, LookupMoves
  <1>7. CASE CommitMatches(q)
    <2>1. matches \subseteq matches' /\ life' = life /\ Done(q)
          BY <1>7 DEF CommitMatches
    <2> QED  BY <2>1, LookupEnds
  <1>8. CASE Fail(q)
        BY <1>8, LookupEnds DEF Fail, tables
  <1> QED
      BY <1>1, <1>2, <1>3, <1>4, <1>5, <1>6, <1>7, <1>8 DEF Engine

LEMMA AssetsKeepLookup ==
    ASSUME TypeOK, LookupComplete, NEW b \in Assets,
           CreateAsset(b) \/ UpdateAsset(b) \/ DeleteAsset(b)
    PROVE  LookupComplete'
  <1>1. job' = job
        BY DEF CreateAsset, UpdateAsset, DeleteAsset
  <1>2. \A a \in Assets, i \in Indicators :
           life'[a] # "deleted" =>
             /\ life[a] # "deleted"
             /\ <<i, a>> \in matches => <<i, a>> \in matches'
        BY DEF TypeOK, CreateAsset, UpdateAsset, DeleteAsset, Fleet
  <1>3. \A r \in Requests : job[r].loaded \subseteq Indicators
        BY DEF TypeOK, Job
  <1>4. SUFFICES ASSUME NEW r \in Requests, job[r].stage = "match",
                        NEW i \in job[r].loaded, NEW a \in Assets,
                        life'[a] # "deleted", Text[i] \in job[r].snap[a]
                 PROVE  \E h \in job[r].loaded :
                            Text[h] = Text[i] /\ <<h, a>> \in job[r].new \cup matches'
        BY <1>1 DEF LookupComplete
  <1>5. i \in Indicators /\ life[a] # "deleted"  BY <1>2, <1>3, <1>4
  <1>6. PICK h \in job[r].loaded :
          Text[h] = Text[i] /\ <<h, a>> \in job[r].new \cup matches
        BY <1>4, <1>5 DEF LookupComplete
  <1> QED  BY <1>2, <1>3, <1>4, <1>6

\* A step that ends a correlation with a commit leaves its hits matched.
LEMMA CommitCompletes ==
    ASSUME TypeOK, LookupComplete, [Next]_vars, NEW q \in Requests,
           job[q].stage = "match", job'[q] = Idle,
           matches' # matches \/ job[q].new = {},
           NEW i \in job[q].loaded, NEW a \in Fleet, Text[i] \in job[q].snap[a]
    PROVE  \E h \in job[q].loaded : Text[h] = Text[i] /\ <<h, a>> \in matches'
  <1>1. a \in Assets /\ life[a] # "deleted"  BY DEF Fleet
  <1>2. PICK h \in job[q].loaded :
          Text[h] = Text[i] /\ <<h, a>> \in job[q].new \cup matches
        BY <1>1 DEF LookupComplete
  <1>3. job'[q] # job[q]  BY IdleTyped
  <1>4. Engine(q)
    <2>1. ASSUME NEW r \in Requests, r # q, Engine(r) PROVE job'[q] = job[q]
          BY <2>1 DEF TypeOK, Engine, BeginUpsert, Upsert, CommitUpserts,
             ReadIndicators, ReadAssets, ReadPairs, CommitMatches, Fail, Done
    <2>2. ASSUME NEW b \in Assets, CreateAsset(b) \/ UpdateAsset(b) \/ DeleteAsset(b)
          PROVE  job' = job
          BY <2>2 DEF CreateAsset, UpdateAsset, DeleteAsset
    <2>3. vars' = vars => job' = job  BY DEF vars
    <2> QED  BY <1>3, <2>1, <2>2, <2>3 DEF Next
  <1>5. CASE CommitMatches(q)
        BY <1>2, <1>5 DEF CommitMatches
  <1>6. CASE ~CommitMatches(q)
    <2>1. matches' = matches
          BY <1>4, <1>6 DEF Engine, BeginUpsert, Upsert, CommitUpserts,
             ReadIndicators, ReadAssets, ReadPairs, Fail, tables
    <2> QED  BY <1>2, <2>1
  <1> QED  BY <1>5, <1>6

\* A correlation that commits leaves no indicator's text among the
\* attributes it has read without a match of the asset with an indicator of
\* this text, whatever overlaps it (correlate).
THEOREM CorrelationFindsAll == Spec => CorrelationComplete
  <1> DEFINE Known == IntelInv /\ LookupComplete
             Finds == \A q \in Requests :
                 job[q].stage = "match" /\ job'[q] = Idle
                   /\ (matches' # matches \/ job[q].new = {}) =>
                 \A i \in job[q].loaded, a \in Fleet :
                   Text[i] \in job[q].snap[a] =>
                     \E k \in job[q].loaded : Text[k] = Text[i] /\ <<k, a>> \in matches'
  <1>1. Init => Known
        BY StartsSafe, IdleTyped DEF Init, LookupComplete
  <1>2. Known /\ [Next]_vars => Known' /\ Finds
    <2> SUFFICES ASSUME Known, [Next]_vars PROVE Known' /\ Finds
        OBVIOUS
    <2>1. IntelInv' /\ TypeOK  BY StepSafe DEF IntelInv
    <2>2. LookupComplete'
      <3>1. CASE UNCHANGED vars
            BY <3>1 DEF vars, tables, LookupComplete
      <3> QED  BY <2>1, <3>1, LookupKept, AssetsKeepLookup DEF Next
    <2>3. Finds  BY <2>1, CommitCompletes
    <2> QED  BY <2>1, <2>2, <2>3
  <1>3. Finds => [Finds]_vars
        OBVIOUS
  <1> QED  BY <1>1, <1>2, <1>3, PTL DEF Spec, CorrelationComplete
=============================================================================
