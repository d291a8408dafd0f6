---------------------------- MODULE ThreatIntel ----------------------------
(***************************************************************************)
(* The threat-intelligence engine (services/threatintel/engine.py):        *)
(* indicators upserted by register and ingest, and correlate, which        *)
(* matches them against the attributes of the assets and raises an alert   *)
(* per hit, while assets are created, edited and deleted.                  *)
(*                                                                         *)
(* A request is one transaction: every SELECT is a step that sees what is  *)
(* committed, and the writes land at the commit.  Of two transactions      *)
(* that insert the same key the first to commit wins.                      *)
(***************************************************************************)
EXTENDS Naturals, Sequences, FiniteSets

CONSTANTS
    Indicators, \* identities (type, value) an indicator can have
    Texts,      \* attribute strings, stripped and lower-cased
    Text,       \* Text[i]: the value of indicator i, lower-cased
    Assets,     \* asset ids, numbered in the order of their created_at;
                \* one is never used again after a delete
    Contents,   \* what the attributes of an asset may hold
    AssetLimit, \* how many assets a correlation reads, 10000 in the code
    Levels,     \* confidence values
    Feeds,      \* what register or ingest may be given
    Requests,   \* requests to the engine that may be in progress
    None        \* no row

ASSUME IntelAssumption ==
    /\ Text \in [Indicators -> Texts]
    /\ Assets \subseteq Nat /\ AssetLimit \in Nat
    /\ Contents \subseteq SUBSET Texts
    /\ Levels \subseteq Nat /\ None \notin Indicators \cup Levels
    /\ Feeds \subseteq Seq([indicator: Indicators, confidence: Levels])

VARIABLES
    confidence, \* of each row of threat_indicators
    life,       \* of each asset: not created yet, present, or deleted
    attributes, \* the strings among its attributes
    matches,    \* rows of threat_matches: <<indicator, asset>>
    alerts,     \* how many ThreatIntel alerts each pair has raised
    job,        \* what each request is doing
    stale       \* history: <<q, i>> when upsert q has loaded indicator i and
                \* another upsert has changed its confidence since

tables == <<confidence, life, attributes, matches, alerts>>
vars   == <<tables, job, stale>>

Pairs  == Indicators \X Assets
Stored == {i \in Indicators : confidence[i] # None}
Fleet  == {a \in Assets : life[a] = "present"}

\* index: by_value.  snap: the strings read.  new: the pairs to insert.
\* items: the feed still to go through.  loaded: the indicators in the
\* session.  read, write: their confidence as loaded and as it will be.
Idle == [stage |-> "idle",
         index |-> [t \in Texts |-> None], snap |-> [a \in Assets |-> {}],
         new |-> {}, items |-> <<>>, loaded |-> {},
         read |-> [i \in Indicators |-> None],
         write |-> [i \in Indicators |-> None]]

Job == [stage: {"idle", "assets", "pairs", "match", "upsert"},
        index: [Texts -> Indicators \cup {None}],
        snap: [Assets -> SUBSET Texts], new: SUBSET Pairs,
        items: Seq([indicator: Indicators, confidence: Levels]),
        loaded: SUBSET Indicators,
        read: [Indicators -> Levels \cup {None}],
        write: [Indicators -> Levels \cup {None}]]

Init ==
    /\ confidence = [i \in Indicators |-> None]
    /\ life = [a \in Assets |-> "unborn"]
    /\ attributes = [a \in Assets |-> {}]
    /\ matches = {} /\ alerts = [p \in Pairs |-> 0]
    /\ job = [q \in Requests |-> Idle]
    /\ stale = {}

\* Request q ends; a confidence it has changed is not what others have loaded.
Done(q) ==
    /\ job' = [job EXCEPT ![q] = Idle]
    /\ stale' = {p \in stale : p[1] # q} \cup
         {p \in (Requests \ {q}) \X Indicators :
            /\ job[p[1]].stage = "upsert" /\ p[2] \in job[p[1]].loaded
            /\ confidence'[p[2]] # confidence[p[2]]}
-----------------------------------------------------------------------------
(***************************************************************************)
(* register and ingest.                                                    *)
(***************************************************************************)
BeginUpsert(q) ==
    /\ job[q] = Idle
    /\ \E f \in Feeds :
         job' = [job EXCEPT ![q].stage = "upsert", ![q].items = f]
    /\ UNCHANGED <<tables, stale>>

\* Seeded fault: the feed's confidence replaces the stored one.
UpsertReplaces(q) ==
    /\ job[q].stage = "upsert" /\ job[q].items # <<>>
    /\ LET i == Head(job[q].items).indicator IN
         job' = [job EXCEPT ![q].items = Tail(@),
                            ![q].loaded = @ \cup {i},
                            ![q].read[i] = confidence[i],
                            ![q].write[i] = Head(job[q].items).confidence]
    /\ UNCHANGED <<tables, stale>>

\* _upsert of one item: an indicator that is there keeps the larger
\* confidence; a row loaded twice is the session's own object.
Upsert(q) ==
    LET i == Head(job[q].items).indicator
        c == Head(job[q].items).confidence
        now == IF i \in job[q].loaded THEN job[q].write[i] ELSE confidence[i]
    IN
    /\ job[q].stage = "upsert" /\ job[q].items # <<>>
    /\ job' = [job EXCEPT
         ![q].items = Tail(@),
         ![q].loaded = @ \cup {i},
         ![q].read[i] = IF i \in job[q].loaded THEN @ ELSE confidence[i],
         ![q].write[i] = IF now # None /\ now >= c THEN now ELSE c]
    /\ UNCHANGED <<tables, stale>>

\* The commit.  A row inserted meanwhile by another request is a violation
\* of (indicator_type, value) that rolls all of it back; an unchanged
\* confidence is not written.
CommitUpserts(q) ==
    LET j == job[q]
        clash == \E i \in j.loaded : j.read[i] = None /\ i \in Stored
    IN
    /\ j.stage = "upsert" /\ j.items = <<>>
    /\ confidence' = IF clash THEN confidence
         ELSE [i \in Indicators |->
                 IF i \in j.loaded /\ j.write[i] # j.read[i]
                   THEN j.write[i] ELSE confidence[i]]
    /\ Done(q)
    /\ UNCHANGED <<life, attributes, matches, alerts>>
-----------------------------------------------------------------------------
(***************************************************************************)
(* correlate.                                                              *)
(***************************************************************************)

\* The active indicators, keyed by lower-cased value: of several with the
\* same text one is kept.
ReadIndicators(q) ==
    /\ job[q] = Idle
    /\ \E ix \in [Texts -> Indicators \cup {None}] :
         /\ \A t \in Texts :
              LET with == {i \in Stored : Text[i] = t} IN
              IF with = {} THEN ix[t] = None ELSE ix[t] \in with
         /\ job' = [job EXCEPT ![q].stage = "assets", ![q].index = ix,
                               ![q].loaded = Stored]
    /\ UNCHANGED <<tables, stale>>

\* assets.list(limit=10000): the newest AssetLimit of them.
Page == {a \in Fleet : Cardinality({b \in Fleet : b > a}) < AssetLimit}

ReadAssets(q) ==
    /\ job[q].stage = "assets"
    /\ job' = [job EXCEPT ![q].stage = "pairs",
         ![q].snap = [a \in Assets |-> IF a \in Page THEN attributes[a] ELSE {}]]
    /\ UNCHANGED <<tables, stale>>

\* Every string of every asset is looked up in by_value.
Hits(j) == {p \in Pairs : \E t \in j.snap[p[2]] : j.index[t] = p[1]}

\* Seeded fault: an indicator that has matched some asset is skipped.
ReadPairsByIndicator(q) ==
    /\ job[q].stage = "pairs"
    /\ job' = [job EXCEPT ![q].stage = "match",
         ![q].new = {p \in Hits(job[q]) : \A m \in matches : m[1] # p[1]}]
    /\ UNCHANGED <<tables, stale>>

\* The matches there are, and with them the pairs that are new.
ReadPairs(q) ==
    /\ job[q].stage = "pairs"
    /\ job' = [job EXCEPT ![q].stage = "match",
                          ![q].new = Hits(job[q]) \ matches]
    /\ UNCHANGED <<tables, stale>>

\* Seeded fault: without the unique constraint on (indicator, asset).
CommitTwice(q) ==
    LET new == job[q].new IN
    /\ job[q].stage = "match"
    /\ matches' = matches \cup new
    /\ alerts' = [p \in Pairs |-> IF p \in new THEN alerts[p] + 1 ELSE alerts[p]]
    /\ UNCHANGED <<confidence, life, attributes>>
    /\ Done(q)

\* The alerts and matches, in one commit: a pair matched meanwhile, or an
\* asset deleted meanwhile, rolls all of them back.
CommitMatches(q) ==
    LET new == job[q].new
        fails == new \cap matches # {} \/ \E p \in new : p[2] \notin Fleet
    IN
    /\ job[q].stage = "match"
    /\ matches' = IF fails THEN matches ELSE matches \cup new
    /\ alerts' = [p \in Pairs |->
                    IF p \in new /\ ~fails THEN alerts[p] + 1 ELSE alerts[p]]
    /\ UNCHANGED <<confidence, life, attributes>>
    /\ Done(q)

\* The request fails before its commit.
Fail(q) == job[q] # Idle /\ UNCHANGED tables /\ Done(q)
-----------------------------------------------------------------------------
(***************************************************************************)
(* The assets (services/assets.py).                                        *)
(***************************************************************************)
CreateAsset(a) ==
    /\ life[a] = "unborn"
    /\ life' = [life EXCEPT ![a] = "present"]
    /\ \E s \in Contents : attributes' = [attributes EXCEPT ![a] = s]
    /\ UNCHANGED <<confidence, matches, alerts, job, stale>>

UpdateAsset(a) ==
    /\ a \in Fleet
    /\ \E s \in Contents : attributes' = [attributes EXCEPT ![a] = s]
    /\ UNCHANGED <<confidence, life, matches, alerts, job, stale>>

\* Seeded fault: a delete without the cascade.
DeleteAssetOnly(a) ==
    /\ a \in Fleet
    /\ life' = [life EXCEPT ![a] = "deleted"]
    /\ attributes' = [attributes EXCEPT ![a] = {}]
    /\ UNCHANGED <<confidence, matches, alerts, job, stale>>

\* The asset's matches go with it (ON DELETE CASCADE), its alerts stay.
DeleteAsset(a) ==
    /\ a \in Fleet
    /\ life' = [life EXCEPT ![a] = "deleted"]
    /\ attributes' = [attributes EXCEPT ![a] = {}]
    /\ matches' = {p \in matches : p[2] # a}
    /\ UNCHANGED <<confidence, alerts, job, stale>>

Engine(q) ==
    \/ BeginUpsert(q) \/ Upsert(q) \/ CommitUpserts(q)
    \/ ReadIndicators(q) \/ ReadAssets(q) \/ ReadPairs(q) \/ CommitMatches(q)
    \/ Fail(q)

Next ==
    \/ \E q \in Requests : Engine(q)
    \/ \E a \in Assets : CreateAsset(a) \/ UpdateAsset(a) \/ DeleteAsset(a)

Spec == Init /\ [][Next]_vars
-----------------------------------------------------------------------------
(***************************************************************************)
(* Properties.                                                             *)
(***************************************************************************)

\* Types; a match names an indicator and an asset that exist.
TypeOK ==
    /\ confidence \in [Indicators -> Levels \cup {None}]
    /\ life \in [Assets -> {"unborn", "present", "deleted"}]
    /\ attributes \in [Assets -> SUBSET Texts]
    /\ alerts \in [Pairs -> Nat]
    /\ matches \subseteq Stored \X Fleet
    /\ job \in [Requests -> Job]

\* "One (indicator, asset) pair produces exactly one match and one alert"
\* (engine.py), however many correlations overlap: a pair in the match
\* table has raised one alert, one that is not has raised none, and no pair
\* ever raises a second.
OneAlertPerPair ==
    \A p \in Pairs :
        /\ alerts[p] <= 1
        /\ p[2] \in Fleet => (alerts[p] = 1 <=> p \in matches)

\* "Correlation walks every asset's attributes and matches them against
\* active indicators.  A hit creates a ThreatMatch" (engine.py): a run that
\* commits leaves no string it read on an asset, and that is the text of an
\* indicator it read, without a match of that asset with an indicator of this
\* text, though not with each of them; whatever overlapped it.
CorrelationComplete ==
    [][\A q \in Requests :
         job[q].stage = "match" /\ job'[q] = Idle
           /\ (matches' # matches \/ job[q].new = {}) =>
         \A i \in job[q].loaded, a \in Fleet :
           Text[i] \in job[q].snap[a] =>
             \E k \in job[q].loaded : Text[k] = Text[i] /\ <<k, a>> \in matches']_vars

\* An upsert "raises confidence to the max seen" (ADR-0008): a stored
\* confidence falls only at the commit of an upsert that had loaded it before
\* another upsert changed it.
ConfidenceNeverFalls ==
    [][\A i \in Stored :
         \/ confidence'[i] >= confidence[i]
         \/ \E q \in Requests : <<q, i>> \in stale /\ job'[q] = Idle]_vars
-----------------------------------------------------------------------------
(***************************************************************************)
(* The inductive invariants behind them.                                   *)
(***************************************************************************)

\* An asset that does not exist yet has raised nothing.
NothingUnborn ==
    \A p \in Pairs : life[p[2]] = "unborn" => alerts[p] = 0

\* What an upsert has gone through it will write ...
WritesReady ==
    \A q \in Requests : job[q].stage = "upsert" =>
        \A i \in job[q].loaded : job[q].write[i] \in Levels

\* ... and a correlation only knows indicators that are stored.
KnowsStored ==
    \A q \in Requests :
        /\ job[q].stage \in {"assets", "pairs"} =>
             \A t \in Texts : job[q].index[t] \in Stored \cup {None}
        /\ job[q].stage = "match" => job[q].new \subseteq Stored \X Assets

IntelInv ==
    /\ TypeOK /\ OneAlertPerPair
    /\ NothingUnborn /\ WritesReady /\ KnowsStored

\* What an upsert has read is still so at its commit, unless it is stale.
UpsertCurrent ==
    /\ stale \subseteq Requests \X Indicators
    /\ \A q \in Requests : job[q].stage = "upsert" =>
         \A i \in job[q].loaded : <<q, i>> \notin stale =>
            /\ job[q].read[i] = confidence[i]
            /\ confidence[i] # None => job[q].write[i] >= confidence[i]
    /\ \A p \in stale : job[p[1]].stage = "upsert" /\ p[2] \in job[p[1]].loaded

\* A correlation looks up one of the indicators it has read for every text
\* they have, and what it will insert makes its hits complete, but for those
\* about an asset deleted since.
LookupComplete ==
    \A q \in Requests :
        /\ job[q].stage \in {"assets", "pairs"} =>
             \A i \in job[q].loaded :
                \E k \in job[q].loaded :
                    Text[k] = Text[i] /\ job[q].index[Text[i]] = k
        /\ job[q].stage = "match" =>
             \A i \in job[q].loaded, a \in Assets :
                life[a] # "deleted" /\ Text[i] \in job[q].snap[a] =>
                  \E k \in job[q].loaded :
                      Text[k] = Text[i] /\ <<k, a>> \in job[q].new \cup matches
=============================================================================
