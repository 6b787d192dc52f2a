--------------------------- MODULE Filters_proofs ---------------------------
(***************************************************************************)
(* Theorems about Filters: whatever endpoint is inside them, in whatever   *)
(* order they are and however its requests end, the metrics count and the  *)
(* auditor and the log tell what the clients saw.                          *)
(***************************************************************************)
EXTENDS Filters, FiniteSetTheorems, SequenceTheorems, TLAPS

-----------------------------------------------------------------------------
(***************************************************************************)
(* Places in a chain.                                                      *)
(***************************************************************************)

\* A chain is a sequence of filters, none of which it has twice.
LEMMA Chains ==
  ASSUME config \in Configs
  PROVE  /\ Len(config.chain) \in Nat
         /\ DOMAIN config.chain = 1..Len(config.chain)
         /\ \A k \in 1..Len(config.chain) : config.chain[k] \in FilterNames
         /\ \A j, k \in 1..Len(config.chain) :
              config.chain[j] = config.chain[k] => j = k
<1>1. config.chain \in Seq(FilterNames) BY ConfigsAssumption
<1>2. /\ Len(config.chain) \in Nat
      /\ DOMAIN config.chain = 1..Len(config.chain)
      /\ \A k \in 1..Len(config.chain) : config.chain[k] \in FilterNames
  BY <1>1
<1>3. QED BY <1>2, ConfigsAssumption

\* Request s is inside filter f, and through it, as before the step, and if it
\* is through, sees the same.
Kept(s, f) ==
  /\ Inside(s, f)' <=> Inside(s, f)
  /\ Through(s, f)' <=> Through(s, f)
  /\ Through(s, f) => Seen(s)' = Seen(s)

\* Going into filter f, a request was not inside of it and now is.
LEMMA GoingIn ==
  ASSUME FiltersTypeOK, NEW r \in Reqs, NEW f, Entering(r, f)
  PROVE  /\ f \in FilterNames
         /\ ~ Inside(r, f) /\ Inside(r, f)'
         /\ ~ Through(r, f) /\ ~ Through(r, f)'
         /\ \A s \in Reqs, g \in FilterNames : s # r \/ g # f => Kept(s, g)
<1>1. /\ depth[r] \in Nat /\ depth[r] < Len(config.chain)
      /\ config \in Configs /\ config' = config
      /\ stage' = stage /\ stage[r] = "down" /\ sent' = sent
      /\ config.chain[depth[r] + 1] = f
      /\ depth'[r] = depth[r] + 1
      /\ \A s \in Reqs \ {r} : depth'[s] = depth[s]
  BY Chains DEF FiltersTypeOK, Entering
<1>2. f \in FilterNames BY <1>1, Chains
<1>3. ~ Inside(r, f) /\ Inside(r, f)'
  <2>1. \A k \in 1..depth[r] : config.chain[k] # f BY <1>1, Chains
  <2>2. depth[r] + 1 \in 1..depth'[r] BY <1>1
  <2>3. QED BY <1>1, <2>1, <2>2 DEF Inside
<1>4. \A g \in FilterNames : ~ Through(r, g) /\ ~ Through(r, g)'
  BY <1>1 DEF Through
<1>5. ASSUME NEW g \in FilterNames, g # f PROVE Inside(r, g)' <=> Inside(r, g)
  <2>1. \A k \in Int : k \in 1..depth'[r] <=> k \in 1..depth[r] \/ k = depth[r] + 1
    BY <1>1
  <2>2. QED BY <1>1, <1>5, <2>1 DEF Inside
<1>6. ASSUME NEW s \in Reqs \ {r}, NEW g \in FilterNames PROVE Kept(s, g)
  BY <1>1, <1>6 DEF Kept, Inside, Through, Active, Seen
<1>7. QED BY <1>2, <1>3, <1>4, <1>5, <1>6 DEF Kept

\* Leaving it, it was inside of it; it now is through it, if it is on its way
\* up and the filter is active.
LEMMA GoingOut ==
  ASSUME FiltersTypeOK, NEW r \in Reqs, NEW f, NEW way \in {"up", "panic"},
         Leaving(r, f, way)
  PROVE  /\ f \in FilterNames /\ stage[r] = way
         /\ Inside(r, f) /\ ~ Inside(r, f)'
         /\ ~ Through(r, f)
         /\ Through(r, f)' <=> (way = "up" /\ Active(f))
         /\ \A s \in Reqs, g \in FilterNames : s # r \/ g # f => Kept(s, g)
<1>1. /\ depth[r] \in Nat /\ depth[r] \in 1..Len(config.chain)
      /\ config \in Configs /\ config' = config
      /\ stage' = stage /\ stage[r] = way /\ sent' = sent
      /\ config.chain[depth[r]] = f
      /\ depth'[r] = depth[r] - 1
      /\ \A s \in Reqs \ {r} : depth'[s] = depth[s]
  BY Chains DEF FiltersTypeOK, Leaving
<1>2. f \in FilterNames BY <1>1, Chains
<1>3. Inside(r, f) /\ ~ Inside(r, f)'
  <2>1. \A k \in 1..depth'[r] : config.chain[k] # f BY <1>1, Chains
  <2>2. depth[r] \in 1..depth[r] BY <1>1
  <2>3. QED BY <1>1, <2>1, <2>2 DEF Inside
<1>4. ~ Through(r, f)
  <2>1. \A k \in DOMAIN config.chain : k > depth[r] => config.chain[k] # f
    BY <1>1, Chains
  <2>2. QED BY <2>1 DEF Through
<1>5. Through(r, f)' <=> (way = "up" /\ Active(f))
  <2>1. depth[r] \in DOMAIN config.chain /\ depth[r] > depth'[r]
    BY <1>1, Chains
  <2>2. QED BY <1>1, <2>1 DEF Through, Active
<1>6. ASSUME NEW g \in FilterNames, g # f PROVE Kept(r, g)
  <2>1. \A k \in 1..Len(config.chain) :
          /\ k \in 1..depth[r] <=> k \in 1..depth'[r] \/ k = depth[r]
          /\ k > depth'[r] <=> k > depth[r] \/ k = depth[r]
    BY <1>1, Chains
  <2>2. \A k \in 1..depth[r] : k \in 1..Len(config.chain) BY <1>1, Chains
  <2>3. \A k \in 1..depth'[r] : k \in 1..Len(config.chain) BY <1>1, Chains
  <2>4. Inside(r, g)' <=> Inside(r, g)
    BY <1>1, <1>6, <2>1, <2>2, <2>3 DEF Inside
  <2>5. Through(r, g)' <=> Through(r, g)
    BY <1>1, <1>6, <2>1, Chains DEF Through, Active
  <2>6. QED BY <1>1, <2>4, <2>5 DEF Kept, Seen
<1>7. ASSUME NEW s \in Reqs \ {r}, NEW g \in FilterNames PROVE Kept(s, g)
  BY <1>1, <1>7 DEF Kept, Inside, Through, Active, Seen
<1>8. QED BY <1>1, <1>2, <1>3, <1>4, <1>5, <1>6, <1>7

\* The steps that have nothing to do with a filter.
Beside(r) ==
  \/ Arrive(r) \/ Finish(r)
  \/ \E s \in Statuses : Sends(r, s) \/ Answers(r, s)
  \/ Returns(r) \/ Panics(r)

\* They leave every request as far inside the filters as it was.
LEMMA Beside_Kept ==
  ASSUME FiltersTypeOK, SentByEndpoint, NEW r \in Reqs, Beside(r)
  PROVE  /\ UNCHANGED <<config, req, metrics, reports>>
         /\ \A s \in Reqs, g \in FilterNames : Kept(s, g)
<1>1. /\ UNCHANGED <<config, req, depth, metrics, reports>>
      /\ \A s \in Reqs \ {r} : stage'[s] = stage[s] /\ sent'[s] = sent[s]
  BY DEF FiltersTypeOK, Beside, Arrive, Finish, Sends, Answers, Returns,
         Panics, Ends, Writes
<1>2. ASSUME NEW s \in Reqs \ {r}, NEW g \in FilterNames PROVE Kept(s, g)
  BY <1>1, <1>2 DEF Kept, Inside, Through, Active, Seen
<1>3. depth[r] \in Nat /\ config \in Configs BY Chains DEF FiltersTypeOK
<1>4. ASSUME NEW g \in FilterNames PROVE Kept(r, g)
  <2>1. CASE Arrive(r)
    <3>1. stage[r] = "idle" /\ stage'[r] = "down" /\ depth[r] = 0
      BY <2>1 DEF FiltersTypeOK, SentByEndpoint, Arrive
    <3>2. QED BY <1>1, <3>1 DEF Kept, Inside, Through
  <2>2. CASE Finish(r)
    <3>1. depth[r] = 0 BY <2>2 DEF Finish
    <3>2. \/ stage[r] = "up" /\ stage'[r] = "done"
             /\ sent'[r] = IF sent[r] = 0 THEN 200 ELSE sent[r]
          \/ stage[r] = "panic" /\ stage'[r] = "aborted"
      BY <2>2 DEF FiltersTypeOK, Finish
    <3>3. ~ Inside(r, g) /\ ~ Inside(r, g)'
      BY <1>1, <3>1 DEF Inside
    <3>4. CASE stage[r] = "up"
      <4>1. Through(r, g)' <=> Through(r, g)
        BY <1>1, <3>2, <3>4 DEF Through, Active
      <4>2. Seen(r)' = Seen(r) BY <3>2, <3>4 DEF Seen
      <4>3. QED BY <3>3, <4>1, <4>2 DEF Kept
    <3>5. CASE stage[r] = "panic"
      BY <3>2, <3>3, <3>5 DEF Kept, Through
    <3>6. QED BY <3>2, <3>4, <3>5
  <2>3. CASE stage[r] = "down" /\ depth[r] = Len(config.chain)
             /\ stage'[r] \in {"down", "up", "panic"}
    <3>1. \A k \in DOMAIN config.chain : ~ k > depth[r]
      BY <1>3, <2>3, Chains
    <3>2. QED BY <1>1, <2>3, <3>1 DEF Kept, Inside, Through
  <2>4. QED
    BY <2>1, <2>2, <2>3
    DEF FiltersTypeOK, Beside, Sends, Answers, Returns, Panics, Ends, AtEndpoint
<1>5. QED BY <1>1, <1>2, <1>4

\* The steps of FiltersNext, by the filter they are about.
LEMMA Steps ==
  ASSUME FiltersNext
  PROVE  \E r \in Reqs :
           \/ Beside(r)
           \/ EnterInactive(r) \/ EnterAudit(r)
           \/ EnterMetrics(r) \/ EnterLogging(r)
           \/ LeaveInactive(r) \/ LeaveAudit(r)
           \/ LeaveMetrics(r) \/ LeaveLogging(r)
           \/ Unwind(r)
BY DEF FiltersNext, PassFilters, Endpoint, Beside

-----------------------------------------------------------------------------
(***************************************************************************)
(* What the metrics count.                                                 *)
(***************************************************************************)

\* If nothing happens to the metrics filter, the sets the metrics count stay.
LEMMA CountsKept ==
  ASSUME FiltersInv, UNCHANGED <<config, req>>,
         \A s \in Reqs : Kept(s, "metrics")
  PROVE  /\ \A l \in LabelSets : Metered(l)' = Metered(l)
         /\ \A l \in LabelSets, s \in Statuses : Tallied(l, s)' = Tallied(l, s)
<1>1. Active("metrics")' <=> Active("metrics") BY DEF Active
<1>2. \A l \in LabelSets : Metered(l)' = Metered(l)
  BY <1>1 DEF Metered, Kept
<1>3. \A l \in LabelSets, s \in Statuses : Tallied(l, s)' = Tallied(l, s)
  BY DEF Tallied, Kept
<1>4. QED BY <1>2, <1>3

LEMMA MetricsKept ==
  ASSUME FiltersInv, UNCHANGED <<config, req, metrics>>,
         \A s \in Reqs : Kept(s, "metrics")
  PROVE  (FinitelyMany /\ GaugeExact /\ CountedAsAnswered)'
BY CountsKept
DEF FiltersInv, FinitelyMany, GaugeExact, CountedAsAnswered, metrics

\* A request that comes to the metrics filter is one more in flight.
LEMMA MeteredMore ==
  ASSUME FiltersInv, NEW r \in Reqs, EnterMetrics(r)
  PROVE  (FinitelyMany /\ GaugeExact /\ CountedAsAnswered)'
<1> DEFINE here == Labels(req[r])
<1>1. /\ ~ Inside(r, "metrics") /\ Inside(r, "metrics")'
      /\ ~ Through(r, "metrics") /\ ~ Through(r, "metrics")'
      /\ \A s \in Reqs : s # r => Kept(s, "metrics")
  BY GoingIn DEF EnterMetrics, FiltersInv, FilterNames
<1>2. /\ UNCHANGED <<config, req, counter>> /\ Active("metrics")
      /\ gauge' = [gauge EXCEPT ![here] = @ + 1]
  BY DEF EnterMetrics, Entering
<1>3. here \in LabelSets /\ gauge \in [LabelSets -> Nat]
  BY DEF FiltersInv, FiltersTypeOK, LabelSets
<1>4. Active("metrics")' BY <1>2 DEF Active
<1>5. \A l \in LabelSets : Metered(l)' = IF l = here THEN Metered(l) \cup {r}
                                                    ELSE Metered(l)
  BY <1>1, <1>2, <1>4 DEF Metered, Kept
<1>6. r \notin Metered(here) BY <1>1 DEF Metered
<1>7. \A l \in LabelSets, s \in Statuses : Tallied(l, s)' = Tallied(l, s)
  BY <1>1, <1>2 DEF Tallied, Kept
<1>8. \A l \in LabelSets : /\ IsFiniteSet(Metered(l)')
                           /\ gauge'[l] = Cardinality(Metered(l)')
  <2> SUFFICES ASSUME NEW l \in LabelSets
               PROVE  /\ IsFiniteSet(Metered(l)')
                      /\ gauge'[l] = Cardinality(Metered(l)')
    OBVIOUS
  <2>1. IsFiniteSet(Metered(l)) /\ gauge[l] = Cardinality(Metered(l))
    BY DEF FiltersInv, FinitelyMany, GaugeExact
  <2>2. IsFiniteSet(Metered(l) \cup {r})
    BY <2>1, FS_AddElement
  <2>3. l = here => Cardinality(Metered(l) \cup {r}) = Cardinality(Metered(l)) + 1
    BY <1>6, <2>1, FS_AddElement
  <2>4. gauge'[l] = IF l = here THEN gauge[l] + 1 ELSE gauge[l] BY <1>2, <1>3
  <2>5. QED BY <1>5, <2>1, <2>2, <2>3, <2>4
<1>9. QED
  BY <1>2, <1>7, <1>8 DEF FiltersInv, FinitelyMany, GaugeExact, CountedAsAnswered

\* One that leaves it on its way up is one less, and one more is counted.
LEMMA MeteredLess ==
  ASSUME FiltersInv, NEW r \in Reqs, NEW way \in {"up", "panic"},
         Leaving(r, "metrics", way), Active("metrics"), gauge' = InFlightDec(r)
  PROVE  (\A l \in LabelSets : /\ IsFiniteSet(Metered(l))
                               /\ gauge[l] = Cardinality(Metered(l)))'
<1> DEFINE here == Labels(req[r])
<1>1. /\ Inside(r, "metrics") /\ ~ Inside(r, "metrics")'
      /\ \A s \in Reqs : s # r => Kept(s, "metrics")
  BY GoingOut DEF FiltersInv, FilterNames
<1>2. /\ UNCHANGED <<config, req>>
      /\ gauge' = [gauge EXCEPT ![here] = @ - 1]
  BY DEF Leaving, InFlightDec
<1>3. here \in LabelSets /\ gauge \in [LabelSets -> Nat]
  BY DEF FiltersInv, FiltersTypeOK, LabelSets
<1>4. Active("metrics")' BY <1>2 DEF Active
<1>5. \A l \in LabelSets : Metered(l)' = IF l = here THEN Metered(l) \ {r}
                                                    ELSE Metered(l)
  BY <1>1, <1>2, <1>4 DEF Metered, Kept
<1>6. r \in Metered(here) BY <1>1 DEF Metered
<1> SUFFICES ASSUME NEW l \in LabelSets
             PROVE  /\ IsFiniteSet(Metered(l)')
                    /\ gauge'[l] = Cardinality(Metered(l)')
  OBVIOUS
<1>7. IsFiniteSet(Metered(l)) /\ gauge[l] = Cardinality(Metered(l))
  BY DEF FiltersInv, FinitelyMany, GaugeExact
<1>8. IsFiniteSet(Metered(l) \ {r})
  BY <1>7, FS_RemoveElement
<1>9. l = here => Cardinality(Metered(l) \ {r}) = Cardinality(Metered(l)) - 1
  BY <1>6, <1>7, FS_RemoveElement
<1>10. gauge'[l] = IF l = here THEN gauge[l] - 1 ELSE gauge[l] BY <1>2, <1>3
<1>11. QED BY <1>5, <1>7, <1>8, <1>9, <1>10

LEMMA TalliedMore ==
  ASSUME FiltersInv, NEW r \in Reqs, LeaveMetrics(r)
  PROVE  (FinitelyMany /\ GaugeExact /\ CountedAsAnswered)'
<1> DEFINE here == Labels(req[r])
           code == Seen(r)
<1>1. /\ Inside(r, "metrics") /\ stage[r] = "up"
      /\ ~ Through(r, "metrics") /\ Through(r, "metrics")'
      /\ \A s \in Reqs : s # r => Kept(s, "metrics")
  BY GoingOut DEF LeaveMetrics, FiltersInv, FilterNames
<1>2. /\ UNCHANGED <<config, req, sent>>
      /\ Active("metrics") /\ Leaving(r, "metrics", "up")
      /\ gauge' = InFlightDec(r)
  BY DEF LeaveMetrics, Leaving
<1>3. recorded[r]["metrics"] = code
  BY <1>1, <1>2 DEF FiltersInv, RecordsSeen, FilterNames
<1>4. counter' = [counter EXCEPT ![here][code] = @ + 1]
  BY <1>3 DEF LeaveMetrics
<1>5. /\ here \in LabelSets /\ counter \in [LabelSets -> [Statuses -> Nat]]
      /\ code \in Statuses
  BY StatusesAssumption DEF FiltersInv, FiltersTypeOK, LabelSets, Seen, Codes
<1>6. \A l \in LabelSets, s \in Statuses :
        Tallied(l, s)' = IF l = here /\ s = code THEN Tallied(l, s) \cup {r}
                                                 ELSE Tallied(l, s)
  BY <1>1, <1>2 DEF Tallied, Kept, Seen
<1>7. r \notin Tallied(here, code) BY <1>1 DEF Tallied
<1>8. ASSUME NEW l \in LabelSets, NEW s \in Statuses
      PROVE  /\ IsFiniteSet(Tallied(l, s)')
             /\ counter'[l][s] = Cardinality(Tallied(l, s)')
  <2>1. IsFiniteSet(Tallied(l, s)) /\ counter[l][s] = Cardinality(Tallied(l, s))
    BY DEF FiltersInv, FinitelyMany, CountedAsAnswered
  <2>2. IsFiniteSet(Tallied(l, s) \cup {r}) BY <2>1, FS_AddElement
  <2>3. l = here /\ s = code
        => Cardinality(Tallied(l, s) \cup {r}) = Cardinality(Tallied(l, s)) + 1
    BY <1>7, <2>1, FS_AddElement
  <2>4. counter'[l][s] = IF l = here /\ s = code THEN counter[l][s] + 1
                                                 ELSE counter[l][s]
    BY <1>4, <1>5
  <2>5. QED BY <1>6, <2>1, <2>2, <2>3, <2>4
<1>9. (\A l \in LabelSets : /\ IsFiniteSet(Metered(l))
                            /\ gauge[l] = Cardinality(Metered(l)))'
  BY <1>2, MeteredLess
<1>10. QED
  BY <1>8, <1>9 DEF FinitelyMany, GaugeExact, CountedAsAnswered

\* A metrics filter that is switched off counts nothing.
LEMMA MetricsOff ==
  ASSUME FiltersInv, UNCHANGED <<config, req, metrics>>, ~ Active("metrics")
  PROVE  (FinitelyMany /\ GaugeExact /\ CountedAsAnswered)'
<1>1. ~ Active("metrics")' BY DEF Active
<1>2. \A l \in LabelSets : Metered(l)' = Metered(l)
  BY <1>1 DEF Metered
<1>3. \A l \in LabelSets, s \in Statuses : Tallied(l, s)' = Tallied(l, s)
  BY <1>1 DEF Tallied, Through
<1>4. QED
  BY <1>2, <1>3
  DEF FiltersInv, FinitelyMany, GaugeExact, CountedAsAnswered, metrics

\* A panic on its way up runs the deferred decrement and counts nothing.
LEMMA Unmetered ==
  ASSUME FiltersInv, NEW r \in Reqs, Unwind(r)
  PROVE  (FinitelyMany /\ GaugeExact /\ CountedAsAnswered)'
<1>1. PICK f \in FilterNames : Leaving(r, f, "panic") /\ gauge' = Deferred(r, f)
  BY DEF Unwind
<1>2. UNCHANGED <<config, req, counter>> BY DEF Unwind, Leaving
<1>3. CASE f = "metrics" /\ Active("metrics")
  <2>1. gauge' = InFlightDec(r) BY <1>1, <1>3 DEF Deferred
  <2>2. (\A l \in LabelSets : /\ IsFiniteSet(Metered(l))
                              /\ gauge[l] = Cardinality(Metered(l)))'
    BY <1>1, <1>3, <2>1, MeteredLess
  <2>3. /\ ~ Through(r, "metrics") /\ ~ Through(r, "metrics")'
        /\ \A s \in Reqs : s # r => Kept(s, "metrics")
    <3>1. Leaving(r, "metrics", "panic") /\ "panic" \in {"up", "panic"}
      BY <1>1, <1>3
    <3>2. "panic" # "up" OBVIOUS
    <3>3. QED BY <3>1, <3>2, GoingOut DEF FiltersInv, FilterNames
  <2>4. \A l \in LabelSets, s \in Statuses : Tallied(l, s)' = Tallied(l, s)
    BY <1>2, <2>3 DEF Tallied, Kept
  <2>5. QED
    BY <1>2, <2>2, <2>4 DEF FiltersInv, FinitelyMany, GaugeExact, CountedAsAnswered
<1>4. CASE f = "metrics" /\ ~ Active("metrics")
  BY <1>1, <1>2, <1>4, MetricsOff DEF Deferred, metrics
<1>5. CASE f # "metrics"
  <2>1. gauge' = gauge BY <1>1, <1>5 DEF Deferred
  <2>2. \A s \in Reqs : Kept(s, "metrics")
    BY <1>1, <1>5, GoingOut DEF FiltersInv, FilterNames
  <2>3. QED BY <1>2, <2>1, <2>2, MetricsKept DEF metrics
<1>6. QED BY <1>3, <1>4, <1>5

\* The metrics stay exact.
LEMMA MetricsStep ==
  ASSUME FiltersInv, [FiltersNext]_filterVars
  PROVE  (FinitelyMany /\ GaugeExact /\ CountedAsAnswered)'
<1> "metrics" \in FilterNames /\ "audit" # "metrics" /\ "logging" # "metrics"
  BY DEF FilterNames
<1>1. CASE UNCHANGED filterVars
  <2>1. \A s \in Reqs : Kept(s, "metrics")
    BY <1>1 DEF filterVars, Kept, Inside, Through, Active, Seen
  <2>2. UNCHANGED <<config, req, metrics>> BY <1>1 DEF filterVars
  <2>3. QED BY <2>1, <2>2, MetricsKept
<1>2. ASSUME NEW r \in Reqs, Beside(r)
      PROVE  (FinitelyMany /\ GaugeExact /\ CountedAsAnswered)'
  BY <1>2, Beside_Kept, MetricsKept DEF FiltersInv
<1>3. ASSUME NEW r \in Reqs, NEW f \in FilterNames,
             f # "metrics" \/ ~ Active("metrics"),
             Entering(r, f) \/ Leaving(r, f, "up"), UNCHANGED metrics
      PROVE  (FinitelyMany /\ GaugeExact /\ CountedAsAnswered)'
  <2>1. UNCHANGED <<config, req, metrics>> BY <1>3 DEF Entering, Leaving
  <2>2. CASE f = "metrics" BY <1>3, <2>1, <2>2, MetricsOff
  <2>3. CASE f # "metrics"
    <3>1. \A s \in Reqs : Kept(s, "metrics")
      BY <1>3, <2>3, GoingIn, GoingOut DEF FiltersInv
    <3>2. QED BY <2>1, <3>1, MetricsKept
  <2>4. QED BY <2>2, <2>3
<1>4. ASSUME NEW r \in Reqs,
             \/ EnterInactive(r) \/ LeaveInactive(r)
             \/ EnterAudit(r) \/ LeaveAudit(r)
             \/ EnterLogging(r) \/ LeaveLogging(r)
      PROVE  (FinitelyMany /\ GaugeExact /\ CountedAsAnswered)'
  <2>1. UNCHANGED metrics
    BY <1>4
    DEF EnterInactive, LeaveInactive, EnterAudit, LeaveAudit, EnterLogging,
        LeaveLogging, Entering, Leaving, metrics
  <2>2. CASE EnterInactive(r) \/ LeaveInactive(r)
    BY <1>3, <2>1, <2>2 DEF EnterInactive, LeaveInactive
  <2>3. CASE EnterAudit(r) \/ LeaveAudit(r)
    <3>1. "audit" \in FilterNames BY DEF FilterNames
    <3>2. QED BY <1>3, <2>1, <2>3, <3>1 DEF EnterAudit, LeaveAudit
  <2>4. CASE EnterLogging(r) \/ LeaveLogging(r)
    <3>1. "logging" \in FilterNames BY DEF FilterNames
    <3>2. QED BY <1>3, <2>1, <2>4, <3>1 DEF EnterLogging, LeaveLogging
  <2>5. QED BY <1>4, <2>2, <2>3, <2>4
<1>5. QED BY <1>1, <1>2, <1>4, Steps, MeteredMore, TalliedMore, Unmetered

-----------------------------------------------------------------------------
(***************************************************************************)
(* What the writers, the auditor and the log know.                         *)
(***************************************************************************)

\* The status a client sees is one of the statuses.
LEMMA SeenStatus ==
  ASSUME FiltersTypeOK, NEW r \in Reqs
  PROVE  Seen(r) \in Statuses /\ Seen(r) # 0
BY StatusesAssumption DEF FiltersTypeOK, Seen, Codes

\* Only endpoints send, and Finish, after them.
LEMMA SentStep ==
  ASSUME FiltersInv, [FiltersNext]_filterVars
  PROVE  SentByEndpoint'
<1>1. CASE UNCHANGED filterVars
  BY <1>1 DEF FiltersInv, SentByEndpoint, filterVars
<1>2. ASSUME NEW r \in Reqs, Beside(r) PROVE SentByEndpoint'
  <2>1. /\ UNCHANGED <<config, depth>>
        /\ \A s \in Reqs \ {r} : stage'[s] = stage[s] /\ sent'[s] = sent[s]
    BY <1>2 DEF FiltersInv, FiltersTypeOK, Beside, Arrive, Finish, Sends,
         Answers, Returns, Panics, Ends, Writes
  <2>2. \/ stage'[r] = "down" /\ stage[r] = "idle" /\ sent'[r] = sent[r]
        \/ stage'[r] = "down" /\ depth[r] = Len(config.chain)
        \/ stage'[r] \in {"up", "panic", "done", "aborted"}
    BY <1>2 DEF FiltersInv, FiltersTypeOK, Beside, Arrive, Finish, Sends,
         Answers, Returns, Panics, Ends, Writes, AtEndpoint
  <2>3. config \in Configs BY DEF FiltersInv, FiltersTypeOK
  <2>4. QED BY <2>1, <2>2, <2>3, Chains DEF FiltersInv, SentByEndpoint
<1>3. ASSUME NEW r \in Reqs, NEW f, Entering(r, f) PROVE SentByEndpoint'
  <2>1. /\ UNCHANGED <<config, stage, sent>> /\ stage[r] = "down"
        /\ depth[r] < Len(config.chain)
        /\ \A s \in Reqs \ {r} : depth'[s] = depth[s]
    BY <1>3 DEF FiltersInv, FiltersTypeOK, Entering
  <2>2. QED BY <2>1 DEF FiltersInv, SentByEndpoint
<1>4. ASSUME NEW r \in Reqs, NEW f, NEW way \in {"up", "panic"},
             Leaving(r, f, way)
      PROVE  SentByEndpoint'
  <2>1. /\ UNCHANGED <<config, stage, sent>> /\ stage[r] = way
        /\ \A s \in Reqs \ {r} : depth'[s] = depth[s]
    BY <1>4 DEF FiltersInv, FiltersTypeOK, Leaving
  <2>2. QED BY <2>1 DEF FiltersInv, SentByEndpoint
<1>5. QED
  BY <1>1, <1>2, <1>3, <1>4, Steps
  DEF EnterInactive, EnterAudit, EnterMetrics, EnterLogging, LeaveInactive,
      LeaveAudit, LeaveMetrics, LeaveLogging, Unwind

\* A writer presumes 200, which is what a client sees to whom nothing is sent,
\* and hears of every status that is.
LEMMA RecordsStep ==
  ASSUME FiltersInv, [FiltersNext]_filterVars
  PROVE  RecordsSeen'
<1> USE DEF FiltersInv
<1> SUFFICES ASSUME NEW s \in Reqs, NEW g \in FilterNames,
                    (stage[s] \in {"down", "up"})', Inside(s, g)', Active(g)'
             PROVE  (recorded[s][g] = Seen(s))'
  BY DEF RecordsSeen
<1>1. recorded \in [Reqs -> [FilterNames -> Codes]] BY DEF FiltersTypeOK
<1>2. CASE UNCHANGED filterVars
  BY <1>2 DEF RecordsSeen, filterVars, Inside, Active, Seen
<1>3. ASSUME NEW r \in Reqs, Beside(r) PROVE (recorded[s][g] = Seen(s))'
  <2>1. Inside(s, g) /\ Active(g) BY <1>3, Beside_Kept DEF Kept, Active
  <2>2. stage[s] \in {"down", "up"}
    <3>1. stage \in [Reqs -> Stages] BY DEF FiltersTypeOK
    <3>2. stage[s] = "panic" => stage'[s] \in {"panic", "aborted"}
      BY <1>3, <3>1
      DEF Beside, Arrive, Finish, Sends, Answers, Returns, Panics, Ends,
          AtEndpoint
    <3>3. stage[s] \in {"down", "up", "panic"} BY <2>1 DEF Inside
    <3>4. QED BY <3>2, <3>3
  <2>3. recorded[s][g] = Seen(s) BY <2>1, <2>2 DEF RecordsSeen
  <2>4. CASE UNCHANGED <<sent, recorded>> BY <2>3, <2>4 DEF Seen
  <2>5. CASE sent[r] = 0 /\ \E c \in Statuses : Writes(r, c)
    <3>1. PICK c \in Statuses : Writes(r, c) BY <2>5
    <3>2. c # 0 BY StatusesAssumption
    <3>3. sent' = [sent EXCEPT ![r] = c] BY <2>5, <3>1 DEF Writes
    <3>4. recorded' = [recorded EXCEPT ![r] =
             [f \in FilterNames |-> IF @[f] = 0 THEN 0 ELSE c]]
      BY <3>1 DEF Writes, Captured
    <3>5. CASE s = r
      <4>1. recorded[r][g] # 0 BY <2>3, <3>5, SeenStatus
      <4>2. recorded'[r][g] = c BY <1>1, <3>4, <4>1
      <4>3. sent'[r] = c BY <3>3 DEF FiltersTypeOK
      <4>4. QED BY <3>2, <3>5, <4>2, <4>3 DEF Seen
    <3>6. CASE s # r
      BY <1>1, <2>3, <3>3, <3>4, <3>6 DEF Seen, FiltersTypeOK
    <3>7. QED BY <3>5, <3>6
  <2>6. CASE Finish(r)
    <3>1. s # r BY <2>6 DEF FiltersTypeOK, Finish
    <3>2. recorded' = recorded /\ sent'[s] = sent[s]
      BY <2>6, <3>1 DEF FiltersTypeOK, Finish
    <3>3. QED BY <2>3, <3>2 DEF Seen
  <2>7. QED
    BY <1>3, <2>4, <2>5, <2>6
    DEF Beside, Arrive, Sends, Answers, Returns, Panics, Ends
<1>4. ASSUME NEW r \in Reqs, NEW f, Entering(r, f),
             IF Active(f) THEN Wraps(r, f) ELSE recorded' = recorded
      PROVE  (recorded[s][g] = Seen(s))'
  <2>1. UNCHANGED <<config, stage, sent>> /\ f \in FilterNames
    BY <1>4, GoingIn DEF Entering
  <2>2. Active(g) BY <2>1 DEF Active
  <2>3. CASE s = r /\ g = f
    <3>1. Seen(r)' = 200
      BY <1>4, <2>1 DEF Entering, SentByEndpoint, Seen
    <3>2. recorded'[r][f] = 200 BY <1>1, <1>4, <2>1, <2>2, <2>3 DEF Wraps
    <3>3. QED BY <2>3, <3>1, <3>2
  <2>4. CASE s # r \/ g # f
    <3>1. Inside(s, g) BY <1>4, <2>4, GoingIn DEF Kept
    <3>2. recorded'[s][g] = recorded[s][g] BY <1>1, <1>4, <2>4 DEF Wraps
    <3>3. QED BY <2>1, <2>2, <3>1, <3>2 DEF RecordsSeen, Seen
  <2>5. QED BY <2>3, <2>4
<1>5. ASSUME NEW r \in Reqs, NEW f, NEW way \in {"up", "panic"},
             Leaving(r, f, way)
      PROVE  (recorded[s][g] = Seen(s))'
  <2>1. UNCHANGED <<config, stage, sent, recorded>> BY <1>5 DEF Leaving
  <2>2. Active(g) BY <2>1 DEF Active
  <2>3. Inside(s, g) BY <1>5, GoingOut DEF Kept
  <2>4. QED BY <2>1, <2>2, <2>3 DEF RecordsSeen, Seen
<1>6. \A r \in Reqs :
        EnterInactive(r) \/ EnterAudit(r) \/ EnterMetrics(r) \/ EnterLogging(r)
        => \E f \in FilterNames :
             /\ Entering(r, f)
             /\ IF Active(f) THEN Wraps(r, f) ELSE recorded' = recorded
  BY DEF EnterInactive, EnterAudit, EnterMetrics, EnterLogging, FilterNames, Active
<1>7. QED
  BY <1>2, <1>3, <1>4, <1>5, <1>6, Steps
  DEF LeaveInactive, LeaveAudit, LeaveMetrics, LeaveLogging, Unwind

\* The part of ReportedAsAnswered and StartLogged that is about one filter.
AuditKnows(s) ==
  /\ Through(s, "audit") /\ config.auditor =>
       Len(audited[s]) = 1 /\ audited[s][1].code = Seen(s)
  /\ ~ Through(s, "audit") => audited[s] = <<>>
LogKnows(s) ==
  /\ Inside(s, "logging") => logged[s] = <<0>>
  /\ stage[s] \in {"idle", "down"} /\ ~ Inside(s, "logging")
       => logged[s] = <<>>
  /\ Through(s, "logging") => logged[s] = <<0, Seen(s)>>
  /\ ~ Through(s, "logging") => logged[s] \in {<<>>, <<0>>}

\* The auditor gets one event of each request that returns through the audit
\* filter.
LEMMA AuditStep ==
  ASSUME FiltersInv, [FiltersNext]_filterVars, NEW s \in Reqs
  PROVE  AuditKnows(s)'
<1> USE DEF FiltersInv
<1>1. AuditKnows(s) BY DEF AuditKnows, ReportedAsAnswered
<1>2. "audit" \in FilterNames BY DEF FilterNames
<1>3. ASSUME Kept(s, "audit"), audited'[s] = audited[s], config' = config
      PROVE  AuditKnows(s)'
  BY <1>1, <1>3 DEF AuditKnows, Kept
<1>4. CASE UNCHANGED filterVars
  <2>1. Kept(s, "audit")
    BY <1>4 DEF filterVars, Kept, Inside, Through, Active, Seen
  <2>2. QED BY <1>3, <1>4, <2>1 DEF filterVars, reports
<1>5. ASSUME NEW r \in Reqs, Beside(r) PROVE AuditKnows(s)'
  BY <1>2, <1>3, <1>5, Beside_Kept DEF reports
<1>6. ASSUME NEW r \in Reqs, NEW f, Entering(r, f) PROVE AuditKnows(s)'
  <2>1. UNCHANGED <<config, audited>> BY <1>6 DEF Entering
  <2>2. CASE s = r /\ f = "audit"
    <3>1. ~ Through(s, "audit") /\ ~ Through(s, "audit")'
      BY <1>6, <2>2, GoingIn
    <3>2. QED BY <1>1, <2>1, <3>1 DEF AuditKnows
  <2>3. CASE s # r \/ f # "audit"
    BY <1>2, <1>3, <1>6, <2>1, <2>3, GoingIn
  <2>4. QED BY <2>2, <2>3
<1>7. ASSUME NEW r \in Reqs, LeaveAudit(r) PROVE AuditKnows(s)'
  <2>1. /\ Active("audit") /\ Leaving(r, "audit", "up") /\ config' = config
        /\ audited' = IF config.auditor
                      THEN [audited EXCEPT ![r] =
                              Append(@, Event(r, recorded[r]["audit"]))]
                      ELSE audited
    BY <1>7 DEF LeaveAudit, Leaving
  <2>2. audited \in [Reqs -> Seq(Events)] BY DEF FiltersTypeOK
  <2>3. CASE s # r
    BY <1>2, <1>3, <2>1, <2>2, <2>3, GoingOut
  <2>4. CASE s = r
    <3>1. /\ Inside(r, "audit") /\ ~ Through(r, "audit")
          /\ Through(r, "audit")' /\ stage[r] = "up"
      BY <2>1, GoingOut
    <3>2. recorded[r]["audit"] = Seen(r) /\ Seen(r)' = Seen(r)
      BY <1>2, <2>1, <3>1 DEF RecordsSeen, Leaving, Seen
    <3>3. audited[r] = <<>> BY <1>1, <2>4, <3>1 DEF AuditKnows
    <3>4. Event(r, Seen(r)).code = Seen(r) BY DEF Event
    <3>5. CASE config.auditor
      <4>1. audited'[r] = Append(<<>>, Event(r, Seen(r)))
        BY <2>1, <2>2, <3>2, <3>3, <3>5
      <4>2. Len(audited'[r]) = 1 /\ audited'[r][1] = Event(r, Seen(r))
        BY <4>1
      <4>3. QED BY <2>4, <3>1, <3>2, <3>4, <4>2 DEF AuditKnows
    <3>6. CASE ~ config.auditor BY <2>1, <2>4, <3>1, <3>6 DEF AuditKnows
    <3>7. QED BY <3>5, <3>6
  <2>5. QED BY <2>3, <2>4
<1>8. ASSUME NEW r \in Reqs, NEW f, NEW way \in {"up", "panic"},
             Leaving(r, f, way), audited' = audited,
             f # "audit" \/ way = "panic" \/ ~ Active(f)
      PROVE  AuditKnows(s)'
  <2>1. config' = config BY <1>8 DEF Leaving
  <2>2. CASE s = r /\ f = "audit"
    <3>1. ~ Through(s, "audit") /\ ~ Through(s, "audit")'
      BY <1>8, <2>2, GoingOut
    <3>2. QED BY <1>1, <1>8, <3>1 DEF AuditKnows
  <2>3. CASE s # r \/ f # "audit"
    BY <1>2, <1>3, <1>8, <2>1, <2>3, GoingOut
  <2>4. QED BY <2>2, <2>3
<1>9. \A r \in Reqs :
        LeaveInactive(r) \/ LeaveMetrics(r) \/ LeaveLogging(r) \/ Unwind(r)
        => \E f \in FilterNames, way \in {"up", "panic"} :
             /\ Leaving(r, f, way)
             /\ audited' = audited
             /\ f # "audit" \/ way = "panic" \/ ~ Active(f)
  BY DEF LeaveInactive, LeaveMetrics, LeaveLogging, Unwind, FilterNames, reports
<1>10. QED
  BY <1>4, <1>5, <1>6, <1>7, <1>8, <1>9, Steps
  DEF EnterInactive, EnterAudit, EnterMetrics, EnterLogging

\* The line after the first.
LEMMA AppendsTo ==
  ASSUME NEW x, NEW y
  PROVE  Append(<<x>>, y) = <<x, y>>
<1> DEFINE S == {x, y}
<1>1. Append(<<x>>, y) \in Seq(S) /\ <<x, y>> \in Seq(S) OBVIOUS
<1>2. Len(Append(<<x>>, y)) = 2 /\ Len(<<x, y>>) = 2 OBVIOUS
<1>3. \A i \in 1..2 : Append(<<x>>, y)[i] = <<x, y>>[i] OBVIOUS
<1> HIDE DEF S
<1>4. QED BY <1>1, <1>2, <1>3, SeqEqual

\* The log gets a line when a request comes to the logging filter, and one
\* when it returns through it.
LEMMA LogStep ==
  ASSUME FiltersInv, [FiltersNext]_filterVars, NEW s \in Reqs
  PROVE  LogKnows(s)'
<1> USE DEF FiltersInv
<1>1. LogKnows(s) BY DEF LogKnows, ReportedAsAnswered, StartLogged
<1>2. /\ "logging" \in FilterNames /\ Active("logging")
      /\ logged \in [Reqs -> Seq(Codes)]
  BY DEF FilterNames, FiltersTypeOK, Active
<1>3. ASSUME Kept(s, "logging"), logged'[s] = logged[s],
             stage'[s] = "down" => stage[s] \in {"idle", "down"},
             stage'[s] = "idle" => stage[s] = "idle"
      PROVE  LogKnows(s)'
  BY <1>1, <1>3 DEF LogKnows, Kept
<1>4. CASE UNCHANGED filterVars
  <2>1. Kept(s, "logging")
    BY <1>4 DEF filterVars, Kept, Inside, Through, Active, Seen
  <2>2. QED BY <1>3, <1>4, <2>1 DEF filterVars, reports
<1>5. ASSUME NEW r \in Reqs, Beside(r) PROVE LogKnows(s)'
  <2>1. stage \in [Reqs -> Stages] BY DEF FiltersTypeOK
  <2>2. /\ stage'[s] = "down" => stage[s] \in {"idle", "down"}
        /\ stage'[s] = "idle" => stage[s] = "idle"
    BY <1>5, <2>1
    DEF Beside, Arrive, Finish, Sends, Answers, Returns, Panics, Ends,
        AtEndpoint
  <2>3. QED BY <1>2, <1>3, <1>5, <2>2, Beside_Kept DEF reports
<1>6. ASSUME NEW r \in Reqs, NEW f, Entering(r, f),
             f # "logging", logged' = logged
      PROVE  LogKnows(s)'
  <2>1. stage' = stage BY <1>6 DEF Entering
  <2>2. QED BY <1>2, <1>3, <1>6, <2>1, GoingIn
<1>7. ASSUME NEW r \in Reqs, EnterLogging(r) PROVE LogKnows(s)'
  <2>1. /\ Entering(r, "logging") /\ stage' = stage /\ stage[r] = "down"
        /\ logged' = [logged EXCEPT ![r] = Append(@, 0)]
    BY <1>7 DEF EnterLogging, Entering
  <2>2. CASE s # r
    BY <1>2, <1>3, <2>1, <2>2, GoingIn
  <2>3. CASE s = r
    <3>1. /\ ~ Inside(r, "logging") /\ Inside(r, "logging")'
          /\ ~ Through(r, "logging")'
      BY <2>1, GoingIn
    <3>2. logged[r] = <<>> BY <1>1, <2>1, <2>3, <3>1 DEF LogKnows
    <3>3. logged'[r] = <<0>> BY <1>2, <2>1, <3>2
    <3>4. QED BY <2>3, <3>1, <3>3 DEF LogKnows
  <2>4. QED BY <2>2, <2>3
<1>8. ASSUME NEW r \in Reqs, LeaveLogging(r) PROVE LogKnows(s)'
  <2>1. /\ Leaving(r, "logging", "up") /\ stage' = stage
        /\ logged' = [logged EXCEPT ![r] = Append(@, recorded[r]["logging"])]
    BY <1>8 DEF LeaveLogging, Leaving
  <2>2. CASE s # r
    BY <1>2, <1>3, <2>1, <2>2, GoingOut
  <2>3. CASE s = r
    <3>1. /\ Inside(r, "logging") /\ ~ Inside(r, "logging")'
          /\ Through(r, "logging")' /\ stage[r] = "up"
      BY <1>2, <2>1, GoingOut
    <3>2. recorded[r]["logging"] = Seen(r) /\ Seen(r)' = Seen(r)
      BY <1>2, <2>1, <3>1 DEF RecordsSeen, Leaving, Seen
    <3>3. logged[r] = <<0>> BY <1>1, <2>3, <3>1 DEF LogKnows
    <3>4. logged'[r] = <<0, Seen(r)>>
      <4>1. logged'[r] = Append(<<0>>, Seen(r)) BY <1>2, <2>1, <3>2, <3>3
      <4>2. QED BY <4>1, AppendsTo
    <3>5. QED BY <2>1, <2>3, <3>1, <3>2, <3>4 DEF LogKnows
  <2>4. QED BY <2>2, <2>3
<1>9. ASSUME NEW r \in Reqs, NEW f, NEW way \in {"up", "panic"},
             Leaving(r, f, way), logged' = logged,
             f # "logging" \/ way = "panic"
      PROVE  LogKnows(s)'
  <2>1. stage' = stage BY <1>9 DEF Leaving
  <2>2. CASE s = r /\ f = "logging"
    <3>1. /\ stage[s] = way /\ ~ Inside(s, "logging")' /\ Inside(s, "logging")
          /\ ~ Through(s, "logging") /\ ~ Through(s, "logging")'
      BY <1>9, <2>2, GoingOut
    <3>2. QED BY <1>1, <1>9, <2>1, <2>2, <3>1 DEF LogKnows
  <2>3. CASE s # r \/ f # "logging"
    BY <1>2, <1>3, <1>9, <2>1, <2>3, GoingOut
  <2>4. QED BY <2>2, <2>3
<1>10. \A r \in Reqs :
         EnterInactive(r) \/ EnterAudit(r) \/ EnterMetrics(r)
         => \E f \in FilterNames :
              Entering(r, f) /\ f # "logging" /\ logged' = logged
  BY <1>2 DEF EnterInactive, EnterAudit, EnterMetrics, FilterNames
<1>11. \A r \in Reqs :
         LeaveInactive(r) \/ LeaveAudit(r) \/ LeaveMetrics(r) \/ Unwind(r)
         => \E f \in FilterNames, way \in {"up", "panic"} :
              /\ Leaving(r, f, way) /\ logged' = logged
              /\ f # "logging" \/ way = "panic"
  BY <1>2
  DEF LeaveInactive, LeaveAudit, LeaveMetrics, Unwind, FilterNames, reports
<1>12. QED
  BY <1>4, <1>5, <1>6, <1>7, <1>8, <1>9, <1>10, <1>11, Steps

-----------------------------------------------------------------------------
(***************************************************************************)
(* Types, and the theorems.                                                *)
(***************************************************************************)

\* What an endpoint does keeps the types.
LEMMA BesideType ==
  ASSUME FiltersTypeOK, NEW r \in Reqs, Beside(r)
  PROVE  FiltersTypeOK'
<1> USE DEF FiltersTypeOK
<1>1. UNCHANGED <<config, req, depth, body, metrics, reports>>
  BY DEF Beside, Arrive, Finish, Sends, Answers, Returns, Panics, Ends
<1>2. stage' \in [Reqs -> Stages]
  BY DEF Beside, Arrive, Finish, Sends, Answers, Returns, Panics, Ends, Stages
<1>3. CASE \E c \in Statuses : Writes(r, c)
  <2>1. PICK c \in Statuses : Writes(r, c) BY <1>3
  <2>2. c \in Codes /\ 0 \in Codes BY DEF Codes
  <2>3. sent' \in [Reqs -> Codes] BY <2>1, <2>2 DEF Writes
  <2>4. recorded' \in [Reqs -> [FilterNames -> Codes]]
    <3>1. recorded' = [recorded EXCEPT ![r] =
             [f \in FilterNames |-> IF recorded[r][f] = 0 THEN 0 ELSE c]]
      BY <2>1 DEF Writes, Captured
    <3>2. [f \in FilterNames |-> IF recorded[r][f] = 0 THEN 0 ELSE c]
            \in [FilterNames -> Codes]
      BY <2>2
    <3>3. QED BY <3>1, <3>2
  <2>5. QED BY <1>1, <1>2, <2>3, <2>4 DEF metrics, reports
<1>4. CASE Finish(r)
  <2>1. recorded' = recorded BY <1>4 DEF Finish
  <2>2. 200 \in Codes BY StatusesAssumption DEF Codes
  <2>3. sent' \in [Reqs -> Codes] BY <1>4, <2>2 DEF Finish
  <2>4. QED BY <1>1, <1>2, <2>1, <2>3 DEF metrics, reports
<1>5. CASE UNCHANGED <<sent, recorded>>
  BY <1>1, <1>2, <1>5 DEF metrics, reports
<1>6. QED
  BY <1>3, <1>4, <1>5
  DEF Beside, Arrive, Sends, Answers, Returns, Panics, Ends

LEMMA EnterType ==
  ASSUME FiltersTypeOK, NEW r \in Reqs,
         \/ EnterInactive(r) \/ EnterAudit(r)
         \/ EnterMetrics(r) \/ EnterLogging(r)
  PROVE  FiltersTypeOK'
<1>1. PICK f : Entering(r, f)
  BY DEF EnterInactive, EnterAudit, EnterMetrics, EnterLogging
<1>2. UNCHANGED <<config, req, stage, sent, counter, audited>>
  BY <1>1 DEF Entering
<1>3. depth' \in [Reqs -> 0..Len(config.chain)]
  BY <1>1, Chains DEF FiltersTypeOK, Entering
<1>4. Labels(req[r]) \in LabelSets BY DEF FiltersTypeOK, LabelSets
<1>5. gauge' \in [LabelSets -> Nat]
  <2>1. gauge' = gauge
        \/ gauge' = [gauge EXCEPT ![Labels(req[r])] = @ + 1]
    BY Zenon DEF EnterInactive, EnterAudit, EnterMetrics, EnterLogging
  <2>2. gauge \in [LabelSets -> Nat] BY DEF FiltersTypeOK
  <2>3. QED BY <1>4, <2>1, <2>2
<1>6. body' \in [Reqs -> Bodies]
  <2>1. body' = body \/ body' = [body EXCEPT ![r] = "cut"]
    BY DEF EnterInactive, EnterAudit, EnterMetrics, EnterLogging
  <2>2. body \in [Reqs -> Bodies] BY DEF FiltersTypeOK
  <2>3. QED BY <2>1, <2>2 DEF Bodies
<1>7. recorded' \in [Reqs -> [FilterNames -> Codes]]
  <2>1. recorded' = recorded
        \/ \E g \in FilterNames : recorded' = [recorded EXCEPT ![r][g] = 200]
    BY Zenon
    DEF EnterInactive, EnterAudit, EnterMetrics, EnterLogging, Wraps, FilterNames
  <2>2. 200 \in Codes BY StatusesAssumption DEF Codes
  <2>3. recorded \in [Reqs -> [FilterNames -> Codes]] BY DEF FiltersTypeOK
  <2>4. QED BY <2>1, <2>2, <2>3
<1>8. logged' \in [Reqs -> Seq(Codes)]
  <2>1. logged' = logged \/ logged' = [logged EXCEPT ![r] = Append(@, 0)]
    BY Zenon DEF EnterInactive, EnterAudit, EnterMetrics, EnterLogging
  <2>2. logged \in [Reqs -> Seq(Codes)] BY DEF FiltersTypeOK
  <2>3. Append(logged[r], 0) \in Seq(Codes)
    <3>1. 0 \in Codes /\ logged[r] \in Seq(Codes) BY <2>2 DEF Codes
    <3>2. QED BY <3>1
  <2>4. QED BY <2>1, <2>2, <2>3
<1>9. QED BY <1>2, <1>3, <1>5, <1>6, <1>7, <1>8 DEF FiltersTypeOK

\* The gauge of a request on its way out is not zero: it counts that request.
LEMMA LeaveType ==
  ASSUME FiltersInv, (GaugeExact /\ FinitelyMany)', NEW r \in Reqs,
         \/ LeaveInactive(r) \/ LeaveAudit(r)
         \/ LeaveMetrics(r) \/ LeaveLogging(r) \/ Unwind(r)
  PROVE  FiltersTypeOK'
<1>0. FiltersTypeOK BY DEF FiltersInv
<1>1. PICK f \in FilterNames, way \in {"up", "panic"} : Leaving(r, f, way)
  BY DEF LeaveInactive, LeaveAudit, LeaveMetrics, LeaveLogging, Unwind,
         FilterNames
<1>2. UNCHANGED <<config, req, stage, body, sent, recorded>>
  BY <1>1 DEF Leaving
<1>3. depth' \in [Reqs -> 0..Len(config.chain)]
  BY <1>0, <1>1, Chains DEF FiltersTypeOK, Leaving
<1>4. recorded[r]["audit"] \in Codes /\ recorded[r]["logging"] \in Codes
  BY <1>0 DEF FiltersTypeOK, FilterNames
<1>5. gauge' \in [LabelSets -> Nat]
  <2>1. \A l \in LabelSets : Cardinality(Metered(l)') \in Nat
    BY FS_CardinalityType DEF FinitelyMany
  <2>2. gauge' = gauge \/ gauge' = InFlightDec(r)
    BY DEF LeaveInactive, LeaveAudit, LeaveMetrics, LeaveLogging, Unwind,
           Deferred, metrics
  <2>3. \A l \in LabelSets : gauge'[l] \in Nat BY <2>1 DEF GaugeExact
  <2>4. gauge \in [LabelSets -> Nat] BY <1>0 DEF FiltersTypeOK
  <2>5. QED BY <2>2, <2>3, <2>4 DEF InFlightDec
<1>6. counter' \in [LabelSets -> [Statuses -> Nat]]
  <2> DEFINE l == Labels(req[r])
             c == recorded[r]["metrics"]
  <2>1. counter' = counter \/ counter' = [counter EXCEPT ![l][c] = @ + 1]
    BY Zenon
    DEF LeaveInactive, LeaveAudit, LeaveMetrics, LeaveLogging, Unwind, metrics
  <2>2. l \in LabelSets BY <1>0 DEF FiltersTypeOK, LabelSets
  <2>3. counter \in [LabelSets -> [Statuses -> Nat]] BY <1>0 DEF FiltersTypeOK
  <2> HIDE DEF l, c
  <2>4. [counter[l] EXCEPT ![c] = @ + 1] \in [Statuses -> Nat]
    <3>1. \A s \in Statuses : [counter[l] EXCEPT ![c] = @ + 1][s] \in Nat
      BY <2>2, <2>3
    <3>2. QED BY <2>2, <2>3, <3>1
  <2>5. QED BY <2>1, <2>2, <2>3, <2>4
<1>7. audited' \in [Reqs -> Seq(Events)]
  <2> DEFINE e == Event(r, recorded[r]["audit"])
  <2>1. audited' = audited \/ audited' = [audited EXCEPT ![r] = Append(@, e)]
    BY Zenon
    DEF LeaveInactive, LeaveAudit, LeaveMetrics, LeaveLogging, Unwind, reports
  <2>2. e \in Events BY <1>0, <1>4 DEF FiltersTypeOK, Event, Events
  <2>3. audited \in [Reqs -> Seq(Events)] BY <1>0 DEF FiltersTypeOK
  <2> HIDE DEF e
  <2>4. Append(audited[r], e) \in Seq(Events)
    <3>1. audited[r] \in Seq(Events) BY <2>3
    <3>2. QED BY <2>2, <3>1
  <2>5. QED BY <2>1, <2>3, <2>4
<1>8. logged' \in [Reqs -> Seq(Codes)]
  <2> DEFINE c == recorded[r]["logging"]
  <2>1. logged' = logged \/ logged' = [logged EXCEPT ![r] = Append(@, c)]
    BY Zenon
    DEF LeaveInactive, LeaveAudit, LeaveMetrics, LeaveLogging, Unwind, reports
  <2>2. logged \in [Reqs -> Seq(Codes)] BY <1>0 DEF FiltersTypeOK
  <2>3. Append(logged[r], c) \in Seq(Codes)
    <3>1. logged[r] \in Seq(Codes) BY <2>2
    <3>2. QED BY <1>4, <3>1
  <2> HIDE DEF c
  <2>4. QED BY <2>1, <2>2, <2>3
<1>9. QED BY <1>0, <1>2, <1>3, <1>5, <1>6, <1>7, <1>8 DEF FiltersTypeOK

\* A filter that cuts a body is the audit filter, and it reads bodies.
LEMMA CutStep ==
  ASSUME FiltersInv, [FiltersNext]_filterVars
  PROVE  CutByAudit'
<1>1. config' = config
  BY Steps
  DEF filterVars, Beside, Arrive, Finish, Sends, Answers, Returns, Panics, Ends,
      EnterInactive, EnterAudit, EnterMetrics, EnterLogging, LeaveInactive,
      LeaveAudit, LeaveMetrics, LeaveLogging, Unwind, Entering, Leaving
<1>2. CASE body' = body BY <1>1, <1>2 DEF FiltersInv, CutByAudit
<1>3. ASSUME NEW r \in Reqs, EnterAudit(r), body' # body PROVE CutByAudit'
  <2>1. ReadsBody(config.level) BY <1>3 DEF EnterAudit
  <2>2. /\ config \in Configs /\ depth[r] \in Nat
        /\ depth[r] < Len(config.chain)
        /\ config.chain[depth[r] + 1] = "audit"
    BY <1>3, Chains DEF EnterAudit, Entering, FiltersInv, FiltersTypeOK
  <2>3. depth[r] + 1 \in DOMAIN config.chain BY <2>2, Chains
  <2>4. QED BY <1>1, <2>1, <2>2, <2>3 DEF CutByAudit
<1>4. body' = body \/ \E r \in Reqs : EnterAudit(r)
  BY Steps
  DEF filterVars, Beside, Arrive, Finish, Sends, Answers, Returns, Panics, Ends,
      EnterInactive, EnterMetrics, EnterLogging, LeaveInactive,
      LeaveAudit, LeaveMetrics, LeaveLogging, Unwind, Leaving
<1>5. QED BY <1>2, <1>3, <1>4

LEMMA InitFilters == FiltersInit => FiltersInv
<1> SUFFICES ASSUME FiltersInit PROVE FiltersInv
  OBVIOUS
<1>1. config \in Configs /\ req \in [Reqs -> Menu] BY DEF FiltersInit
<1>2. /\ stage = [r \in Reqs |-> "idle"] /\ depth = [r \in Reqs |-> 0]
      /\ sent = [r \in Reqs |-> 0] /\ recorded = [r \in Reqs |-> NoWriter]
      /\ audited = [r \in Reqs |-> <<>>] /\ logged = [r \in Reqs |-> <<>>]
      /\ gauge = [l \in LabelSets |-> 0]
      /\ counter = [l \in LabelSets |-> [s \in Statuses |-> 0]]
  BY DEF FiltersInit
<1>3. FiltersTypeOK
  <2>1. body \in [Reqs -> Bodies]
    <3>1. body = [r \in Reqs |-> req[r].body] BY DEF FiltersInit
    <3>2. \A r \in Reqs : req[r].body \in Bodies
      BY <1>1, MenuAssumption DEF Bodies
    <3>3. QED BY <3>1, <3>2
  <2>2. depth \in [Reqs -> 0..Len(config.chain)] BY <1>1, <1>2, Chains
  <2>3. 0 \in Codes /\ "idle" \in Stages BY DEF Codes, Stages
  <2>4. recorded \in [Reqs -> [FilterNames -> Codes]]
    BY <1>2, <2>3 DEF NoWriter
  <2>5. audited \in [Reqs -> Seq(Events)] /\ logged \in [Reqs -> Seq(Codes)]
    BY <1>2
  <2>6. stage \in [Reqs -> Stages] /\ sent \in [Reqs -> Codes]
    BY <1>2, <2>3
  <2>7. /\ gauge \in [LabelSets -> Nat]
        /\ counter \in [LabelSets -> [Statuses -> Nat]]
    BY <1>2
  <2>8. QED
    BY <1>1, <2>1, <2>2, <2>4, <2>5, <2>6, <2>7 DEF FiltersTypeOK
<1>4. \A r \in Reqs, f \in FilterNames : ~ Inside(r, f) /\ ~ Through(r, f)
  BY <1>2 DEF Inside, Through
<1>5. "audit" \in FilterNames /\ "logging" \in FilterNames
      /\ "metrics" \in FilterNames
  BY DEF FilterNames
<1>6. SentByEndpoint /\ RecordsSeen /\ StartLogged /\ ReportedAsAnswered
  BY <1>2, <1>4, <1>5
  DEF SentByEndpoint, RecordsSeen, StartLogged, ReportedAsAnswered
<1>7. /\ \A l \in LabelSets : Metered(l) = {}
      /\ \A l \in LabelSets, s \in Statuses : Tallied(l, s) = {}
  BY <1>4, <1>5 DEF Metered, Tallied
<1>8. FinitelyMany /\ GaugeExact /\ CountedAsAnswered
  BY <1>2, <1>7, FS_EmptySet DEF FinitelyMany, GaugeExact, CountedAsAnswered
<1>9. CutByAudit
  <2>1. body = [r \in Reqs |-> req[r].body] BY DEF FiltersInit
  <2>2. \A r \in Reqs : req[r].body # "cut" BY <1>1, MenuAssumption
  <2>3. QED BY <2>1, <2>2 DEF CutByAudit
<1>10. QED BY <1>3, <1>6, <1>8, <1>9 DEF FiltersInv

LEMMA NextFilters == FiltersInv /\ [FiltersNext]_filterVars => FiltersInv'
<1> SUFFICES ASSUME FiltersInv, [FiltersNext]_filterVars PROVE FiltersInv'
  OBVIOUS
<1>1. (FinitelyMany /\ GaugeExact /\ CountedAsAnswered)' BY MetricsStep
<1>2. SentByEndpoint' /\ RecordsSeen' /\ CutByAudit'
  BY SentStep, RecordsStep, CutStep
<1>3. (\A s \in Reqs : AuditKnows(s) /\ LogKnows(s))' BY AuditStep, LogStep
<1>4. (StartLogged /\ ReportedAsAnswered)'
  BY <1>3 DEF AuditKnows, LogKnows, StartLogged, ReportedAsAnswered
<1>5. FiltersTypeOK'
  <2>1. CASE UNCHANGED filterVars
    BY <2>1 DEF FiltersInv, FiltersTypeOK, filterVars, metrics, reports
  <2>2. CASE FiltersNext
    BY <1>1, <2>2, Steps, BesideType, EnterType, LeaveType DEF FiltersInv
  <2>3. QED BY <2>1, <2>2
<1>6. QED BY <1>1, <1>2, <1>4, <1>5 DEF FiltersInv

\* With any endpoint that sends at most one status, the filters' invariant
\* holds: types, what writers know, exact metrics and true reports.
THEOREM FiltersInvariance == FiltersSpec => []FiltersInv
<1>1. QED BY InitFilters, NextFilters, PTL DEF FiltersSpec
=============================================================================
