--------------------------- MODULE CatalogueProofs ---------------------------
(* That the data chosen for a strategy is what its run looks up, that no         *)
(* algorithm is lost on the way into the registries, that the panes of a chart   *)
(* can be read, and that what compiles can be built and drawn.                   *)
EXTENDS Catalogue, TLAPS, SequenceTheorems, NumberSets

-----------------------------------------------------------------------------
(* The data of a strategy. *)

\* What the assets of a strategy are: its own that are no contracts, and the
\* continuations of those that are.
LEMMA StrategyAssets ==
  ASSUME NEW s,
         \A assets \in s.ids : \A a \in assets :
           a = [class |-> a.class, name |-> a.name],
         NEW a \in MakeAssets(s).strategyAssets
  PROVE  LET data == MakeAssets(s).dataloaderAssets
         IN \/ a \in data /\ a.class # "Futures"
            \/ /\ a.class = "Continuation" /\ s.rollover # "absent"
               /\ a \in MakeAssets(s).continuationAssets
               /\ \E c \in Contracts(data) : a = MakeFuturesContinuation(c)
<1> DEFINE assets == UNION s.ids
<1>1. assets \subseteq MakeAssets(s).dataloaderAssets
  BY DEF MakeAssets
<1>2. CASE a \in assets \ Contracts(assets)
  BY <1>1, <1>2 DEF Contracts
<1>3. CASE a \notin assets \ Contracts(assets)
  <2>1. a \in MakeAssets(s).continuationAssets /\ s.rollover # "absent"
        /\ \E c \in Contracts(assets) : a = MakeFuturesContinuation(c)
    BY <1>3 DEF MakeAssets
  <2>2. PICK c \in Contracts(assets) : a = MakeFuturesContinuation(c)
    BY <2>1
  <2>3. c = [class |-> c.class, name |-> c.name] /\ c \in Contracts(MakeAssets(s).dataloaderAssets)
    BY <1>1 DEF Contracts
  <2>4. a.class = "Continuation"
    BY <2>2, <2>3 DEF MakeFuturesContinuation
  <2> QED BY <2>1, <2>2, <2>3, <2>4
<1> QED BY <1>2, <1>3

\* What the runtime looks up is in the option made for the strategy.
LEMMA OptionsHaveTheirData ==
  ASSUME NEW s,
         \A assets \in s.ids : \A a \in assets :
           a = [class |-> a.class, name |-> a.name]
  PROVE  FindsItsData(s, MakeDataModuleOptionFromStrategy(s))
<1> DEFINE o == MakeDataModuleOptionFromStrategy(s)
           own == MakeAssets(s)
<1>1. /\ o.strategyAssets = own.strategyAssets /\ o.dataloaderAssets = own.dataloaderAssets
      /\ o.futureContinuation = Continues(s, own)
      /\ o.base = IF IsIntradayCampaign(s) THEN "1Min" ELSE "1D"
      /\ o.barResampleTimeFrames = BarResampleTimeFrames(s.nodes, o.base)
      /\ ExtractAuxiliaryCategories(s.nodes) \subseteq o.categories
  BY DEF MakeDataModuleOptionFromStrategy
<1> HIDE DEF o
<1>2. ASSUME NEW node \in Range(s.nodes), NEW a \in o.strategyAssets,
             ~(a.class = "Continuation" /\ s.rollover = "Null")
      PROVE  GatheredFrom(node, a) \in BaseData(o)
  <2> DEFINE loaded == o.dataloaderAssets
                         \cup (IF o.futureContinuation
                               THEN {MakeFuturesContinuation(c) :
                                       c \in Contracts(o.dataloaderAssets)}
                               ELSE {})
  <2>1. a \in loaded /\ a.class # "Futures"
    <3>1. CASE a \in own.dataloaderAssets /\ a.class # "Futures"
      BY <1>1, <3>1
    <3>2. CASE /\ a.class = "Continuation" /\ s.rollover # "absent"
               /\ a \in own.continuationAssets
               /\ \E c \in Contracts(own.dataloaderAssets) : a = MakeFuturesContinuation(c)
      <4>1. o.futureContinuation
        BY <1>1, <1>2, <3>2 DEF Continues
      <4> QED BY <1>1, <3>2, <4>1
    <3> QED BY <1>1, <3>1, <3>2, StrategyAssets
  <2>2. GetTimeframe(node) = o.base \/ GetTimeframe(node) \in o.barResampleTimeFrames
    BY <1>1 DEF BarResampleTimeFrames
  <2>3. a \notin Contracts(loaded)
    BY <2>1 DEF Contracts
  <2>4. BaseData(o) = ({o.base} \X loaded)
                        \cup (o.barResampleTimeFrames \X (loaded \ Contracts(loaded)))
    BY DEF BaseData
  <2> HIDE DEF loaded
  <2> QED BY <2>1, <2>2, <2>3, <2>4 DEF GatheredFrom
<1>3. ASSUME o.base \notin Intraday PROVE o.barResampleTimeFrames \cap Intraday = {}
  <2>1. ~IsIntradayCampaign(s) /\ o.base = "1D"
    BY <1>1, <1>3 DEF Intraday
  <2>2. \A node \in Range(s.nodes) : node.timeframe \notin Intraday
    BY <2>1 DEF IsIntradayCampaign
  <2>3. \A node \in Range(s.nodes) : GetTimeframe(node) \notin Intraday
    BY <2>2 DEF GetTimeframe, Intraday
  <2> QED BY <1>1, <2>3 DEF BarResampleTimeFrames
<1>4. ASSUME NEW node \in Range(s.nodes),
             node.type \in (DOMAIN RequiredDataSources) \ WithoutCategory
      PROVE  RequiredDataSources[node.type] \in o.categories
  <2> DEFINE t == node.type
  <2>1. /\ t \in DOMAIN GetDataCategoryForTransform
        /\ RequiredDataSources[t] = GetDataCategoryForTransform[t]
    <3> DEFINE known == DOMAIN GetDataCategoryForTransform
    <3>1. DOMAIN RequiredDataSources = known \cup {"economic_indicator"}
      BY DEF RequiredDataSources
    <3>2. t # "economic_indicator"
      BY <1>4 DEF WithoutCategory
    <3> QED BY <1>4, <3>1, <3>2 DEF RequiredDataSources
  <2>2. RequiredDataSources[t] \in ExtractAuxiliaryCategories(s.nodes)
    BY <2>1 DEF ExtractAuxiliaryCategories
  <2> QED BY <1>1, <2>2
<1>5. FindsItsData(s, o)
  BY <1>2, <1>3, <1>4 DEF FindsItsData
<1> QED BY <1>5 DEF o

\* Whatever is chosen is chosen for the strategy of the scenario.
Chosen ==
    /\ scenario \in Scenarios
    /\ option # <<>> => option = MakeDataModuleOptionFromStrategy(scenario)

LEMMA AlwaysChosen == Spec => []Chosen
<1>1. Init => Chosen
  BY DEF Init, Chosen
<1>2. Chosen /\ [Next]_vars => Chosen'
  <2> SUFFICES ASSUME Chosen, [Next]_vars PROVE Chosen'
    OBVIOUS
  <2>1. CASE Configure
    BY <2>1 DEF Chosen, Configure
  <2>2. CASE ~Configure
    <3>1. scenario' = scenario /\ option' = option
      BY <2>2 DEF Next, vars, Compile, BuildTransforms, ChartScript
    <3> QED BY <3>1 DEF Chosen
  <2> QED BY <2>1, <2>2
<1> QED BY <1>1, <1>2, PTL DEF Spec

\* RuntimeFindsItsData: MakeDataModuleOptionFromStrategy asks for every frame and
\* every category the run of the script looks up.
THEOREM DataIsThere == Spec => []RuntimeFindsItsData
<1>1. Chosen => RuntimeFindsItsData
  <2> SUFFICES ASSUME Chosen, option # <<>> PROVE FindsItsData(scenario, option)
    BY DEF RuntimeFindsItsData
  <2> QED BY CatalogueAssumption, OptionsHaveTheirData DEF Chosen
<1> QED BY <1>1, AlwaysChosen, PTL

-----------------------------------------------------------------------------
(* The registries of algorithms and strategies. *)

\* A list is a sequence, and an element more leaves it one.
LEMMA Lists ==
  ASSUME NEW s, IsList(s), NEW x
  PROVE  /\ Len(s) \in Nat /\ DOMAIN s = 1 .. Len(s)
         /\ IsList(Append(s, x)) /\ Len(Append(s, x)) = Len(s) + 1
         /\ Append(s, x)[Len(s) + 1] = x
         /\ \A i \in 1 .. Len(s) : Append(s, x)[i] = s[i]
         /\ SubSeq(Append(s, x), 1, Len(s)) = s
<1> DEFINE T == {s[i] : i \in 1 .. Len(s)} \cup {x}
           t == Append(s, x)
<1>1. Len(s) \in Nat /\ s = [i \in 1 .. Len(s) |-> s[i]] /\ DOMAIN s = 1 .. Len(s)
  BY DEF IsList
<1>2. s \in Seq(T) /\ x \in T
  <2>1. \A i \in 1 .. Len(s) : s[i] \in T
    OBVIOUS
  <2> HIDE DEF T
  <2>2. [i \in 1 .. Len(s) |-> s[i]] \in Seq(T)
    BY <1>1, <2>1
  <2> QED BY <1>1, <2>2 DEF T
<1> HIDE DEF T
<1>3. /\ t \in Seq(T) /\ Len(t) = Len(s) + 1 /\ t[Len(s) + 1] = x
      /\ \A i \in 1 .. Len(s) : t[i] = s[i]
  BY <1>2, AppendProperties
<1>4. IsList(t)
  <2> HIDE DEF t
  <2>1. t \in [1 .. Len(t) -> T] /\ Len(t) \in Nat
    BY <1>3
  <2>2. t = [i \in 1 .. Len(t) |-> t[i]]
    BY <2>1
  <2> QED BY <2>1, <2>2 DEF IsList
<1>5. SubSeq(t, 1, Len(s)) = s
  <2> DEFINE p == SubSeq(t, 1, Len(s))
  <2>1. /\ p \in Seq(T) /\ Len(p) = Len(s)
        /\ \A i \in 1 .. Len(s) : p[i] = t[i]
    <3>1. \A i \in 1 .. Len(s) : t[i] \in T
      BY <1>1, <1>3
    <3>2. /\ SubSeq(t, 1, Len(s)) \in Seq(T)
          /\ Len(SubSeq(t, 1, Len(s))) = IF 1 <= Len(s) THEN Len(s) - 1 + 1 ELSE 0
          /\ \A i \in 1 .. Len(s) - 1 + 1 : SubSeq(t, 1, Len(s))[i] = t[1 + i - 1]
      BY <1>1, <3>1, SubSeqProperties
    <3> QED BY <1>1, <3>2
  <2> HIDE DEF p
  <2>2. \A i \in 1 .. Len(s) : p[i] = s[i]
    BY <1>3, <2>1
  <2>3. p = s
    BY <1>2, <2>1, <2>2
  <2> QED BY <2>3 DEF p
<1> QED BY <1>1, <1>3, <1>4, <1>5

\* Two ids with a number are the same only if ids and numbers are.
LEMMA NumbersDiffer ==
  ASSUME NEW a, NEW b, IsList(a), IsList(b), NEW m, NEW n, Append(a, m) = Append(b, n)
  PROVE  a = b /\ m = n
<1>1. Len(a) = Len(b)
  BY Lists
<1>2. SubSeq(Append(a, m), 1, Len(a)) = a /\ SubSeq(Append(b, n), 1, Len(b)) = b
  BY Lists
<1>3. Append(a, m)[Len(a) + 1] = m /\ Append(b, n)[Len(b) + 1] = n
  BY Lists
<1> QED BY <1>1, <1>2, <1>3

\* Every key of a registry is an id that has been counted, or one with a number
\* that has been given.
KeysAreCounted(m, d) ==
    \A k \in DOMAIN m :
       k \in DOMAIN d \/ \E id \in DOMAIN d : \E n \in 1 .. d[id] : k = Append(id, n)

\* The ids counted are these.
Counts(d, ids) == DOMAIN d = ids /\ \A id \in ids : d[id] \in Nat

\* The key for an id is a new one, and is counted.
LEMMA KeysAreNew ==
  ASSUME NEW ids, \A id \in ids : IsList(id), FreeOfNumbers(ids),
         NEW id \in ids, NEW seen \in SUBSET ids, Counts(duplicates, seen),
         NEW m, KeysAreCounted(m, duplicates)
  PROVE  /\ Numbered(id) \notin DOMAIN m
         /\ id \notin seen => Numbered(id) = id
         /\ Counts(Count(id), seen \cup {id})
         /\ KeysAreCounted(m, Count(id))
         /\ \A v : KeysAreCounted(WithEntry(m, Numbered(id), v), Count(id))
<1> DEFINE d == duplicates
           e == Count(id)
<1>1. DOMAIN d = seen /\ \A x \in seen : d[x] \in Nat
  BY DEF Counts
<1>2. /\ DOMAIN e = seen \cup {id}
      /\ \A x \in seen : e[x] \in Nat /\ d[x] <= e[x]
      /\ e[id] \in Nat
      /\ id \in seen => e[id] = d[id] + 1
  BY <1>1 DEF Count, WithEntry
<1>3. Counts(e, seen \cup {id})
  BY <1>2 DEF Counts
<1>4. ASSUME NEW a \in ids, NEW n PROVE Append(a, n) \notin ids
  <2>1. Len(Append(a, n)) > Len(a) /\ SubSeq(Append(a, n), 1, Len(a)) = a
    BY Lists
  <2> QED BY <2>1 DEF FreeOfNumbers
<1>5. id \notin seen => Numbered(id) = id
  BY <1>1 DEF Numbered
<1>6. id \in seen => Numbered(id) = Append(id, d[id] + 1)
  BY <1>1 DEF Numbered
<1>7. Numbered(id) \notin DOMAIN m
  <2> SUFFICES ASSUME Numbered(id) \in DOMAIN m PROVE FALSE
    OBVIOUS
  <2>1. \/ Numbered(id) \in seen
        \/ \E a \in seen : \E n \in 1 .. d[a] : Numbered(id) = Append(a, n)
    BY <1>1 DEF KeysAreCounted
  <2>2. CASE id \notin seen
    BY <1>4, <1>5, <2>1, <2>2
  <2>3. CASE id \in seen
    <3>1. Numbered(id) \notin seen
      BY <1>4, <1>6, <2>3
    <3>2. PICK a \in seen : \E n \in 1 .. d[a] : Append(id, d[id] + 1) = Append(a, n)
      BY <1>6, <2>1, <2>3, <3>1
    <3>3. PICK n \in 1 .. d[a] : Append(id, d[id] + 1) = Append(a, n)
      BY <3>2
    <3>4. a = id /\ n = d[id] + 1
      BY <3>3, NumbersDiffer
    <3> QED BY <1>1, <3>3, <3>4
  <2> QED BY <2>2, <2>3
<1> HIDE DEF e
<1>8. ASSUME NEW k \in DOMAIN m
      PROVE  k \in DOMAIN e \/ \E a \in DOMAIN e : \E n \in 1 .. e[a] : k = Append(a, n)
  <2>1. CASE k \in DOMAIN d
    BY <1>1, <1>2, <2>1
  <2>2. CASE k \notin DOMAIN d
    <3>1. PICK a \in DOMAIN d : \E n \in 1 .. d[a] : k = Append(a, n)
      BY <2>2 DEF KeysAreCounted
    <3>2. a \in DOMAIN e /\ 1 .. d[a] \subseteq 1 .. e[a]
      BY <1>1, <1>2, <3>1
    <3> QED BY <3>1, <3>2
  <2> QED BY <2>1, <2>2
<1>9. \/ Numbered(id) \in DOMAIN e
      \/ \E a \in DOMAIN e : \E n \in 1 .. e[a] : Numbered(id) = Append(a, n)
  <2>1. CASE id \notin seen
    BY <1>2, <1>5, <2>1
  <2>2. CASE id \in seen
    <3>1. id \in DOMAIN e /\ d[id] + 1 \in 1 .. e[id]
      BY <1>1, <1>2, <2>2
    <3> QED BY <1>6, <2>2, <3>1
  <2> QED BY <2>1, <2>2
<1>10. KeysAreCounted(m, e)
  BY <1>8 DEF KeysAreCounted
<1>11. ASSUME NEW v PROVE KeysAreCounted(WithEntry(m, Numbered(id), v), e)
  <2>1. DOMAIN WithEntry(m, Numbered(id), v) = DOMAIN m \cup {Numbered(id)}
    BY DEF WithEntry
  <2> QED BY <1>8, <1>9, <2>1 DEF KeysAreCounted
<1> QED BY <1>3, <1>5, <1>7, <1>10, <1>11 DEF e

\* The stages of a start-up; it may stop at an algorithm that does not compile.
Stages == {"metadata", "decode", "register", "strategies", "ready", "stopped"}

\* What is given, and what has been decoded of it.
Decoded ==
    /\ IsList(algorithmBuffers) /\ IsList(strategyBuffers)
    /\ \A i \in DOMAIN algorithmBuffers :
         algorithmBuffers[i].form # "malformed" => IsList(algorithmBuffers[i].id)
    /\ \A i \in DOMAIN strategyBuffers : IsList(strategyBuffers[i].id)
    /\ at \in Nat \ {0} /\ stage \in Stages
    /\ IsList(configs)
    /\ \A i \in DOMAIN configs :
         /\ IsList(configs[i].id)
         /\ algorithmBuffers[configs[i].buffer].form \in {"empty", "source"}

\* The algorithms registered before the one at n, and the strategies counted.
AlgorithmsBefore(n) == {i \in Sources : i < n}
StrategiesBefore(n) ==
    {s \in DOMAIN strategyBuffers : s < n /\ strategyBuffers[s].form = "signal"}

\* Every id of a strategy, counted or not.
StrategyIds == {b.id : b \in Range(strategyBuffers)}
IdsOfStrategies(S) == {strategyBuffers[s].id : s \in S}

\* These algorithms are in the registry, the first one of an id under that id.
SignalsKept(S) ==
    /\ \A i \in S : \E k \in DOMAIN signals : signals[k] = configs[i].buffer
    /\ \A id \in IdsOf(S) :
         /\ id \in DOMAIN signals
         /\ \E i \in S : /\ configs[i].id = id /\ signals[id] = configs[i].buffer
                         /\ \A j \in S : configs[j].id = id => i <= j

\* These strategies are in the registry, if the one they name was.
TemplatesKept(S) ==
    \A s \in S :
       strategyBuffers[s].signal \in DOMAIN signals =>
         \E k \in DOMAIN templates :
            templates[k] = [strategy |-> s, algorithm |-> signals[strategyBuffers[s].signal]]

\* The numbers given so far are those of this registry.
NumbersOf(m, ids) == Counts(duplicates, ids) /\ KeysAreCounted(m, duplicates)

\* The inductive invariant: what is registered at every stage.
RegistryInv ==
    /\ stage \in {"metadata", "decode"} => duplicates = <<>> /\ signals = <<>>
    /\ stage \in {"metadata", "decode", "register"} => templates = <<>>
    /\ stage = "register" /\ FreeOfNumbers(IdsOf(Sources)) =>
         /\ NumbersOf(signals, IdsOf(AlgorithmsBefore(at)))
         /\ SignalsKept(AlgorithmsBefore(at))
    /\ stage \in {"strategies", "ready"} /\ FreeOfNumbers(IdsOf(Sources)) =>
         SignalsKept(Sources)
    /\ stage = "strategies" /\ FreeOfNumbers(StrategyIds) =>
         /\ NumbersOf(templates, IdsOfStrategies(StrategiesBefore(at)))
         /\ TemplatesKept(StrategiesBefore(at))
    /\ stage = "ready" /\ FreeOfNumbers(StrategyIds) =>
         TemplatesKept(StrategiesBefore(Len(strategyBuffers) + 1))

\* What every step of the start-up finds and leaves.
LEMMA DecodedStays ==
  Decoded /\ StartUpNext => Decoded'
<1> SUFFICES ASSUME Decoded, StartUpNext PROVE Decoded'
  OBVIOUS
<1>1. algorithmBuffers' = algorithmBuffers /\ strategyBuffers' = strategyBuffers
  BY DEF StartUpNext, RegisterTransformMetadata, DecodeAlgorithm, AllDecoded,
         RegisterAlgorithm, AllRegistered, RegisterStrategy, RegisterFactories
<1>2. at' \in Nat \ {0} /\ stage' \in Stages
  BY DEF Decoded, Stages, Proceed, StartUpNext, RegisterTransformMetadata,
         DecodeAlgorithm, AllDecoded, RegisterAlgorithm, AllRegistered,
         RegisterStrategy, RegisterFactories
<1>3. CASE configs' = configs
  BY <1>1, <1>2, <1>3 DEF Decoded
<1>4. CASE configs' # configs
  <2> DEFINE b == algorithmBuffers[at]
             c == [id |-> b.id, buffer |-> at]
  <2>1. /\ DecodeAlgorithm /\ at <= Len(algorithmBuffers)
        /\ b.form \in {"empty", "source"} /\ configs' = Append(configs, c)
    BY <1>4 DEF StartUpNext, RegisterTransformMetadata, DecodeAlgorithm, AllDecoded,
                RegisterAlgorithm, AllRegistered, RegisterStrategy, RegisterFactories
  <2>2. at \in DOMAIN algorithmBuffers
    <3>1. DOMAIN algorithmBuffers = 1 .. Len(algorithmBuffers)
          /\ Len(algorithmBuffers) \in Nat
      BY Lists DEF Decoded
    <3> QED BY <2>1, <3>1 DEF Decoded
  <2>3. IsList(c.id) /\ algorithmBuffers[c.buffer].form \in {"empty", "source"}
    BY <2>1, <2>2 DEF Decoded
  <2> HIDE DEF c
  <2>4. /\ DOMAIN configs = 1 .. Len(configs) /\ Len(configs) \in Nat
        /\ IsList(configs') /\ Len(configs') = Len(configs) + 1
        /\ configs'[Len(configs) + 1] = c
        /\ \A i \in 1 .. Len(configs) : configs'[i] = configs[i]
    BY <2>1, Lists DEF Decoded
  <2>5. DOMAIN configs' = 1 .. Len(configs')
    BY <2>4, Lists
  <2>6. ASSUME NEW i \in DOMAIN configs'
        PROVE  /\ IsList(configs'[i].id)
               /\ algorithmBuffers[configs'[i].buffer].form \in {"empty", "source"}
    <3>1. CASE i \in 1 .. Len(configs)
      BY <2>4, <3>1 DEF Decoded
    <3>2. CASE i = Len(configs) + 1
      BY <2>3, <2>4, <3>2
    <3> QED BY <2>4, <2>5, <2>6, <3>1, <3>2
  <2> QED BY <1>1, <1>2, <2>4, <2>6 DEF Decoded
<1> QED BY <1>3, <1>4

\* The algorithm at hand, when it has a source, gets a key of its own.
LEMMA AlgorithmStep ==
  ASSUME Decoded, RegistryInv, RegisterAlgorithm
  PROVE  RegistryInv'
<1> DEFINE S == AlgorithmsBefore(at)
           c == configs[at]
           key == Numbered(c.id)
<1>0. /\ stage = "register" /\ stage' = stage /\ at' = at + 1 /\ templates' = templates
      /\ algorithmBuffers' = algorithmBuffers /\ strategyBuffers' = strategyBuffers
      /\ configs' = configs
  BY DEF RegisterAlgorithm
<1>1. Sources' = Sources /\ IdsOf(Sources)' = IdsOf(Sources)
  BY <1>0 DEF Sources, IdsOf
<1>2. /\ Sources \subseteq DOMAIN configs /\ DOMAIN configs = 1 .. Len(configs)
      /\ Len(configs) \in Nat /\ at \in 1 .. Len(configs)
  BY Lists DEF Sources, Decoded, RegisterAlgorithm
<1>3. AlgorithmsBefore(at)' = IF at \in Sources THEN S \cup {at} ELSE S
  BY <1>0, <1>1, <1>2 DEF AlgorithmsBefore
<1>4. at \in Sources <=> algorithmBuffers[c.buffer].form # "empty"
  BY <1>2 DEF Sources, Decoded
<1>5. ASSUME FreeOfNumbers(IdsOf(Sources))
      PROVE  (/\ NumbersOf(signals, IdsOf(AlgorithmsBefore(at)))
              /\ SignalsKept(AlgorithmsBefore(at)))'
  <2>1. NumbersOf(signals, IdsOf(S)) /\ SignalsKept(S)
    BY <1>0, <1>5 DEF RegistryInv
  <2>2. CASE at \notin Sources
    <3>1. duplicates' = duplicates /\ signals' = signals
      BY <1>4, <2>2 DEF RegisterAlgorithm
    <3>2. AlgorithmsBefore(at)' = S
      BY <1>3, <2>2
    <3> QED BY <1>0, <2>1, <3>1, <3>2 DEF NumbersOf, Counts, SignalsKept, IdsOf
  <2>3. CASE at \in Sources
    <3>1. duplicates' = Count(c.id) /\ signals' = WithEntry(signals, key, c.buffer)
      BY <1>4, <2>3 DEF RegisterAlgorithm
    <3>2. AlgorithmsBefore(at)' = S \cup {at}
      BY <1>3, <2>3
    <3>3. /\ \A id \in IdsOf(Sources) : IsList(id)
          /\ c.id \in IdsOf(Sources) /\ IdsOf(S) \subseteq IdsOf(Sources)
      BY <1>2, <2>3 DEF IdsOf, Decoded, AlgorithmsBefore
    <3>4. /\ key \notin DOMAIN signals
          /\ c.id \notin IdsOf(S) => key = c.id
          /\ Counts(Count(c.id), IdsOf(S) \cup {c.id})
          /\ KeysAreCounted(WithEntry(signals, key, c.buffer), Count(c.id))
      <4> DEFINE ids == IdsOf(Sources)
                 seen == IdsOf(S)
      <4>1. /\ \A id \in ids : IsList(id)
            /\ FreeOfNumbers(ids) /\ c.id \in ids /\ seen \in SUBSET ids
            /\ Counts(duplicates, seen) /\ KeysAreCounted(signals, duplicates)
        BY <1>5, <2>1, <3>3 DEF NumbersOf
      <4> HIDE DEF ids, seen, c
      <4> QED BY <4>1, KeysAreNew DEF seen
    <3> HIDE DEF c, key
    <3>5. /\ DOMAIN signals' = DOMAIN signals \cup {key} /\ signals'[key] = c.buffer
          /\ \A k \in DOMAIN signals : signals'[k] = signals[k]
      BY <3>1, <3>4 DEF WithEntry
    <3>6. IdsOf(S \cup {at}) = IdsOf(S) \cup {c.id}
      BY DEF IdsOf, c
    <3>7. /\ Counts(duplicates', IdsOf(S \cup {at}))
          /\ KeysAreCounted(signals', duplicates')
      BY <3>1, <3>4, <3>6
    <3>8. ASSUME NEW i \in S \cup {at}
          PROVE  \E k \in DOMAIN signals' : signals'[k] = configs[i].buffer
      <4>1. CASE i \in S
        BY <2>1, <3>5, <4>1 DEF SignalsKept
      <4>2. CASE i = at
        BY <3>5, <4>2 DEF c
      <4> QED BY <4>1, <4>2
    <3>9. ASSUME NEW id \in IdsOf(S \cup {at})
          PROVE  /\ id \in DOMAIN signals'
                 /\ \E i \in S \cup {at} :
                      /\ configs[i].id = id /\ signals'[id] = configs[i].buffer
                      /\ \A j \in S \cup {at} : configs[j].id = id => i <= j
      <4>1. CASE id \in IdsOf(S)
        <5>1. id \in DOMAIN signals
          BY <2>1, <4>1 DEF SignalsKept
        <5>2. PICK i \in S : /\ configs[i].id = id /\ signals[id] = configs[i].buffer
                             /\ \A j \in S : configs[j].id = id => i <= j
          BY <2>1, <4>1 DEF SignalsKept
        <5>3. i <= at
          BY <1>2 DEF AlgorithmsBefore
        <5> QED BY <3>5, <5>1, <5>2, <5>3
      <4>2. CASE id \notin IdsOf(S)
        <5>1. id = c.id /\ key = id
          BY <3>4, <3>6, <4>2
        <5>2. \A j \in S : configs[j].id # id
          BY <4>2 DEF IdsOf
        <5>3. at <= at
          BY <1>2
        <5> QED BY <3>5, <5>1, <5>2, <5>3 DEF c
      <4> QED BY <4>1, <4>2
    <3>10. IdsOf(AlgorithmsBefore(at))' = IdsOf(S \cup {at})
      BY <1>0, <3>2 DEF IdsOf
    <3>11. NumbersOf(signals, IdsOf(AlgorithmsBefore(at)))'
      BY <3>7, <3>10 DEF NumbersOf
    <3>12. SignalsKept(AlgorithmsBefore(at))'
      <4> DEFINE T == S \cup {at}
      <4>1. AlgorithmsBefore(at)' = T /\ IdsOf(AlgorithmsBefore(at))' = IdsOf(T)
        BY <3>2, <3>10
      <4> HIDE DEF T
      <4>2. SignalsKept(AlgorithmsBefore(at))' <=>
              /\ \A i \in T : \E k \in DOMAIN signals' : signals'[k] = configs[i].buffer
              /\ \A id \in IdsOf(T) :
                   /\ id \in DOMAIN signals'
                   /\ \E i \in T : /\ configs[i].id = id
                                   /\ signals'[id] = configs[i].buffer
                                   /\ \A j \in T : configs[j].id = id => i <= j
        BY <1>0, <4>1 DEF SignalsKept
      <4> QED BY <3>8, <3>9, <4>2 DEF T
    <3> QED BY <3>11, <3>12
  <2> QED BY <2>2, <2>3
<1> QED BY <1>0, <1>1, <1>5 DEF RegistryInv

\* So does the strategy at hand, if the algorithm it names is there.
LEMMA StrategyStep ==
  ASSUME Decoded, RegistryInv, RegisterStrategy
  PROVE  RegistryInv'
<1> DEFINE S == StrategiesBefore(at)
           b == strategyBuffers[at]
           key == Numbered(b.id)
           entry == [strategy |-> at, algorithm |-> signals[b.signal]]
<1>0. /\ stage = "strategies" /\ stage' = stage /\ at' = at + 1 /\ signals' = signals
      /\ algorithmBuffers' = algorithmBuffers /\ strategyBuffers' = strategyBuffers
      /\ configs' = configs
  BY DEF RegisterStrategy
<1>1. /\ IdsOf(Sources)' = IdsOf(Sources) /\ StrategyIds' = StrategyIds
      /\ SignalsKept(Sources)' = SignalsKept(Sources)
  BY <1>0 DEF Sources, IdsOf, StrategyIds, SignalsKept
<1>2. /\ DOMAIN strategyBuffers = 1 .. Len(strategyBuffers)
      /\ Len(strategyBuffers) \in Nat /\ at \in DOMAIN strategyBuffers
  BY Lists DEF Decoded, RegisterStrategy
<1>3. StrategiesBefore(at)' = IF b.form = "signal" THEN S \cup {at} ELSE S
  BY <1>0, <1>2 DEF StrategiesBefore
<1>4. ASSUME FreeOfNumbers(StrategyIds)
      PROVE  (/\ NumbersOf(templates, IdsOfStrategies(StrategiesBefore(at)))
              /\ TemplatesKept(StrategiesBefore(at)))'
  <2>1. NumbersOf(templates, IdsOfStrategies(S)) /\ TemplatesKept(S)
    BY <1>0, <1>4 DEF RegistryInv
  <2>2. CASE b.form # "signal"
    <3>1. duplicates' = duplicates /\ templates' = templates
      BY <2>2 DEF RegisterStrategy
    <3>2. StrategiesBefore(at)' = S
      BY <1>3, <2>2
    <3> QED BY <1>0, <2>1, <3>1, <3>2 DEF NumbersOf, Counts, TemplatesKept, IdsOfStrategies
  <2>3. CASE b.form = "signal"
    <3>1. /\ duplicates' = Count(b.id)
          /\ templates' = IF b.signal \in DOMAIN signals
                          THEN WithEntry(templates, key, entry) ELSE templates
      BY <2>3 DEF RegisterStrategy
    <3>2. StrategiesBefore(at)' = S \cup {at}
      BY <1>3, <2>3
    <3>3. /\ \A id \in StrategyIds : IsList(id)
          /\ b.id \in StrategyIds /\ IdsOfStrategies(S) \subseteq StrategyIds
      BY <1>2 DEF StrategyIds, Range, Decoded, StrategiesBefore, IdsOfStrategies
    <3>4. /\ key \notin DOMAIN templates
          /\ Counts(Count(b.id), IdsOfStrategies(S) \cup {b.id})
          /\ KeysAreCounted(templates, Count(b.id))
          /\ KeysAreCounted(WithEntry(templates, key, entry), Count(b.id))
      <4> DEFINE ids == StrategyIds
                 seen == IdsOfStrategies(S)
      <4>1. /\ \A id \in ids : IsList(id)
            /\ FreeOfNumbers(ids) /\ b.id \in ids /\ seen \in SUBSET ids
            /\ Counts(duplicates, seen) /\ KeysAreCounted(templates, duplicates)
        BY <1>4, <2>1, <3>3 DEF NumbersOf
      <4> HIDE DEF ids, seen, b, entry
      <4> QED BY <4>1, KeysAreNew DEF seen
    <3>5. IdsOfStrategies(StrategiesBefore(at))' = IdsOfStrategies(S) \cup {b.id}
      BY <1>0, <3>2 DEF IdsOfStrategies
    <3> HIDE DEF key, entry, b
    <3>6. NumbersOf(templates, IdsOfStrategies(StrategiesBefore(at)))'
      BY <3>1, <3>4, <3>5 DEF NumbersOf
    <3>7. /\ DOMAIN templates \subseteq DOMAIN templates'
          /\ \A k \in DOMAIN templates : templates'[k] = templates[k]
          /\ b.signal \in DOMAIN signals =>
               key \in DOMAIN templates' /\ templates'[key] = entry
      BY <3>1, <3>4 DEF WithEntry
    <3>8. ASSUME NEW s \in S \cup {at}, strategyBuffers[s].signal \in DOMAIN signals
          PROVE  \E k \in DOMAIN templates' :
                    templates'[k] = [strategy |-> s,
                                     algorithm |-> signals[strategyBuffers[s].signal]]
      <4>1. CASE s \in S
        <5>1. PICK k \in DOMAIN templates :
                     templates[k] = [strategy |-> s,
                                     algorithm |-> signals[strategyBuffers[s].signal]]
          BY <2>1, <3>8, <4>1 DEF TemplatesKept
        <5> QED BY <3>7, <5>1
      <4>2. CASE s = at
        BY <3>7, <3>8, <4>2 DEF b, entry
      <4> QED BY <4>1, <4>2
    <3>9. TemplatesKept(StrategiesBefore(at))'
      <4> DEFINE T == S \cup {at}
      <4>1. StrategiesBefore(at)' = T
        BY <3>2
      <4> HIDE DEF T
      <4> QED BY <1>0, <3>8, <4>1 DEF TemplatesKept, T
    <3> QED BY <3>6, <3>9
  <2> QED BY <2>2, <2>3
<1> QED BY <1>0, <1>1, <1>4 DEF RegistryInv

\* Nothing has been registered before the first one.
LEMMA NothingBefore ==
  ASSUME Decoded
  PROVE  AlgorithmsBefore(1) = {} /\ StrategiesBefore(1) = {}
<1>1. DOMAIN configs = 1 .. Len(configs) /\ DOMAIN strategyBuffers = 1 .. Len(strategyBuffers)
  BY Lists DEF Decoded
<1> QED BY <1>1 DEF AlgorithmsBefore, StrategiesBefore, Sources

\* An empty registry is in order.
LEMMA NothingKept ==
  Counts(<<>>, {}) /\ KeysAreCounted(<<>>, <<>>)
BY DEF Counts, KeysAreCounted

\* Every step of the start-up keeps the registries in order.
LEMMA RegistryStep ==
  ASSUME Decoded, Decoded', RegistryInv, StartUpNext
  PROVE  RegistryInv'
<1>0. algorithmBuffers' = algorithmBuffers /\ strategyBuffers' = strategyBuffers
  BY DEF StartUpNext, RegisterTransformMetadata, DecodeAlgorithm, AllDecoded,
         RegisterAlgorithm, AllRegistered, RegisterStrategy, RegisterFactories
<1>1. CASE RegisterTransformMetadata
  BY <1>1 DEF RegisterTransformMetadata, Proceed, RegistryInv
<1>2. CASE DecodeAlgorithm
  <2>1. /\ stage = "decode" /\ stage' \in {"decode", "stopped"}
        /\ duplicates' = duplicates /\ signals' = signals /\ templates' = templates
    BY <1>2 DEF DecodeAlgorithm
  <2> QED BY <2>1 DEF RegistryInv
<1>3. CASE AllDecoded
  <2>1. /\ stage = "decode" /\ stage' = "register" /\ at' = 1
        /\ duplicates' = <<>> /\ signals' = <<>> /\ templates' = <<>>
    BY <1>3 DEF AllDecoded, Proceed, RegistryInv
  <2>2. AlgorithmsBefore(at)' = {}
    <3>1. configs' = configs
      BY <1>3 DEF AllDecoded
    <3> QED BY <1>0, <2>1, <3>1, NothingBefore DEF AlgorithmsBefore, Sources
  <2>3. IdsOf(AlgorithmsBefore(at))' = {}
    BY <2>2 DEF IdsOf
  <2>4. (NumbersOf(signals, IdsOf(AlgorithmsBefore(at)))
         /\ SignalsKept(AlgorithmsBefore(at)))'
    BY <2>1, <2>2, <2>3, NothingKept DEF NumbersOf, SignalsKept
  <2> QED BY <2>1, <2>4 DEF RegistryInv
<1>4. CASE RegisterAlgorithm
  BY <1>4, AlgorithmStep
<1>5. CASE AllRegistered
  <2>1. /\ stage = "register" /\ stage' = "strategies" /\ at' = 1 /\ at > Len(configs)
        /\ configs' = configs /\ signals' = signals
        /\ duplicates' = <<>> /\ templates' = <<>>
    BY <1>5 DEF AllRegistered, Proceed, RegistryInv
  <2>2. AlgorithmsBefore(at) = Sources
    <3>1. DOMAIN configs = 1 .. Len(configs) /\ Len(configs) \in Nat /\ at \in Nat
      BY Lists DEF Decoded
    <3> QED BY <2>1, <3>1 DEF AlgorithmsBefore, Sources
  <2>3. FreeOfNumbers(IdsOf(Sources))' => SignalsKept(Sources)'
    <3>1. /\ Sources' = Sources /\ IdsOf(Sources)' = IdsOf(Sources)
          /\ SignalsKept(Sources)' = SignalsKept(Sources)
      BY <1>0, <2>1 DEF Sources, IdsOf, SignalsKept
    <3> QED BY <2>1, <2>2, <3>1 DEF RegistryInv
  <2>4. StrategiesBefore(at)' = {}
    BY <1>0, <2>1, NothingBefore DEF StrategiesBefore
  <2>5. IdsOfStrategies(StrategiesBefore(at))' = {}
    BY <2>4 DEF IdsOfStrategies
  <2>6. (NumbersOf(templates, IdsOfStrategies(StrategiesBefore(at)))
         /\ TemplatesKept(StrategiesBefore(at)))'
    BY <2>1, <2>4, <2>5, NothingKept DEF NumbersOf, TemplatesKept
  <2> QED BY <2>1, <2>3, <2>6 DEF RegistryInv
<1>6. CASE RegisterStrategy
  BY <1>6, StrategyStep
<1>7. CASE RegisterFactories
  <2>1. /\ stage = "strategies" /\ stage' = "ready" /\ at > Len(strategyBuffers)
        /\ configs' = configs /\ signals' = signals /\ templates' = templates
    BY <1>7 DEF RegisterFactories, Proceed
  <2>2. StrategiesBefore(at) = StrategiesBefore(Len(strategyBuffers) + 1)
    <3>1. /\ DOMAIN strategyBuffers = 1 .. Len(strategyBuffers)
          /\ Len(strategyBuffers) \in Nat /\ at \in Nat
      BY Lists DEF Decoded
    <3> QED BY <2>1, <3>1 DEF StrategiesBefore
  <2>3. /\ IdsOf(Sources)' = IdsOf(Sources) /\ SignalsKept(Sources)' = SignalsKept(Sources)
        /\ StrategyIds' = StrategyIds
        /\ TemplatesKept(StrategiesBefore(Len(strategyBuffers) + 1))'
             = TemplatesKept(StrategiesBefore(Len(strategyBuffers) + 1))
    BY <1>0, <2>1 DEF Sources, IdsOf, SignalsKept, StrategyIds, TemplatesKept,
                      StrategiesBefore
  <2> QED BY <2>1, <2>2, <2>3 DEF RegistryInv
<1> QED BY <1>1, <1>2, <1>3, <1>4, <1>5, <1>6, <1>7 DEF StartUpNext

\* The catalogue leaves the start-up alone, or takes one of its steps.
LEMMA RegistriesInOrder == Spec => [](Decoded /\ RegistryInv)
<1>1. Init => Decoded /\ RegistryInv
  <2> SUFFICES ASSUME NEW s \in Scenarios, StartUpInit(s.algorithms, s.strategies)
               PROVE  Decoded /\ RegistryInv
    BY DEF Init
  <2>1. IsList(configs) /\ DOMAIN configs = {}
    BY DEF StartUpInit, IsList
  <2>2. Decoded
    BY <2>1, CatalogueAssumption DEF StartUpInit, Decoded, Stages
  <2>3. RegistryInv
    BY DEF StartUpInit, RegistryInv
  <2> QED BY <2>2, <2>3
<1>2. Decoded /\ RegistryInv /\ [Next]_vars => (Decoded /\ RegistryInv)'
  <2> SUFFICES ASSUME Decoded, RegistryInv, [Next]_vars PROVE (Decoded /\ RegistryInv)'
    OBVIOUS
  <2>1. CASE StartUpNext
    BY <2>1, DecodedStays, RegistryStep
  <2>2. CASE UNCHANGED startUpVars
    <3>1. /\ algorithmBuffers' = algorithmBuffers /\ strategyBuffers' = strategyBuffers
          /\ stage' = stage /\ at' = at /\ configs' = configs
          /\ duplicates' = duplicates /\ signals' = signals /\ templates' = templates
      BY <2>2 DEF startUpVars
    <3>2. Decoded'
      BY <3>1 DEF Decoded
    <3>3. RegistryInv'
      BY <3>1 DEF RegistryInv, Sources, IdsOf, AlgorithmsBefore, SignalsKept, NumbersOf,
                  Counts, StrategyIds, StrategiesBefore, IdsOfStrategies, TemplatesKept
    <3> QED BY <3>2, <3>3
  <2>3. StartUpNext \/ UNCHANGED startUpVars
    BY DEF Next, vars, Compile, Configure, BuildTransforms, ChartScript
  <2> QED BY <2>1, <2>2, <2>3
<1> QED BY <1>1, <1>2, PTL DEF Spec

\* AlgorithmsAreKept: RegisterStrategyMetadata loses no algorithm and no strategy
\* that names one, however many have the same id, and a strategy runs the first of
\* the id it names.
THEOREM RegistrationKeepsAll == Spec => []AlgorithmsAreKept
<1>1. Decoded /\ RegistryInv => AlgorithmsAreKept
  <2> SUFFICES ASSUME Decoded, RegistryInv, stage = "ready",
                      FreeOfNumbers(IdsOf(Sources)), FreeOfNumbers(StrategyIds)
               PROVE  /\ \A i \in Sources :
                           \E id \in DOMAIN signals : signals[id] = configs[i].buffer
                      /\ \A s \in DOMAIN strategyBuffers :
                           /\ strategyBuffers[s].form = "signal"
                           /\ strategyBuffers[s].signal \in IdsOf(Sources)
                           => \E id \in DOMAIN templates :
                                templates[id] =
                                  [strategy |-> s,
                                   algorithm |->
                                     configs[FirstOf(strategyBuffers[s].signal)].buffer]
    BY DEF AlgorithmsAreKept, StrategyIds
  <2>1. SignalsKept(Sources) /\ TemplatesKept(StrategiesBefore(Len(strategyBuffers) + 1))
    BY DEF RegistryInv
  <2>2. ASSUME NEW id \in IdsOf(Sources)
        PROVE  id \in DOMAIN signals /\ signals[id] = configs[FirstOf(id)].buffer
    <3>1. PICK i \in Sources : /\ configs[i].id = id /\ signals[id] = configs[i].buffer
                               /\ \A j \in Sources : configs[j].id = id => i <= j
      BY <2>1 DEF SignalsKept
    <3>2. Sources \subseteq Nat
      <4>1. DOMAIN configs = 1 .. Len(configs)
        BY Lists DEF Decoded
      <4> QED BY <4>1 DEF Sources
    <3>3. /\ FirstOf(id) \in Sources /\ configs[FirstOf(id)].id = id
          /\ \A j \in Sources : configs[j].id = id => FirstOf(id) <= j
      BY <3>1 DEF FirstOf
    <3>4. FirstOf(id) = i
      <4> DEFINE f == FirstOf(id)
      <4>1. f \in Nat /\ i \in Nat
        BY <3>2, <3>3
      <4>2. i <= f /\ f <= i
        BY <3>1, <3>3
      <4> HIDE DEF f
      <4>3. f = i
        BY <4>1, <4>2
      <4> QED BY <4>3 DEF f
    <3> QED BY <2>1, <3>1, <3>4 DEF SignalsKept
  <2>3. ASSUME NEW s \in DOMAIN strategyBuffers, strategyBuffers[s].form = "signal",
               strategyBuffers[s].signal \in IdsOf(Sources)
        PROVE  \E id \in DOMAIN templates :
                 templates[id] =
                   [strategy |-> s,
                    algorithm |-> configs[FirstOf(strategyBuffers[s].signal)].buffer]
    <3>1. s \in StrategiesBefore(Len(strategyBuffers) + 1)
      <4>1. /\ DOMAIN strategyBuffers = 1 .. Len(strategyBuffers)
            /\ Len(strategyBuffers) \in Nat
        BY Lists DEF Decoded
      <4> QED BY <2>3, <4>1 DEF StrategiesBefore
    <3> QED BY <2>1, <2>2, <2>3, <3>1 DEF TemplatesKept
  <2> QED BY <2>1, <2>3 DEF SignalsKept
<1> QED BY <1>1, RegistriesInOrder, PTL

-----------------------------------------------------------------------------
(* The rounding of the axes. *)

\* Whole parts add up, but for one.
LEMMA Quotients ==
  ASSUME NEW m \in Nat \ {0}, NEW a \in Nat, NEW b \in Nat
  PROVE  IF (a % m) + (b % m) < m
         THEN /\ (a + b) \div m = (a \div m) + (b \div m)
              /\ (a + b) % m = (a % m) + (b % m)
         ELSE /\ (a + b) \div m = (a \div m) + (b \div m) + 1
              /\ (a + b) % m = (a % m) + (b % m) - m
<1> DEFINE p == a \div m
           q == b \div m
           r == a % m
           s == b % m
           t == (a + b) \div m
           u == (a + b) % m
<1>1. /\ p \in Int /\ r \in 0 .. m - 1 /\ a = m * p + r
      /\ q \in Int /\ s \in 0 .. m - 1 /\ b = m * q + s
      /\ t \in Int /\ u \in 0 .. m - 1 /\ a + b = m * t + u
  OBVIOUS
<1> HIDE DEF p, q, r, s, t, u
<1>2. m * (t - p - q) = r + s - u
  BY <1>1
<1> DEFINE d == t - p - q
<1>3. d \in Int /\ m * d = r + s - u /\ t = p + q + d
  BY <1>1, <1>2
<1> HIDE DEF d
<1>4. ~(d >= 2)
  <2> SUFFICES ASSUME d >= 2 PROVE FALSE
    OBVIOUS
  <2>1. m * d >= m * 2
    BY <1>3
  <2> QED BY <1>1, <1>3, <2>1
<1>5. ~(d <= -1)
  <2> SUFFICES ASSUME d <= -1 PROVE FALSE
    OBVIOUS
  <2>1. m * d <= m * (-1)
    BY <1>3
  <2> QED BY <1>1, <1>3, <2>1
<1>6. d \in {0, 1} /\ m * 0 = 0 /\ m * 1 = m
  BY <1>3, <1>4, <1>5
<1>7. IF r + s < m THEN t = p + q /\ u = r + s ELSE t = p + q + 1 /\ u = r + s - m
  BY <1>1, <1>3, <1>6
<1> QED BY <1>7 DEF p, q, r, s, t, u

\* The same of the hundreds the heights of a pane are read from.
LEMMA NextHundred ==
  ASSUME NEW m \in Nat \ {0}, NEW a \in Nat
  PROVE  IF (a % m) + (100 % m) < m
         THEN /\ (a + 100) \div m = (a \div m) + (100 \div m)
              /\ (a + 100) % m = (a % m) + (100 % m)
         ELSE /\ (a + 100) \div m = (a \div m) + (100 \div m) + 1
              /\ (a + 100) % m = (a % m) + (100 % m) - m
<1> DEFINE b == 100
<1>1. b \in Nat
  OBVIOUS
<1> HIDE DEF b
<1>2. IF (a % m) + (b % m) < m
      THEN /\ (a + b) \div m = (a \div m) + (b \div m)
           /\ (a + b) % m = (a % m) + (b % m)
      ELSE /\ (a + b) \div m = (a \div m) + (b \div m) + 1
           /\ (a + b) % m = (a % m) + (b % m) - m
  BY <1>1, Quotients
<1> QED BY <1>2 DEF b

\* However the running sums are cut off, the axes lie below one another and fill the
\* chart.
LEMMA AxesLieInOrder ==
  ASSUME NEW n \in Nat, n > 2, NEW axes \in RecalculateAxisHeights(n)
  PROVE  /\ IsList(axes) /\ Len(axes) = n
         /\ axes[1].top = 0
         /\ \A i \in 1 .. n - 1 : axes[i + 1].top - (axes[i].top + axes[i].height) \in {0, 1}
         /\ axes[n].top + axes[n].height \in 99 .. 100
<1> DEFINE m == n + 1
           inexact == {i \in 3 .. n : (100 * i) % m = 0 /\ 100 % m # 0}
           h == 100 \div m
           q(i) == (100 * i) \div m
<1>1. PICK short \in SUBSET inexact :
        axes = [i \in 1 .. n |->
                  IF i = 1 THEN [top |-> 0, height |-> 200 \div m]
                  ELSE [top |-> (100 * i) \div m - (IF i \in short THEN 1 ELSE 0),
                        height |-> 100 \div m]]
  BY DEF RecalculateAxisHeights
<1> DEFINE s(i) == IF i \in short THEN 1 ELSE 0
<1>2. /\ axes[1] = [top |-> 0, height |-> 200 \div m]
      /\ \A i \in 2 .. n : axes[i] = [top |-> q(i) - s(i), height |-> h]
  BY <1>1
<1>3. IsList(axes) /\ Len(axes) = n
  <2>1. DOMAIN axes = 1 .. n /\ axes = [i \in 1 .. n |-> axes[i]]
    BY <1>1
  <2>2. axes \in [1 .. n -> {axes[i] : i \in 1 .. n}]
    BY <2>1
  <2>3. axes \in Seq({axes[i] : i \in 1 .. n}) /\ Len(axes) = n
    BY <2>2
  <2> QED BY <2>1, <2>3 DEF IsList
<1>4. \A i \in 1 .. n : q(i) \in Int /\ (100 * i) % m \in 0 .. n /\ h \in Int /\ 100 % m \in 0 .. n
  BY SMTT(30)
<1>5. \A i \in 1 .. n :
        IF ((100 * i) % m) + (100 % m) < m
        THEN /\ q(i + 1) = q(i) + h
             /\ (100 * (i + 1)) % m = ((100 * i) % m) + (100 % m)
        ELSE /\ q(i + 1) = q(i) + h + 1
             /\ (100 * (i + 1)) % m = ((100 * i) % m) + (100 % m) - m
  <2> TAKE i \in 1 .. n
  <2> DEFINE a == 100 * i
  <2>1. 100 * (i + 1) = a + 100 /\ a \in Nat /\ m \in Nat \ {0}
    OBVIOUS
  <2> HIDE DEF m, a
  <2>2. IF (a % m) + (100 % m) < m
        THEN /\ (a + 100) \div m = (a \div m) + (100 \div m)
             /\ (a + 100) % m = (a % m) + (100 % m)
        ELSE /\ (a + 100) \div m = (a \div m) + (100 \div m) + 1
             /\ (a + 100) % m = (a % m) + (100 % m) - m
    BY <2>1, NextHundred, Zenon
  <2> QED BY <2>1, <2>2 DEF a
<1>6. \A i \in 1 .. n : i \in short => i \in 3 .. n /\ (100 * i) % m = 0 /\ 100 % m # 0
  BY <1>1
<1>7. ASSUME NEW i \in 2 .. n - 1 PROVE q(i + 1) - s(i + 1) - (q(i) - s(i) + h) \in {0, 1}
  <2> DEFINE r == (100 * i) % m
             rr == (100 * (i + 1)) % m
             k == 100 % m
  <2>1. /\ q(i) \in Int /\ q(i + 1) \in Int /\ h \in Int
        /\ r \in 0 .. n /\ rr \in 0 .. n /\ k \in 0 .. n
    BY <1>4, i \in 1 .. n, i + 1 \in 1 .. n
  <2>2. IF r + k < m THEN q(i + 1) = q(i) + h /\ rr = r + k
                     ELSE q(i + 1) = q(i) + h + 1 /\ rr = r + k - m
    BY <1>5
  <2>3. (i \in short => r = 0 /\ k # 0) /\ (i + 1 \in short => rr = 0 /\ k # 0)
    BY <1>6
  <2> HIDE DEF q, h, r, rr, k
  <2> QED BY <2>1, <2>2, <2>3
<1>8. q(2) - s(2) - 200 \div m = 0
  BY <1>6
<1>9. q(n) - s(n) + h \in 99 .. 100
  <2> DEFINE r == (100 * n) % m
             k == 100 % m
  <2>1. q(n) \in Int /\ h \in Int /\ r \in 0 .. n /\ k \in 0 .. n
    BY <1>4
  <2>2. q(n + 1) = 100 /\ (100 * (n + 1)) % m = 0
    OBVIOUS
  <2>3. IF r + k < m THEN 100 = q(n) + h /\ 0 = r + k
                     ELSE 100 = q(n) + h + 1 /\ 0 = r + k - m
    BY <1>5, <2>2
  <2>4. n \in short => r = 0 /\ k # 0
    BY <1>6
  <2> HIDE DEF q, h, r, k
  <2> QED BY <2>1, <2>3, <2>4
<1>10. \A i \in 2 .. n : axes[i].top = q(i) - s(i) /\ axes[i].height = h
  <2> TAKE i \in 2 .. n
  <2> DEFINE top == q(i) - s(i)
  <2>1. axes[i] = [top |-> top, height |-> h]
    BY <1>2
  <2> HIDE DEF h, top
  <2>2. axes[i].top = top /\ axes[i].height = h
    BY <2>1
  <2> QED BY <2>2 DEF top
<1>11. axes[1].top = 0 /\ axes[1].height = 200 \div m
  BY <1>2
<1> HIDE DEF q, h, s, m
<1>12. \A i \in 2 .. n - 1 : axes[i + 1].top - (axes[i].top + axes[i].height) \in {0, 1}
  <2> TAKE i \in 2 .. n - 1
  <2>1. i \in 2 .. n /\ i + 1 \in 2 .. n
    OBVIOUS
  <2> QED BY <1>7, <1>10, <2>1
<1>13. axes[1 + 1].top - (axes[1].top + axes[1].height) \in {0, 1}
  <2>1. axes[2].top - (axes[1].top + axes[1].height) = q(2) - s(2) - (0 + 200 \div m)
    BY <1>10, <1>11
  <2>2. 200 \div m \in Int /\ q(2) \in Int /\ s(2) \in Int
    BY DEF q, s, m
  <2> QED BY <1>8, <2>1, <2>2
<1>14. axes[n].top + axes[n].height \in 99 .. 100
  BY <1>9, <1>10
<1>15. \A i \in 1 .. n - 1 : axes[i + 1].top - (axes[i].top + axes[i].height) \in {0, 1}
  BY <1>12, <1>13
<1> QED BY <1>3, <1>11, <1>14, <1>15

-----------------------------------------------------------------------------
(* Plotted inputs, and the names of panels. *)

\* Which connections come first depends on nothing but the connections.
LEMMA SameFirsts ==
  ASSUME NEW cfg, NEW good, NEW other, \A h \in InputHandles(cfg) : h \in good <=> h \in other
  PROVE  FirstConnections(cfg, good) = FirstConnections(cfg, other)
<1>1. \A k \in DOMAIN cfg.inputs : \A h \in Range(cfg.inputs[k]) : h \in good <=> h \in other
  BY DEF InputHandles
<1>2. {j \in DOMAIN cfg.inputs : Range(cfg.inputs[j]) \cap good # {}}
        = {j \in DOMAIN cfg.inputs : Range(cfg.inputs[j]) \cap other # {}}
  BY <1>1
<1>3. ASSUME NEW k \in DOMAIN cfg.inputs
      PROVE  FirstConnection(cfg.inputs[k], good) = FirstConnection(cfg.inputs[k], other)
  <2> DEFINE c == cfg.inputs[k]
  <2>1. {i \in DOMAIN c : c[i] \in good} = {i \in DOMAIN c : c[i] \in other}
    BY <1>1 DEF Range
  <2> QED BY <2>1 DEF FirstConnection
<1> QED BY <1>2, <1>3 DEF FirstConnections

\* The first good connection is one, and what comes before it is not.
LEMMA FirstIsGood ==
  ASSUME NEW c, IsList(c), NEW good, Range(c) \cap good # {}
  PROVE  /\ FirstConnection(c, good) \in Range(c) \cap good
         /\ \A other \in SUBSET good :
              FirstConnection(c, good) \in other =>
                FirstConnection(c, other) = FirstConnection(c, good)
<1> DEFINE At(g) == {i \in DOMAIN c : c[i] \in g}
<1>1. Len(c) \in Nat /\ DOMAIN c = 1 .. Len(c)
  BY DEF IsList
<1>2. ASSUME NEW g, At(g) # {}
      PROVE  Min(At(g)) \in At(g) /\ \A i \in At(g) : Min(At(g)) <= i
  <2>1. At(g) \in SUBSET (1 .. Len(c)) /\ IsFiniteSet(1 .. Len(c))
    BY <1>1, FS_Interval
  <2>2. IsFiniteSet(At(g)) /\ At(g) \in SUBSET Nat
    BY <2>1, FS_Subset
  <2> HIDE DEF At
  <2> QED BY <1>2, <2>2, Extremes
<1>3. At(good) # {}
  BY DEF Range
<1>4. FirstConnection(c, good) \in Range(c) \cap good
  <2> DEFINE m == Min(At(good))
  <2>1. m \in DOMAIN c /\ c[m] \in good
    BY <1>2, <1>3
  <2>2. FirstConnection(c, good) = c[m]
    BY DEF FirstConnection
  <2> HIDE DEF m
  <2> QED BY <2>1, <2>2 DEF Range
<1>5. ASSUME NEW other \in SUBSET good, FirstConnection(c, good) \in other
      PROVE  FirstConnection(c, other) = FirstConnection(c, good)
  <2> DEFINE m == Min(At(good))
             n == Min(At(other))
  <2>1. m \in At(good) /\ (\A i \in At(good) : m <= i) /\ c[m] \in other
    BY <1>2, <1>3, <1>5 DEF FirstConnection
  <2>2. m \in At(other) /\ At(other) \subseteq At(good)
    BY <2>1
  <2>3. n \in At(other) /\ n <= m
    BY <1>2, <2>2
  <2>4. n \in Nat /\ m \in Nat /\ m <= n
    BY <1>1, <2>1, <2>2, <2>3
  <2>5. n = m
    <3> HIDE DEF n, m
    <3> QED BY <2>3, <2>4
  <2> QED BY <2>5 DEF FirstConnection
<1> QED BY <1>4, <1>5

\* The first connections of a transform are connections of it.
LEMMA FirstsAreGood ==
  ASSUME NEW cfg, \A k \in DOMAIN cfg.inputs : IsList(cfg.inputs[k]), NEW good
  PROVE  /\ Range(FirstConnections(cfg, good)) \subseteq InputHandles(cfg) \cap good
         /\ DOMAIN FirstConnections(cfg, good) \subseteq DOMAIN cfg.inputs
         /\ \A other \in SUBSET good :
              Range(FirstConnections(cfg, good)) \subseteq other =>
                FirstConnections(cfg, other) = FirstConnections(cfg, good)
<1> DEFINE Have(g) == {j \in DOMAIN cfg.inputs : Range(cfg.inputs[j]) \cap g # {}}
           firsts(g) == FirstConnections(cfg, g)
<1>1. \A g : /\ DOMAIN firsts(g) = Have(g)
             /\ \A k \in Have(g) : firsts(g)[k] = FirstConnection(cfg.inputs[k], g)
  BY DEF FirstConnections
<1>2. \A k \in Have(good) :
        /\ FirstConnection(cfg.inputs[k], good) \in Range(cfg.inputs[k]) \cap good
        /\ \A other \in SUBSET good :
             FirstConnection(cfg.inputs[k], good) \in other =>
               FirstConnection(cfg.inputs[k], other) = FirstConnection(cfg.inputs[k], good)
  BY FirstIsGood
<1>3. Range(firsts(good)) \subseteq InputHandles(cfg) \cap good
  <2> SUFFICES ASSUME NEW k \in DOMAIN firsts(good)
               PROVE  firsts(good)[k] \in InputHandles(cfg) \cap good
    BY DEF Range
  <2>1. k \in Have(good) /\ firsts(good)[k] = FirstConnection(cfg.inputs[k], good)
    BY <1>1
  <2>2. k \in DOMAIN cfg.inputs /\ firsts(good)[k] \in Range(cfg.inputs[k]) \cap good
    BY <1>2, <2>1
  <2> QED BY <2>2 DEF InputHandles
<1>4. ASSUME NEW other \in SUBSET good, Range(firsts(good)) \subseteq other
      PROVE  firsts(other) = firsts(good)
  <2>1. \A k \in Have(good) : FirstConnection(cfg.inputs[k], good) \in other
    BY <1>1, <1>4 DEF Range
  <2>2. Have(other) = Have(good)
    <3>1. Have(good) \subseteq Have(other)
      BY <1>2, <2>1
    <3> QED BY <3>1
  <2>3. \A k \in Have(good) :
          FirstConnection(cfg.inputs[k], other) = FirstConnection(cfg.inputs[k], good)
    BY <1>2, <2>1
  <2> QED BY <2>2, <2>3 DEF FirstConnections
<1> QED BY <1>1, <1>3, <1>4

\* The orders of a set name all of it, each element once.
LEMMA Orders ==
  ASSUME NEW S, IsFiniteSet(S), NEW order \in SetToSeqs(S)
  PROVE  /\ Cardinality(S) \in Nat
         /\ order \in [1 .. Cardinality(S) -> S]
         /\ \A x \in S : \E i \in 1 .. Cardinality(S) : order[i] = x
<1> DEFINE n == Cardinality(S)
<1>1. n \in Nat
  BY FS_CardinalityType
<1>2. /\ order \in [1 .. n -> S]
      /\ \A i, j \in 1 .. n : i # j => order[i] # order[j]
  BY DEF SetToSeqs
<1>3. order \in Injection(1 .. n, S)
  BY <1>2, Fun_IsInj
<1>4. IsFiniteSet(1 .. n) /\ Cardinality(1 .. n) = n
  BY <1>1, FS_Interval
<1>5. order \in Surjection(1 .. n, S)
  BY <1>3, <1>4, FS_Injection
<1> QED BY <1>1, <1>2, <1>5, Fun_SurjectionProperties

\* A map in some order has as many entries as the map, with its values.
LEMMA InOrderTells ==
  ASSUME NEW map, IsFiniteSet(DOMAIN map), NEW s \in InSomeOrder(map)
  PROVE  /\ Cardinality(DOMAIN map) \in Nat
         /\ DOMAIN s = 1 .. Cardinality(DOMAIN map)
         /\ Range(s) = Range(map)
<1> DEFINE N == Cardinality(DOMAIN map)
<1>1. PICK order \in SetToSeqs(DOMAIN map) : s = [i \in DOMAIN order |-> map[order[i]]]
  BY DEF InSomeOrder
<1>2. /\ N \in Nat /\ order \in [1 .. N -> DOMAIN map]
      /\ \A x \in DOMAIN map : \E i \in 1 .. N : order[i] = x
  BY Orders
<1> HIDE DEF N
<1>3. DOMAIN order = 1 .. N /\ \A i \in 1 .. N : order[i] \in DOMAIN map
  BY <1>2
<1>4. DOMAIN s = 1 .. N /\ \A i \in 1 .. N : s[i] = map[order[i]]
  BY <1>1, <1>3
<1>5. Range(s) = Range(map)
  BY <1>2, <1>3, <1>4 DEF Range
<1> QED BY <1>2, <1>4, <1>5 DEF N

\* Two maps that may come in the same order have the same values, as many times in all.
LEMMA SameOrderTells ==
  ASSUME NEW f, NEW g, IsFiniteSet(DOMAIN f), IsFiniteSet(DOMAIN g),
         NEW s \in InSomeOrder(f), s \in InSomeOrder(g)
  PROVE  Range(f) = Range(g) /\ Cardinality(DOMAIN f) = Cardinality(DOMAIN g)
<1> DEFINE x == Cardinality(DOMAIN f)
           y == Cardinality(DOMAIN g)
<1>1. x \in Nat /\ DOMAIN s = 1 .. x /\ Range(s) = Range(f)
  BY InOrderTells
<1>2. y \in Nat /\ DOMAIN s = 1 .. y /\ Range(s) = Range(g)
  BY InOrderTells
<1> HIDE DEF x, y
<1>3. (x < y => y \in 1 .. y /\ y \notin 1 .. x) /\ (y < x => x \in 1 .. x /\ x \notin 1 .. y)
  BY <1>1, <1>2
<1>4. x = y
  BY <1>1, <1>2, <1>3
<1> QED BY <1>1, <1>2, <1>4 DEF x, y

\* Maps of one entry at most come in one order, the same for the same values.
LEMMA OneOrder ==
  ASSUME NEW f, NEW g, IsFiniteSet(DOMAIN f), IsFiniteSet(DOMAIN g),
         Range(f) = Range(g), Cardinality(DOMAIN f) = Cardinality(DOMAIN g),
         Cardinality(DOMAIN f) <= 1,
         NEW s \in InSomeOrder(f), NEW t \in InSomeOrder(g)
  PROVE  s = t
<1> DEFINE N == Cardinality(DOMAIN f)
<1>1. N \in Nat /\ DOMAIN s = 1 .. N /\ Range(s) = Range(f)
  BY InOrderTells
<1>2. DOMAIN t = 1 .. N /\ Range(t) = Range(f)
  BY InOrderTells
<1>3. N <= 1
  OBVIOUS
<1>4. s = [i \in DOMAIN s |-> s[i]] /\ t = [i \in DOMAIN t |-> t[i]]
  BY DEF InSomeOrder
<1> HIDE DEF N
<1>5. \A i, j \in 1 .. N : i = j
  BY <1>1, <1>3
<1>6. \A i \in 1 .. N : s[i] = t[i]
  <2> TAKE i \in 1 .. N
  <2>1. s[i] \in Range(t)
    BY <1>1, <1>2 DEF Range
  <2>2. PICK j \in 1 .. N : s[i] = t[j]
    BY <1>2, <2>1 DEF Range
  <2> QED BY <1>5, <2>2
<1> QED BY <1>1, <1>2, <1>4, <1>6

\* The options of a transform and their texts, the plotted inputs and all inputs.
LEMMA NamedByFew ==
  ASSUME NEW cfg, IsFiniteSet(DOMAIN cfg.inputs), IsFiniteSet(DOMAIN cfg.options)
  PROVE  /\ DOMAIN OptionTexts(cfg) = DOMAIN cfg.options
         /\ IsFiniteSet(DOMAIN OptionTexts(cfg)) /\ IsFiniteSet(DOMAIN PlottedInputs(cfg))
<1>1. DOMAIN PlottedInputs(cfg) \in SUBSET DOMAIN cfg.inputs
  BY DEF PlottedInputs, FirstConnections
<1>2. DOMAIN OptionTexts(cfg) = DOMAIN cfg.options
  BY DEF OptionTexts
<1> QED BY <1>1, <1>2, FS_Subset

\* What the name of a panel tells: the indicator, the texts of its options, and the
\* plotted transforms it is of.
LEMMA NamesTell ==
  ASSUME NEW a, NEW b, IsFiniteSet(DOMAIN a.inputs), IsFiniteSet(DOMAIN b.inputs),
         IsFiniteSet(DOMAIN a.options), IsFiniteSet(DOMAIN b.options),
         NEW n \in DescriptiveNames(a), n \in DescriptiveNames(b)
  PROVE  Shown(a) = Shown(b)
<1>1. PICK texts \in InSomeOrder(OptionTexts(a)), chained \in InSomeOrder(PlottedInputs(a)) :
        n = <<a.type, texts, chained>>
  BY DEF DescriptiveNames, PlottedInputs
<1>2. PICK others \in InSomeOrder(OptionTexts(b)), inputs \in InSomeOrder(PlottedInputs(b)) :
        n = <<b.type, others, inputs>>
  BY DEF DescriptiveNames, PlottedInputs
<1>3. a.type = b.type /\ texts = others /\ chained = inputs
  BY <1>1, <1>2
<1>4. /\ Range(OptionTexts(a)) = Range(OptionTexts(b))
      /\ Cardinality(DOMAIN OptionTexts(a)) = Cardinality(DOMAIN OptionTexts(b))
  BY <1>3, NamedByFew, SameOrderTells
<1>5. /\ Range(PlottedInputs(a)) = Range(PlottedInputs(b))
      /\ Cardinality(DOMAIN PlottedInputs(a)) = Cardinality(DOMAIN PlottedInputs(b))
  BY <1>3, NamedByFew, SameOrderTells
<1>6. Cardinality(DOMAIN a.options) = Cardinality(DOMAIN b.options)
  BY <1>4, NamedByFew
<1> QED BY <1>3, <1>4, <1>5, <1>6 DEF Shown

\* With one option and one plotted input at most, the name is one.
LEMMA OneName ==
  ASSUME NEW a, NEW b, IsFiniteSet(DOMAIN a.inputs), IsFiniteSet(DOMAIN b.inputs),
         IsFiniteSet(DOMAIN a.options), IsFiniteSet(DOMAIN b.options),
         Shown(a) = Shown(b), Cardinality(DOMAIN a.options) <= 1,
         Cardinality(DOMAIN PlottedInputs(a)) <= 1,
         NEW m \in DescriptiveNames(a), NEW n \in DescriptiveNames(b)
  PROVE  m = n
<1>1. PICK texts \in InSomeOrder(OptionTexts(a)), chained \in InSomeOrder(PlottedInputs(a)) :
        m = <<a.type, texts, chained>>
  BY DEF DescriptiveNames, PlottedInputs
<1>2. PICK others \in InSomeOrder(OptionTexts(b)), inputs \in InSomeOrder(PlottedInputs(b)) :
        n = <<b.type, others, inputs>>
  BY DEF DescriptiveNames, PlottedInputs
<1>3. /\ a.type = b.type /\ Range(OptionTexts(a)) = Range(OptionTexts(b))
      /\ Cardinality(DOMAIN a.options) = Cardinality(DOMAIN b.options)
      /\ Range(PlottedInputs(a)) = Range(PlottedInputs(b))
      /\ Cardinality(DOMAIN PlottedInputs(a)) = Cardinality(DOMAIN PlottedInputs(b))
  BY DEF Shown
<1>4. texts = others
  BY <1>3, NamedByFew, OneOrder
<1>5. chained = inputs
  BY <1>3, NamedByFew, OneOrder
<1> QED BY <1>1, <1>2, <1>3, <1>4, <1>5

-----------------------------------------------------------------------------
(* The invariant of the chart: what its panes, and the indices kept for outputs, *)
(* are after any number of transforms.                                           *)

\* The axes of a pane fill it, and no more of them were made than transforms handled.
AxesInOrder(pane) ==
    /\ IsList(pane.axes)
    /\ Len(pane.axes) \in 2 .. next + 1
    /\ \/ pane.axes = BaseAxes
       \/ Len(pane.axes) > 2 /\ pane.axes \in RecalculateAxisHeights(Len(pane.axes))

\* Each name has an axis of its own, beyond the base ones.
PanelsNamed(pane) ==
    /\ \A n \in DOMAIN pane.names : pane.names[n] \in 3 .. Len(pane.axes)
    /\ \A m, n \in DOMAIN pane.names : pane.names[m] = pane.names[n] => m = n

\* A link to one of the plotted inputs, if they are all of the transform's timeframe.
Follows(cfg, link) ==
    LET ids == {h[1] : h \in Range(PlottedInputs(cfg))}
    IN /\ ids # {}
       /\ \A id \in ids : Configured([id |-> id]).timeframe = cfg.timeframe
       => link \in ids

\* The series of a transform is on the axis its name was given, or linked to an
\* earlier one on the same axis.
PlacedAs(cfg, pane, i) ==
    LET s == pane.series[i]
    IN IF InitializeBuilders[cfg.kind].own
       THEN /\ s.linkedTo = None
            /\ \E n \in DescriptiveNames(cfg) :
                 n \in DOMAIN pane.names /\ pane.names[n] = s.axis
       ELSE /\ \E j \in 1 .. i - 1 :
                 pane.series[j].id = s.linkedTo /\ pane.series[j].axis = s.axis
            /\ Follows(cfg, s.linkedTo)

\* The series after the base ones are of transforms the loop has handled.
SeriesInOrder(tf, pane) ==
    /\ IsList(pane.series) /\ Len(pane.series) >= 2
    /\ pane.series[1] = BuildCandlestickSeries /\ pane.series[2] = BuildVolumeSeries
    /\ \A i \in 3 .. Len(pane.series) : \E t \in 1 .. next - 1 :
         /\ pane.series[i].id = transforms[t].id
         /\ pane.series[i].kind = transforms[t].kind
         /\ transforms[t].timeframe = tf
         /\ PlacedAs(transforms[t], pane, i)

IsPane(pane) ==
    pane = [series |-> pane.series, axes |-> pane.axes,
            names |-> pane.names, sessions |-> pane.sessions]

PaneInOrder(tf, pane) ==
    IsPane(pane) /\ AxesInOrder(pane) /\ SeriesInOrder(tf, pane)

\* The index kept for an output is that of the series of its producer, in the pane
\* of its producer.
HandlesKnown ==
    \A h \in DOMAIN handles : \E t \in 1 .. next - 1 :
       LET tf == transforms[t].timeframe
       IN /\ h[1] = transforms[t].id /\ tf \in DOMAIN panes
          /\ handles[h] \in 3 .. Len(panes[tf].series)
          /\ panes[tf].series[handles[h]].id = h[1]

\* The index of an axis is a byte: it is one's own while a pane has 256 axes at most.
FewPanels == Len(transforms) <= 254

ChartInv ==
    /\ IsCompiled(transforms)
    /\ next \in 1 .. Len(transforms) + 1
    /\ charting = "no" =>
         transforms = <<>> /\ next = 1 /\ panes = <<>> /\ handles = <<>>
    /\ charting # "thrown" => HandlesKnown
    /\ \A tf \in DOMAIN panes :
         /\ PaneInOrder(tf, panes[tf])
         /\ FewPanels => PanelsNamed(panes[tf])

-----------------------------------------------------------------------------
(* Placing one transform. *)

\* A transform is found by its id.
LEMMA FoundById ==
  ASSUME IsCompiled(transforms), NEW t \in 1 .. Len(transforms), NEW s,
         s.id = transforms[t].id
  PROVE  Configured(s) = transforms[t]
<1>1. DOMAIN transforms = 1 .. Len(transforms) /\ Len(transforms) \in Nat
  BY DEF IsCompiled, IsList
<1>2. \A i \in 1 .. Len(transforms) :
        \A j \in 1 .. i - 1 : transforms[j].id # transforms[i].id
  BY DEF IsCompiled
<1>3. ASSUME NEW i \in 1 .. Len(transforms), transforms[i].id = s.id PROVE i = t
  <2>1. ~(i < t) /\ ~(t < i)
    <3>1. (i < t => i \in 1 .. t - 1) /\ (t < i => t \in 1 .. i - 1)
      BY <1>1
    <3> QED BY <1>2, <1>3, <3>1
  <2> QED BY <1>1, <2>1
<1> DEFINE c == CHOOSE i \in DOMAIN transforms : transforms[i].id = s.id
<1>4. c \in 1 .. Len(transforms) /\ transforms[c].id = s.id
  BY <1>1
<1>5. c = t
  <2> HIDE DEF c
  <2> QED BY <1>3, <1>4
<1> QED BY <1>5 DEF Configured

\* A series that needs no axis of its own goes on that of an earlier one.
LEMMA LinkedPlace ==
  ASSUME ChartInv, charting # "thrown", NEW cfg, cfg = transforms[next],
         next \in 1 .. Len(transforms), NEW tf, tf = cfg.timeframe, tf \in DOMAIN panes,
         NEW pane, pane.series = panes[tf].series,
         NEW link \in DetermineAxisFromInputs(cfg, pane)
  PROVE  /\ \E j \in 1 .. Len(pane.series) :
              pane.series[j].id = link /\ pane.series[j].axis = AxisOf(pane, link)
         /\ Follows(cfg, link)
<1> DEFINE known == {h \in DOMAIN handles : handles[h] <= Len(pane.series)}
           firsts == FirstConnections(cfg, known)
           chained == Range(firsts)
<1>1. /\ IsList(pane.series) /\ Len(pane.series) >= 2
      /\ DOMAIN pane.series = 1 .. Len(pane.series) /\ Len(pane.series) \in Nat
  BY DEF ChartInv, PaneInOrder, SeriesInOrder, IsList
<1>2. /\ \A k \in DOMAIN cfg.inputs : IsList(cfg.inputs[k])
      /\ IsCompiled(transforms) /\ HandlesKnown
  BY DEF ChartInv, IsCompiled
<1>3. chained \subseteq known
  BY <1>2, FirstsAreGood
<1>4. \A h \in known : handles[h] \in 1 .. Len(pane.series)
  BY <1>1, <1>2 DEF HandlesKnown
<1>5. /\ chained # {} => \E h \in chained : link = pane.series[handles[h]].id
      /\ chained = {} => link = pane.series[1].id \/ link = pane.series[2].id
  BY DEF DetermineAxisFromInputs
<1> HIDE DEF chained
<1>6. PICK j \in 1 .. Len(pane.series) : pane.series[j].id = link
  BY <1>1, <1>3, <1>4, <1>5
<1>7. \E i \in 1 .. Len(pane.series) :
        pane.series[i].id = link /\ pane.series[i].axis = AxisOf(pane, link)
  <2> DEFINE i == CHOOSE x \in DOMAIN pane.series : pane.series[x].id = link
  <2>1. i \in 1 .. Len(pane.series) /\ pane.series[i].id = link
    BY <1>1, <1>6
  <2>2. AxisOf(pane, link) = pane.series[i].axis
    BY DEF AxisOf
  <2> HIDE DEF i
  <2> QED BY <2>1, <2>2
<1>8. Follows(cfg, link)
  <2> DEFINE plotted == Range(PlottedInputs(cfg))
             ids == {h[1] : h \in plotted}
  <2> SUFFICES ASSUME ids # {},
                      \A id \in ids : Configured([id |-> id]).timeframe = tf
               PROVE  link \in ids
    BY DEF Follows
  <2>1. plotted \subseteq DOMAIN handles
    BY <1>2, FirstsAreGood DEF PlottedInputs
  <2>2. ASSUME NEW h \in plotted
        PROVE  h \in known /\ pane.series[handles[h]].id = h[1]
    <3>1. PICK t \in 1 .. next - 1 :
            /\ h[1] = transforms[t].id
            /\ transforms[t].timeframe \in DOMAIN panes
            /\ handles[h] \in 3 .. Len(panes[transforms[t].timeframe].series)
            /\ panes[transforms[t].timeframe].series[handles[h]].id = h[1]
      BY <1>2, <2>1, <2>2 DEF HandlesKnown
    <3>2. t \in 1 .. Len(transforms)
      BY <1>2 DEF IsCompiled, IsList
    <3>3. Configured([id |-> h[1]]) = transforms[t]
      BY <1>2, <3>1, <3>2, FoundById
    <3>4. transforms[t].timeframe = tf
      BY <2>2, <3>3
    <3> QED BY <1>1, <2>1, <3>1, <3>4
  <2>3. firsts = PlottedInputs(cfg)
    <3>1. known \in SUBSET (DOMAIN handles) /\ plotted \subseteq known
      BY <2>2
    <3> QED BY <1>2, <3>1, FirstsAreGood DEF PlottedInputs
  <2>4. chained = plotted
    BY <2>3 DEF chained
  <2> HIDE DEF plotted, known, firsts
  <2>5. PICK h \in plotted : link = pane.series[handles[h]].id
    BY <1>5, <2>4
  <2> QED BY <2>2, <2>5
<1> QED BY <1>7, <1>8

\* The pane keeps all it has when an axis is found or created for a name, and has
\* one for the name then.
LEMMA AxisForName ==
  ASSUME NEW pane, IsPane(pane), AxesInOrder(pane), next \in Nat, NEW name,
         NEW q \in FindOrCreateIndicatorAxis(pane, name)
  PROVE  /\ IsPane(q) /\ q.series = pane.series
         /\ name \in DOMAIN q.names
         /\ \A n \in DOMAIN pane.names : n \in DOMAIN q.names /\ q.names[n] = pane.names[n]
         /\ IsList(q.axes) /\ Len(q.axes) \in 2 .. next + 2
         /\ \/ q.axes = BaseAxes
            \/ Len(q.axes) > 2 /\ q.axes \in RecalculateAxisHeights(Len(q.axes))
         /\ PanelsNamed(pane) /\ next <= 254 => PanelsNamed(q)
<1>1. /\ IsList(pane.axes) /\ Len(pane.axes) \in 2 .. next + 1
      /\ \/ pane.axes = BaseAxes
         \/ Len(pane.axes) > 2 /\ pane.axes \in RecalculateAxisHeights(Len(pane.axes))
  BY DEF AxesInOrder
<1>2. CASE name \in DOMAIN pane.names
  <2>1. q = pane
    BY <1>2 DEF FindOrCreateIndicatorAxis
  <2>2. Len(pane.axes) \in 2 .. next + 2
    BY <1>1
  <2> QED BY <1>1, <1>2, <2>1, <2>2
<1>3. CASE name \notin DOMAIN pane.names
  <2> DEFINE l == Len(pane.axes)
             index == (l % 256) + 1
             names == [x \in DOMAIN pane.names \cup {name} |->
                         IF x = name THEN index ELSE pane.names[x]]
  <2>1. PICK axes \in RecalculateAxisHeights(l + 1) :
          q = [pane EXCEPT !.axes = axes, !.names = names]
    BY <1>3 DEF FindOrCreateIndicatorAxis
  <2>2. q = [series |-> pane.series, axes |-> axes, names |-> names,
             sessions |-> pane.sessions]
    <3> HIDE DEF names
    <3> QED BY <2>1 DEF IsPane
  <2>3. /\ q.series = pane.series /\ q.axes = axes /\ q.names = names
        /\ q.sessions = pane.sessions
    <3> HIDE DEF names
    <3> QED BY <2>2
  <2>4. IsPane(q)
    BY <2>2, <2>3 DEF IsPane
  <2>5. l \in Nat /\ l >= 2 /\ l <= next + 1
    BY <1>1
  <2>6. IsList(axes) /\ Len(axes) = l + 1
    BY <2>5, AxesLieInOrder
  <2>7. /\ DOMAIN q.names = DOMAIN pane.names \cup {name}
        /\ \A n \in DOMAIN pane.names : q.names[n] = pane.names[n]
        /\ q.names[name] = index
    BY <1>3, <2>3
  <2>8. ASSUME PanelsNamed(pane), next <= 254 PROVE PanelsNamed(q)
    <3>1. index = l + 1
      <4> HIDE DEF l
      <4>1. l % 256 = l
        BY <2>5, <2>8
      <4> QED BY <4>1
    <3>2. \A n \in DOMAIN pane.names : pane.names[n] \in 3 .. l
      BY <2>8 DEF PanelsNamed
    <3>3. \A m, n \in DOMAIN pane.names : pane.names[m] = pane.names[n] => m = n
      BY <2>8 DEF PanelsNamed
    <3> HIDE DEF index, l
    <3>4. Len(q.axes) = l + 1
      BY <2>3, <2>6
    <3>5. \A n \in DOMAIN pane.names : q.names[n] \in 3 .. l /\ q.names[n] # l + 1
      BY <2>5, <2>7, <3>2
    <3>6. \A n \in DOMAIN q.names : q.names[n] \in 3 .. Len(q.axes)
      BY <2>5, <2>7, <3>1, <3>4, <3>5
    <3>7. \A m, n \in DOMAIN q.names : q.names[m] = q.names[n] => m = n
      BY <2>7, <3>1, <3>3, <3>5
    <3> QED BY <3>6, <3>7 DEF PanelsNamed
  <2>9. Len(q.axes) \in 2 .. next + 2 /\ Len(q.axes) > 2
    BY <2>3, <2>5, <2>6
  <2>10. q.axes \in RecalculateAxisHeights(Len(q.axes)) /\ IsList(q.axes)
    BY <2>1, <2>3, <2>6
  <2> QED BY <2>3, <2>4, <2>7, <2>8, <2>9, <2>10
<1> QED BY <1>2, <1>3

\* A pane with one series more, that of a transform, placed as it has to be.
Grown(old, cfg, p) ==
    LET new == Len(old.series) + 1
    IN /\ IsPane(p)
       /\ IsList(p.series) /\ Len(p.series) = new
       /\ \A i \in 1 .. Len(old.series) : p.series[i] = old.series[i]
       /\ p.series[new].id = cfg.id /\ p.series[new].kind = cfg.kind
       /\ PlacedAs(cfg, p, new)
       /\ \A n \in DOMAIN old.names : n \in DOMAIN p.names /\ p.names[n] = old.names[n]
       /\ IsList(p.axes) /\ Len(p.axes) \in 2 .. next + 2
       /\ \/ p.axes = BaseAxes
          \/ Len(p.axes) > 2 /\ p.axes \in RecalculateAxisHeights(Len(p.axes))
       /\ FewPanels => PanelsNamed(p)

\* What placing a transform leaves is such a pane.
LEMMA PlacedPane ==
  ASSUME ChartInv, Going, charting # "thrown", NEW cfg, cfg = transforms[next],
         NEW tf, tf = cfg.timeframe, tf \in DOMAIN panes, NEW p \in Placed(cfg, Pane(cfg))
  PROVE  Grown(panes[tf], cfg, p)
<1> DEFINE old == panes[tf]
           pane == Pane(cfg)
           l == Len(old.series)
           b == InitializeBuilders[cfg.kind]
           Entry(axis, link) == Series(cfg.id, cfg.kind, b.z, axis, link)
           Add(q, axis, link) == [q EXCEPT !.series = Append(@, Entry(axis, link))]
<1>1. /\ PaneInOrder(tf, old) /\ (FewPanels => PanelsNamed(old))
      /\ next \in 1 .. Len(transforms) /\ Len(transforms) \in Nat
  BY DEF ChartInv, Going, IsCompiled, IsList
<1>2. /\ IsPane(old) /\ AxesInOrder(old) /\ IsList(old.series) /\ l \in Nat /\ l >= 2
      /\ DOMAIN old.series = 1 .. l
  BY <1>1 DEF PaneInOrder, SeriesInOrder, IsList
<1>3. /\ IsPane(pane) /\ pane.series = old.series /\ pane.axes = old.axes
      /\ pane.names = old.names
  <2>1. pane = [old EXCEPT !.sessions = old.sessions \cup cfg.session]
    BY DEF Pane
  <2>2. pane = [series |-> old.series, axes |-> old.axes, names |-> old.names,
                sessions |-> old.sessions \cup cfg.session]
    BY <1>2, <2>1 DEF IsPane
  <2> HIDE DEF pane
  <2> QED BY <2>2 DEF IsPane
<1> HIDE DEF pane, old
<1>4. AxesInOrder(pane) /\ (FewPanels => PanelsNamed(pane))
  BY <1>1, <1>2, <1>3 DEF AxesInOrder, PanelsNamed
<1>5. \/ /\ b.own
         /\ \E name \in DescriptiveNames(cfg) : \E q \in FindOrCreateIndicatorAxis(pane, name) :
              p = Add(q, q.names[name], None)
      \/ /\ ~b.own
         /\ \E link \in DetermineAxisFromInputs(cfg, pane) :
              p = Add(pane, AxisOf(pane, link), link)
  BY DEF Placed, pane
<1>6. ASSUME NEW q, IsPane(q), q.series = old.series, NEW axis, NEW link, p = Add(q, axis, link)
      PROVE  /\ IsPane(p) /\ p.axes = q.axes /\ p.names = q.names
             /\ IsList(p.series) /\ Len(p.series) = l + 1
             /\ \A i \in 1 .. l : p.series[i] = old.series[i]
             /\ p.series[l + 1] = Entry(axis, link)
  <2> DEFINE entry == Entry(axis, link)
  <2> HIDE DEF entry
  <2>1. p = [q EXCEPT !.series = Append(q.series, entry)]
    BY <1>6 DEF entry
  <2>2. p = [series |-> Append(q.series, entry), axes |-> q.axes, names |-> q.names,
             sessions |-> q.sessions]
    BY <1>6, <2>1 DEF IsPane
  <2>3. /\ p.series = Append(old.series, entry) /\ p.axes = q.axes /\ p.names = q.names
        /\ IsPane(p)
    <3> DEFINE series == Append(q.series, entry)
    <3>1. p = [series |-> series, axes |-> q.axes, names |-> q.names,
               sessions |-> q.sessions]
      BY <2>2
    <3> HIDE DEF series
    <3>2. /\ p.series = series /\ p.axes = q.axes /\ p.names = q.names
          /\ p.sessions = q.sessions
      BY <3>1
    <3>3. IsPane(p)
      BY <3>1, <3>2 DEF IsPane
    <3> QED BY <1>6, <3>2, <3>3 DEF series
  <2>4. /\ IsList(Append(old.series, entry)) /\ Len(Append(old.series, entry)) = l + 1
        /\ Append(old.series, entry)[l + 1] = entry
        /\ \A i \in 1 .. l : Append(old.series, entry)[i] = old.series[i]
    BY <1>2, Lists
  <2> QED BY <2>3, <2>4 DEF entry
<1>7. \A axis, link : /\ Entry(axis, link).id = cfg.id /\ Entry(axis, link).kind = cfg.kind
                      /\ Entry(axis, link).axis = axis /\ Entry(axis, link).linkedTo = link
  BY DEF Series
<1> HIDE DEF Entry
<1>8. CASE b.own
  <2>0. PICK name \in DescriptiveNames(cfg) :
          \E q \in FindOrCreateIndicatorAxis(pane, name) : p = Add(q, q.names[name], None)
    BY <1>5, <1>8
  <2>1. PICK q \in FindOrCreateIndicatorAxis(pane, name) : p = Add(q, q.names[name], None)
    BY <2>0
  <2>2. /\ IsPane(q) /\ q.series = pane.series
        /\ name \in DOMAIN q.names
        /\ \A n \in DOMAIN pane.names : n \in DOMAIN q.names /\ q.names[n] = pane.names[n]
        /\ IsList(q.axes) /\ Len(q.axes) \in 2 .. next + 2
        /\ \/ q.axes = BaseAxes
           \/ Len(q.axes) > 2 /\ q.axes \in RecalculateAxisHeights(Len(q.axes))
        /\ PanelsNamed(pane) /\ next <= 254 => PanelsNamed(q)
    BY <1>1, <1>3, <1>4, AxisForName
  <2>3. /\ IsPane(p) /\ p.axes = q.axes /\ p.names = q.names
        /\ IsList(p.series) /\ Len(p.series) = l + 1
        /\ \A i \in 1 .. l : p.series[i] = old.series[i]
        /\ p.series[l + 1] = Entry(q.names[name], None)
    BY <1>3, <1>6, <2>1, <2>2
  <2>4. PlacedAs(cfg, p, l + 1)
    BY <1>7, <1>8, <2>2, <2>3 DEF PlacedAs
  <2>5. FewPanels => PanelsNamed(p)
    <3>1. FewPanels => next <= 254
      BY <1>1 DEF FewPanels
    <3> QED BY <1>4, <2>2, <2>3, <3>1 DEF PanelsNamed
  <2> QED BY <1>3, <1>7, <2>2, <2>3, <2>4, <2>5 DEF old, Grown
<1>9. CASE ~b.own
  <2>1. PICK link \in DetermineAxisFromInputs(cfg, pane) : p = Add(pane, AxisOf(pane, link), link)
    BY <1>5, <1>9
  <2>2. /\ \E j \in 1 .. Len(pane.series) :
              pane.series[j].id = link /\ pane.series[j].axis = AxisOf(pane, link)
        /\ Follows(cfg, link)
    BY <1>1, <1>3, LinkedPlace DEF old
  <2>3. /\ IsPane(p) /\ p.axes = pane.axes /\ p.names = pane.names
        /\ IsList(p.series) /\ Len(p.series) = l + 1
        /\ \A i \in 1 .. l : p.series[i] = old.series[i]
        /\ p.series[l + 1] = Entry(AxisOf(pane, link), link)
    BY <1>3, <1>6, <2>1
  <2>4. PlacedAs(cfg, p, l + 1)
    <3>1. \E j \in 1 .. l + 1 - 1 : p.series[j].id = link /\ p.series[j].axis = AxisOf(pane, link)
      BY <1>2, <1>3, <2>2, <2>3
    <3> QED BY <1>7, <1>9, <2>2, <2>3, <3>1, SMTT(30) DEF PlacedAs
  <2>5. /\ IsList(p.axes) /\ Len(p.axes) \in 2 .. next + 2
        /\ \/ p.axes = BaseAxes
           \/ Len(p.axes) > 2 /\ p.axes \in RecalculateAxisHeights(Len(p.axes))
    BY <1>1, <1>4, <2>3 DEF AxesInOrder
  <2>6. FewPanels => PanelsNamed(p)
    BY <1>4, <2>3 DEF PanelsNamed
  <2> QED BY <1>3, <1>7, <2>3, <2>4, <2>5, <2>6 DEF old, Grown
<1> QED BY <1>8, <1>9

-----------------------------------------------------------------------------
(* The steps of the loop. *)

\* A series stays placed as it has to be, as long as its transform has the same
\* plotted inputs and its pane only grows.
LEMMA PlacedStays ==
  ASSUME NEW c, NEW pane, NEW other, NEW i \in Nat, i > 0, PlacedAs(c, pane, i),
         FirstConnections(c, DOMAIN handles') = FirstConnections(c, DOMAIN handles),
         transforms' = transforms,
         \A j \in 1 .. i : other.series[j] = pane.series[j],
         \A n \in DOMAIN pane.names : n \in DOMAIN other.names /\ other.names[n] = pane.names[n]
  PROVE  PlacedAs(c, other, i)'
<1>1. DescriptiveNames(c)' = DescriptiveNames(c)
  BY DEF DescriptiveNames
<1>2. PlottedInputs(c)' = PlottedInputs(c)
  BY DEF PlottedInputs
<1>3. \A x : Configured(x)' = Configured(x)
  BY DEF Configured
<1>4. \A link : Follows(c, link)' <=> Follows(c, link)
  BY <1>2, <1>3 DEF Follows
<1>5. i \in 1 .. i /\ \A j \in 1 .. i - 1 : j \in 1 .. i
  OBVIOUS
<1>6. CASE InitializeBuilders[c.kind].own
  <2>1. /\ pane.series[i].linkedTo = None
        /\ \E n \in DescriptiveNames(c) :
             n \in DOMAIN pane.names /\ pane.names[n] = pane.series[i].axis
    BY <1>6 DEF PlacedAs
  <2>2. /\ other.series[i].linkedTo = None
        /\ \E n \in DescriptiveNames(c) :
             n \in DOMAIN other.names /\ other.names[n] = other.series[i].axis
    BY <1>5, <2>1
  <2> QED BY <1>1, <1>6, <2>2 DEF PlacedAs
<1>7. CASE ~InitializeBuilders[c.kind].own
  <2>1. /\ \E j \in 1 .. i - 1 : /\ pane.series[j].id = pane.series[i].linkedTo
                                 /\ pane.series[j].axis = pane.series[i].axis
        /\ Follows(c, pane.series[i].linkedTo)
    BY <1>7 DEF PlacedAs
  <2>2. /\ \E j \in 1 .. i - 1 : /\ other.series[j].id = other.series[i].linkedTo
                                 /\ other.series[j].axis = other.series[i].axis
        /\ Follows(c, other.series[i].linkedTo)
    BY <1>5, <2>1
  <2>3. Follows(c, other.series[i].linkedTo)'
    BY <1>4, <2>2
  <2> QED BY <1>7, <2>2, <2>3 DEF PlacedAs
<1> QED BY <1>6, <1>7

\* One transform more is handled, and the ones before it see no other plotted inputs.
LEMMA SeriesStay ==
  ASSUME NEW tf, NEW pane, NEW other, SeriesInOrder(tf, pane), IsList(other.series),
         Len(other.series) >= Len(pane.series),
         \A i \in 1 .. Len(pane.series) : other.series[i] = pane.series[i],
         \A n \in DOMAIN pane.names : n \in DOMAIN other.names /\ other.names[n] = pane.names[n],
         next \in Nat \ {0}, next' = next + 1, transforms' = transforms,
         \A t \in 1 .. next - 1 :
            FirstConnections(transforms[t], DOMAIN handles')
              = FirstConnections(transforms[t], DOMAIN handles),
         NEW c, c = transforms[next],
         \A i \in Len(pane.series) + 1 .. Len(other.series) :
            /\ other.series[i].id = c.id /\ other.series[i].kind = c.kind
            /\ c.timeframe = tf /\ PlacedAs(c, other, i)'
  PROVE  SeriesInOrder(tf, other)'
<1> DEFINE l == Len(pane.series)
<1>1. /\ IsList(pane.series) /\ Len(pane.series) >= 2
      /\ pane.series[1] = BuildCandlestickSeries /\ pane.series[2] = BuildVolumeSeries
      /\ \A i \in 3 .. Len(pane.series) : \E t \in 1 .. next - 1 :
           /\ pane.series[i].id = transforms[t].id
           /\ pane.series[i].kind = transforms[t].kind
           /\ transforms[t].timeframe = tf
           /\ PlacedAs(transforms[t], pane, i)
  BY DEF SeriesInOrder
<1>2. l \in Nat /\ l >= 2 /\ Len(other.series) \in Nat
  BY <1>1 DEF IsList
<1>3. ASSUME NEW i \in 3 .. Len(other.series)
      PROVE  \E t \in 1 .. next' - 1 :
               /\ other.series[i].id = transforms'[t].id
               /\ other.series[i].kind = transforms'[t].kind
               /\ transforms'[t].timeframe = tf
               /\ PlacedAs(transforms[t], other, i)'
  <2>1. CASE i <= l
    <3>1. i \in 3 .. l
      BY <1>2, <2>1
    <3>2. PICK t \in 1 .. next - 1 :
             /\ pane.series[i].id = transforms[t].id
             /\ pane.series[i].kind = transforms[t].kind
             /\ transforms[t].timeframe = tf
             /\ PlacedAs(transforms[t], pane, i)
      BY <1>1, <3>1
    <3>3. i \in Nat /\ i > 0 /\ other.series[i] = pane.series[i]
          /\ \A j \in 1 .. i : other.series[j] = pane.series[j]
      <4> HIDE DEF l
      <4>1. i \in Nat /\ i > 0 /\ i \in 1 .. l /\ \A j \in 1 .. i : j \in 1 .. l
        BY <1>2, <2>1
      <4> QED BY <4>1 DEF l
    <3>4. PlacedAs(transforms[t], other, i)'
      BY <3>2, <3>3, PlacedStays
    <3>5. t \in 1 .. next' - 1
      OBVIOUS
    <3> QED BY <3>2, <3>3, <3>4, <3>5
  <2>2. CASE i > l
    <3>1. i \in Len(pane.series) + 1 .. Len(other.series)
      <4> HIDE DEF l
      <4>1. i \in l + 1 .. Len(other.series)
        BY <1>2, <2>2
      <4> QED BY <4>1 DEF l
    <3>2. PICK t \in 1 .. next' - 1 : t = next
      OBVIOUS
    <3>3. transforms'[t] = c
      BY <3>2
    <3>4. PlacedAs(transforms[t], other, i)'
      BY <3>1, <3>3
    <3> QED BY <3>1, <3>2, <3>3, <3>4
  <2> QED BY <1>2, <2>1, <2>2
<1>4. 1 \in 1 .. l /\ 2 \in 1 .. l /\ Len(other.series) >= 2
  BY <1>2
<1> QED BY <1>1, <1>3, <1>4 DEF SeriesInOrder

\* A pane with the same series, axes and names is in order after one transform more.
LEMMA PaneStays ==
  ASSUME NEW tf, NEW pane, NEW other, PaneInOrder(tf, pane), IsPane(other),
         other.series = pane.series, other.axes = pane.axes, other.names = pane.names,
         next \in Nat \ {0}, next' = next + 1, transforms' = transforms,
         \A t \in 1 .. next - 1 :
            FirstConnections(transforms[t], DOMAIN handles')
              = FirstConnections(transforms[t], DOMAIN handles)
  PROVE  /\ PaneInOrder(tf, other)'
         /\ PanelsNamed(pane) => PanelsNamed(other)
<1>1. AxesInOrder(other)'
  <2>1. /\ IsList(pane.axes) /\ Len(pane.axes) \in 2 .. next + 1
        /\ \/ pane.axes = BaseAxes
           \/ Len(pane.axes) > 2 /\ pane.axes \in RecalculateAxisHeights(Len(pane.axes))
    BY DEF PaneInOrder, AxesInOrder
  <2>2. Len(pane.axes) \in 2 .. next' + 1
    BY <2>1
  <2> QED BY <2>1, <2>2 DEF AxesInOrder
<1>2. SeriesInOrder(tf, other)'
  <2>1. SeriesInOrder(tf, pane) /\ IsList(pane.series) /\ Len(pane.series) \in Nat
    BY DEF PaneInOrder, SeriesInOrder, IsList
  <2>2. \A i \in Len(pane.series) + 1 .. Len(other.series) : FALSE
    BY <2>1
  <2>3. /\ IsList(other.series) /\ Len(other.series) >= Len(pane.series)
        /\ \A i \in 1 .. Len(pane.series) : other.series[i] = pane.series[i]
        /\ \A n \in DOMAIN pane.names :
             n \in DOMAIN other.names /\ other.names[n] = pane.names[n]
    BY <2>1
  <2> DEFINE c == transforms[next]
  <2> QED BY <2>1, <2>2, <2>3, SeriesStay
<1>3. PanelsNamed(pane) => PanelsNamed(other)
  BY DEF PanelsNamed
<1> QED BY <1>1, <1>2, <1>3 DEF PaneInOrder

\* Whatever the loop does to one transform changes no plotted input of those before.
LEMMA FirstsStay ==
  ASSUME ChartInv, NEW new, \A h \in new : h[1] = transforms[next].id,
         next \in 1 .. Len(transforms), NEW t \in 1 .. next
  PROVE  FirstConnections(transforms[t], DOMAIN handles \cup new)
           = FirstConnections(transforms[t], DOMAIN handles)
<1>1. Len(transforms) \in Nat
  BY DEF ChartInv, IsCompiled, IsList
<1>2. t \in 1 .. Len(transforms) /\ next \in t .. Len(transforms)
  BY <1>1
<1>3. \A h \in InputHandles(transforms[t]) : h[1] # transforms[next].id
  BY <1>2 DEF ChartInv, IsCompiled
<1>4. \A h \in InputHandles(transforms[t]) :
        h \in DOMAIN handles \cup new <=> h \in DOMAIN handles
  BY <1>3
<1> QED BY <1>4, SameFirsts

\* While the loop is under way, the pane it is at is in order.
LEMMA UnderWay ==
  ASSUME ChartInv, Going
  PROVE  /\ Len(transforms) \in Nat /\ next \in 1 .. Len(transforms) /\ charting = "busy"
         /\ IsCompiled(transforms) /\ HandlesKnown
         /\ \A tf \in DOMAIN panes :
              PaneInOrder(tf, panes[tf]) /\ (FewPanels => PanelsNamed(panes[tf]))
<1>1. charting = "busy" /\ next <= Len(transforms)
  BY DEF Going
<1>2. /\ IsCompiled(transforms) /\ next \in 1 .. Len(transforms) + 1 /\ HandlesKnown
      /\ \A tf \in DOMAIN panes :
           PaneInOrder(tf, panes[tf]) /\ (FewPanels => PanelsNamed(panes[tf]))
  BY <1>1 DEF ChartInv
<1>3. Len(transforms) \in Nat
  BY <1>2 DEF IsCompiled, IsList
<1> QED BY <1>1, <1>2, <1>3

\* A step over a transform without a plot.
LEMMA NotPlotted ==
  ASSUME ChartInv, Going, transforms' = transforms, handles' = handles, charting' = charting,
         next' = next + 1, DOMAIN panes' = DOMAIN panes,
         \A tf \in DOMAIN panes :
            /\ IsPane(panes[tf]) => IsPane(panes'[tf])
            /\ IsPane(panes[tf]) => /\ panes'[tf].series = panes[tf].series
                                    /\ panes'[tf].axes = panes[tf].axes
                                    /\ panes'[tf].names = panes[tf].names
  PROVE  ChartInv'
<1>1. /\ Len(transforms) \in Nat /\ next \in 1 .. Len(transforms) /\ charting = "busy"
      /\ IsCompiled(transforms) /\ HandlesKnown
      /\ \A tf \in DOMAIN panes :
           PaneInOrder(tf, panes[tf]) /\ (FewPanels => PanelsNamed(panes[tf]))
  BY UnderWay
<1>2. \A tf \in DOMAIN panes :
        /\ IsPane(panes'[tf]) /\ panes'[tf].series = panes[tf].series
        /\ panes'[tf].axes = panes[tf].axes /\ panes'[tf].names = panes[tf].names
  BY <1>1 DEF PaneInOrder
<1>3. HandlesKnown'
  <2> SUFFICES ASSUME NEW h \in DOMAIN handles
               PROVE  \E t \in 1 .. next' - 1 :
                        LET tf == transforms[t].timeframe
                        IN /\ h[1] = transforms[t].id /\ tf \in DOMAIN panes
                           /\ handles[h] \in 3 .. Len(panes'[tf].series)
                           /\ panes'[tf].series[handles[h]].id = h[1]
    BY DEF HandlesKnown
  <2>1. PICK t \in 1 .. next - 1 :
          LET tf == transforms[t].timeframe
          IN /\ h[1] = transforms[t].id /\ tf \in DOMAIN panes
             /\ handles[h] \in 3 .. Len(panes[tf].series)
             /\ panes[tf].series[handles[h]].id = h[1]
    BY <1>1 DEF HandlesKnown
  <2>2. t \in 1 .. next' - 1
    BY <1>1
  <2> QED BY <1>2, <2>1, <2>2
<1>4. ASSUME NEW tf \in DOMAIN panes
      PROVE  /\ PaneInOrder(tf, panes[tf])'
             /\ (FewPanels => PanelsNamed(panes[tf]))'
  <2> DEFINE q == panes'[tf]
  <2>1. PaneInOrder(tf, panes[tf]) /\ (FewPanels => PanelsNamed(panes[tf])) /\ next \in Nat \ {0}
    BY <1>1
  <2>2. PICK other : other = panes'[tf]
    OBVIOUS
  <2>3. /\ IsPane(other) /\ other.series = panes[tf].series
        /\ other.axes = panes[tf].axes /\ other.names = panes[tf].names
    BY <1>2, <2>2
  <2>4. PaneInOrder(tf, other)' /\ (PanelsNamed(panes[tf]) => PanelsNamed(other))
    BY <2>1, <2>3, PaneStays
  <2> QED BY <2>1, <2>2, <2>4 DEF FewPanels
<1>5. next' \in 1 .. Len(transforms') + 1
  BY <1>1
<1> QED BY <1>1, <1>3, <1>4, <1>5 DEF ChartInv

\* A transform that leaves its session only.
LEMMA AddSessionKeeps == ChartInv /\ AddSession => ChartInv'
<1> SUFFICES ASSUME ChartInv, AddSession PROVE ChartInv'
  OBVIOUS
<1> DEFINE cfg == transforms[next]
<1>1. panes' = [panes EXCEPT ![cfg.timeframe] = Pane(cfg)] /\ cfg.timeframe \in DOMAIN panes
  BY DEF AddSession
<1>2. ASSUME NEW tf \in DOMAIN panes, IsPane(panes[tf])
      PROVE  /\ IsPane(panes'[tf]) /\ panes'[tf].series = panes[tf].series
             /\ panes'[tf].axes = panes[tf].axes /\ panes'[tf].names = panes[tf].names
  <2>1. CASE tf = cfg.timeframe
    <3>1. panes'[tf] = [series |-> panes[tf].series, axes |-> panes[tf].axes,
                        names |-> panes[tf].names,
                        sessions |-> panes[tf].sessions \cup cfg.session]
      <4>1. panes'[tf] = [panes[tf] EXCEPT !.sessions = panes[tf].sessions \cup cfg.session]
        BY <1>1, <2>1 DEF Pane
      <4> QED BY <1>2, <4>1 DEF IsPane
    <3> QED BY <3>1 DEF IsPane
  <2>2. CASE tf # cfg.timeframe
    BY <1>1, <1>2, <2>2
  <2> QED BY <2>1, <2>2
<1>3. DOMAIN panes' = DOMAIN panes
  BY <1>1
<1> QED BY <1>2, <1>3, NotPlotted DEF AddSession

\* A transform that is plotted: one pane grows by its series, and its outputs are
\* known where that series is.
LEMMA AddSeriesKeeps == ChartInv /\ AddSeries => ChartInv'
<1> SUFFICES ASSUME ChartInv, AddSeries PROVE ChartInv'
  OBVIOUS
<1>1. PICK cfg : cfg = transforms[next]
  OBVIOUS
<1> DEFINE outs == {<<cfg.id, o>> : o \in cfg.outputs}
<1>2. PICK tf : tf = cfg.timeframe
  OBVIOUS
<1>3. PICK p \in Placed(transforms[next], Pane(transforms[next])) :
        /\ panes' = [panes EXCEPT ![transforms[next].timeframe] = p]
        /\ handles' = [h \in DOMAIN handles
                               \cup {<<transforms[next].id, o>> : o \in transforms[next].outputs} |->
                         IF h \in {<<transforms[next].id, o>> : o \in transforms[next].outputs}
                         THEN Len(p.series) ELSE handles[h]]
  BY DEF AddSeries
<1>4. /\ Going /\ charting = "busy" /\ tf \in DOMAIN panes /\ next' = next + 1
      /\ UNCHANGED <<transforms, charting>>
  BY <1>1, <1>2 DEF AddSeries, Going
<1>5. /\ Len(transforms) \in Nat /\ next \in 1 .. Len(transforms) /\ next \in Nat \ {0}
      /\ IsCompiled(transforms) /\ HandlesKnown
      /\ \A x \in DOMAIN panes :
           PaneInOrder(x, panes[x]) /\ (FewPanels => PanelsNamed(panes[x]))
  BY <1>4, UnderWay
<1>6. /\ p \in Placed(cfg, Pane(cfg))
      /\ DOMAIN panes' = DOMAIN panes /\ panes'[tf] = p
      /\ \A x \in DOMAIN panes : x # tf => panes'[x] = panes[x]
      /\ DOMAIN handles' = DOMAIN handles \cup outs
      /\ \A h \in outs : handles'[h] = Len(p.series)
      /\ \A h \in DOMAIN handles \ outs : handles'[h] = handles[h]
  <2>1. p \in Placed(cfg, Pane(cfg))
    BY <1>1, <1>3
  <2>2. /\ DOMAIN panes' = DOMAIN panes /\ panes'[tf] = p
        /\ \A x \in DOMAIN panes : x # tf => panes'[x] = panes[x]
    BY <1>1, <1>2, <1>3, <1>4
  <2>3. {<<transforms[next].id, o>> : o \in transforms[next].outputs} = outs
    BY <1>1
  <2>4. /\ DOMAIN handles' = DOMAIN handles \cup outs
        /\ \A h \in outs : handles'[h] = Len(p.series)
        /\ \A h \in DOMAIN handles \ outs : handles'[h] = handles[h]
    <3> HIDE DEF outs
    <3> QED BY <1>3, <2>3
  <2> QED BY <2>1, <2>2, <2>4
<1>7. \A t \in 1 .. next : FirstConnections(transforms[t], DOMAIN handles')
                             = FirstConnections(transforms[t], DOMAIN handles)
  <2>1. DOMAIN handles' = DOMAIN handles \cup outs
    BY <1>6
  <2>2. \A h \in outs : h[1] = transforms[next].id
    BY <1>1
  <2> HIDE DEF outs
  <2> QED BY <1>5, <2>1, <2>2, FirstsStay
<1>8. PICK old, new : old = panes[tf] /\ new = Len(old.series) + 1
  OBVIOUS
<1>9. /\ IsPane(p)
      /\ IsList(p.series) /\ Len(p.series) = new
      /\ \A i \in 1 .. Len(old.series) : p.series[i] = old.series[i]
      /\ p.series[new].id = cfg.id /\ p.series[new].kind = cfg.kind
      /\ PlacedAs(cfg, p, new)
      /\ \A n \in DOMAIN old.names : n \in DOMAIN p.names /\ p.names[n] = old.names[n]
      /\ IsList(p.axes) /\ Len(p.axes) \in 2 .. next + 2
      /\ \/ p.axes = BaseAxes
         \/ Len(p.axes) > 2 /\ p.axes \in RecalculateAxisHeights(Len(p.axes))
      /\ FewPanels => PanelsNamed(p)
  <2>1. p \in Placed(cfg, Pane(cfg)) /\ charting # "thrown" /\ Going /\ tf \in DOMAIN panes
    BY <1>4, <1>6
  <2>2. Grown(panes[tf], cfg, p)
    BY <1>1, <1>2, <2>1, PlacedPane
  <2>3. Grown(old, cfg, p)
    BY <1>8, <2>2
  <2> QED BY <1>8, <2>3 DEF Grown
<1>10. Len(old.series) \in Nat /\ Len(old.series) >= 2 /\ SeriesInOrder(tf, old)
  BY <1>4, <1>5, <1>8 DEF PaneInOrder, SeriesInOrder, IsList
<1>11. PaneInOrder(tf, p)'
  <2>1. AxesInOrder(p)'
    <3>1. Len(p.axes) \in 2 .. next' + 1
      BY <1>4, <1>5, <1>9
    <3> QED BY <1>9, <3>1 DEF AxesInOrder
  <2>2. PlacedAs(cfg, p, new)'
    <3>1. new \in Nat /\ new > 0
      BY <1>8, <1>10
    <3>2. FirstConnections(cfg, DOMAIN handles') = FirstConnections(cfg, DOMAIN handles)
      BY <1>1, <1>5, <1>7
    <3> QED BY <1>4, <1>9, <3>1, <3>2, PlacedStays
  <2>3. \A t \in 1 .. next - 1 : t \in 1 .. next
    BY <1>5
  <2>4. Len(p.series) >= Len(old.series)
        /\ \A i \in Len(old.series) + 1 .. Len(p.series) : i = new
    BY <1>8, <1>9, <1>10
  <2>5. SeriesInOrder(tf, p)'
    BY <1>1, <1>2, <1>4, <1>5, <1>7, <1>9, <1>10, <2>2, <2>3, <2>4, SeriesStay
  <2> QED BY <1>9, <2>1, <2>5 DEF PaneInOrder
<1>12. ASSUME NEW x \in DOMAIN panes
       PROVE  PaneInOrder(x, panes[x])' /\ (FewPanels => PanelsNamed(panes[x]))'
  <2>1. CASE x = tf
    BY <1>4, <1>6, <1>9, <1>11, <2>1 DEF FewPanels
  <2>2. CASE x # tf
    <3>1. PICK other : other = panes[x]
      OBVIOUS
    <3>2. PaneInOrder(x, other) /\ IsPane(other)
      BY <1>5, <3>1 DEF PaneInOrder
    <3>3. \A t \in 1 .. next - 1 : t \in 1 .. next
      BY <1>5
    <3>4. PaneInOrder(x, other)'
      BY <1>4, <1>5, <1>7, <3>2, <3>3, PaneStays
    <3>5. panes'[x] = other
      BY <1>6, <2>2, <3>1
    <3> QED BY <1>4, <1>5, <3>1, <3>4, <3>5 DEF FewPanels
  <2> QED BY <2>1, <2>2
<1>13. HandlesKnown'
  <2> SUFFICES ASSUME NEW h \in DOMAIN handles'
               PROVE  \E t \in 1 .. next' - 1 :
                        LET y == transforms[t].timeframe
                        IN /\ h[1] = transforms[t].id /\ y \in DOMAIN panes
                           /\ handles'[h] \in 3 .. Len(panes'[y].series)
                           /\ panes'[y].series[handles'[h]].id = h[1]
    BY <1>4, <1>6 DEF HandlesKnown
  <2>1. CASE h \in outs
    <3>1. h[1] = cfg.id /\ handles'[h] = new
      BY <1>6, <1>9, <2>1
    <3>2. new \in 3 .. Len(p.series) /\ next \in 1 .. next' - 1
      BY <1>4, <1>5, <1>8, <1>9, <1>10
    <3> QED BY <1>1, <1>2, <1>4, <1>6, <1>9, <3>1, <3>2
  <2>2. CASE h \notin outs
    <3>1. h \in DOMAIN handles /\ handles'[h] = handles[h]
      BY <1>6, <2>2
    <3>2. PICK t \in 1 .. next - 1 :
            LET y == transforms[t].timeframe
            IN /\ h[1] = transforms[t].id /\ y \in DOMAIN panes
               /\ handles[h] \in 3 .. Len(panes[y].series)
               /\ panes[y].series[handles[h]].id = h[1]
      BY <1>5, <3>1 DEF HandlesKnown
    <3>3. t \in 1 .. next' - 1
      BY <1>4, <1>5
    <3>4. CASE transforms[t].timeframe = tf
      <4>1. handles[h] \in 1 .. Len(old.series) /\ handles[h] \in 3 .. Len(p.series)
        BY <1>8, <1>9, <1>10, <3>2, <3>4
      <4>2. p.series[handles[h]].id = h[1]
        BY <1>8, <1>9, <3>2, <3>4, <4>1
      <4> QED BY <1>6, <3>1, <3>2, <3>3, <3>4, <4>1, <4>2
    <3>5. CASE transforms[t].timeframe # tf
      BY <1>6, <3>1, <3>2, <3>3, <3>5
    <3> QED BY <3>4, <3>5
  <2> QED BY <2>1, <2>2
<1>14. next' \in 1 .. Len(transforms') + 1
  BY <1>4, <1>5
<1> QED BY <1>4, <1>5, <1>6, <1>12, <1>13, <1>14 DEF ChartInv

\* A transform of a timeframe the chart does not show.
LEMMA PassOverKeeps == ChartInv /\ PassOver => ChartInv'
<1> SUFFICES ASSUME ChartInv, PassOver PROVE ChartInv'
  OBVIOUS
<1> QED BY NotPlotted DEF PassOver

\* A pane is in order for as long as nothing happens.
LEMMA PaneUntouched ==
  ASSUME NEW tf, NEW pane, PaneInOrder(tf, pane), UNCHANGED <<transforms, next, handles>>
  PROVE  PaneInOrder(tf, pane)'
<1>1. IsPane(pane) /\ AxesInOrder(pane) /\ SeriesInOrder(tf, pane)
  BY DEF PaneInOrder
<1>2. \A c : \A i \in 3 .. Len(pane.series) : PlacedAs(c, pane, i) => PlacedAs(c, pane, i)'
  <2> SUFFICES ASSUME NEW c, NEW i \in 3 .. Len(pane.series), PlacedAs(c, pane, i)
               PROVE  PlacedAs(c, pane, i)'
    OBVIOUS
  <2>1. i \in Nat /\ i > 0
    BY <1>1 DEF SeriesInOrder, IsList
  <2> QED BY <2>1, PlacedStays
<1>3. SeriesInOrder(tf, pane)'
  BY <1>1, <1>2 DEF SeriesInOrder
<1> QED BY <1>1, <1>3 DEF PaneInOrder, AxesInOrder

\* Neither the last step of the loop nor a builder that throws touches a pane that
\* is left.
LEMMA EndKeeps == ChartInv /\ (Throw \/ Finish) => ChartInv'
<1> SUFFICES ASSUME ChartInv, Throw \/ Finish PROVE ChartInv'
  OBVIOUS
<1>1. CASE Throw
  <2>1. /\ UNCHANGED <<transforms, next, handles>> /\ panes' = <<>>
        /\ charting' = "thrown"
    BY <1>1 DEF Throw
  <2>2. DOMAIN panes' = {}
    BY <2>1
  <2>3. IsCompiled(transforms) /\ next \in 1 .. Len(transforms) + 1
    BY DEF ChartInv
  <2> QED BY <2>1, <2>2, <2>3 DEF ChartInv
<1>2. CASE Finish
  <2>1. UNCHANGED <<transforms, next, panes, handles>> /\ charting = "busy"
        /\ charting' = "done"
    BY <1>2 DEF Finish
  <2>2. HandlesKnown'
    BY <2>1 DEF ChartInv, HandlesKnown
  <2>3. ASSUME NEW tf \in DOMAIN panes
        PROVE  PaneInOrder(tf, panes[tf])' /\ (FewPanels => PanelsNamed(panes[tf]))'
    <3>1. PaneInOrder(tf, panes[tf]) /\ (FewPanels => PanelsNamed(panes[tf]))
      BY DEF ChartInv
    <3>2. PICK pane : pane = panes[tf]
      OBVIOUS
    <3>3. PaneInOrder(tf, pane)'
      BY <2>1, <3>1, <3>2, PaneUntouched
    <3>4. panes'[tf] = pane
      BY <2>1, <3>2
    <3> QED BY <2>1, <3>1, <3>2, <3>3, <3>4 DEF FewPanels
  <2> QED BY <2>1, <2>2, <2>3 DEF ChartInv
<1> QED BY <1>1, <1>2

\* What is charted is what was compiled.
LEMMA ChartedIsCompiled ==
  ASSUME NEW nodes, IsCompiled(nodes)
  PROVE  IsCompiled([i \in DOMAIN nodes |-> TransformConfiguration(nodes[i])])
<1> DEFINE list == [i \in DOMAIN nodes |-> TransformConfiguration(nodes[i])]
<1>1. Len(nodes) \in Nat /\ DOMAIN nodes = 1 .. Len(nodes)
  BY DEF IsCompiled, IsList
<1>2. \A i \in 1 .. Len(nodes) :
        /\ list[i].id = nodes[i].id /\ list[i].inputs = nodes[i].inputs
        /\ list[i].options = nodes[i].options
  BY <1>1 DEF TransformConfiguration
<1>3. DOMAIN list = 1 .. Len(nodes)
  BY <1>1
<1> HIDE DEF list
<1>4. IsList(list) /\ Len(list) = Len(nodes)
  <2>1. list = [i \in 1 .. Len(nodes) |-> list[i]]
    BY <1>3 DEF list
  <2>2. list \in [1 .. Len(nodes) -> {list[i] : i \in 1 .. Len(nodes)}]
    BY <2>1
  <2>3. list \in Seq({list[i] : i \in 1 .. Len(nodes)}) /\ Len(list) = Len(nodes)
    BY <1>1, <2>2
  <2> QED BY <1>1, <2>1, <2>3 DEF IsList
<1>5. \A i \in 1 .. Len(nodes) : InputHandles(list[i]) = InputHandles(nodes[i])
  BY <1>2 DEF InputHandles
<1>6. \A i \in 1 .. Len(nodes) : \A j \in 1 .. i - 1 : j \in 1 .. Len(nodes)
  BY <1>1
<1>7. \A i \in 1 .. Len(nodes) : \A j \in i .. Len(nodes) : j \in 1 .. Len(nodes)
  BY <1>1
<1>8. IsCompiled(list)
  BY <1>1, <1>2, <1>4, <1>5, <1>6, <1>7 DEF IsCompiled
<1> QED BY <1>8 DEF list

\* The chart starts with the base panes.
LEMMA ChartScriptStarts ==
  ASSUME scenario \in Scenarios, ChartInv, ChartScript
  PROVE  ChartInv'
<1> DEFINE list == [i \in DOMAIN scenario.nodes |-> TransformConfiguration(scenario.nodes[i])]
<1>1. /\ transforms' = list /\ next = 1 /\ handles = <<>>
      /\ panes' = [tf \in scenario.timeframes |-> BasePane]
      /\ next' = next /\ handles' = handles /\ charting' = "busy"
  BY DEF ChartScript, Chart, ChartInv
<1>2. IsCompiled(list)
  BY CatalogueAssumption, ChartedIsCompiled
<1> HIDE DEF list
<1>3. Len(list) \in Nat
  BY <1>2 DEF IsCompiled, IsList
<1>4. IsPane(BasePane) /\ PanelsNamed(BasePane)
  BY DEF IsPane, BasePane, PanelsNamed
<1>5. IsList(BasePane.axes) /\ Len(BasePane.axes) = 2 /\ BasePane.axes = BaseAxes
  BY DEF IsList, BasePane, BaseAxes
<1>6. /\ IsList(BasePane.series) /\ Len(BasePane.series) = 2
      /\ BasePane.series[1] = BuildCandlestickSeries
      /\ BasePane.series[2] = BuildVolumeSeries
  BY DEF IsList, BasePane
<1>7. AxesInOrder(BasePane)'
  <2>1. Len(BasePane.axes) \in 2 .. next' + 1
    BY <1>1, <1>5
  <2> QED BY <1>5, <2>1 DEF AxesInOrder
<1>8. \A tf : SeriesInOrder(tf, BasePane)'
  BY <1>6 DEF SeriesInOrder
<1>9. \A tf : PaneInOrder(tf, BasePane)'
  BY <1>4, <1>7, <1>8 DEF PaneInOrder
<1>10. HandlesKnown'
  <2>1. DOMAIN handles' = {}
    BY <1>1
  <2> QED BY <2>1 DEF HandlesKnown
<1>11. ASSUME NEW tf \in DOMAIN panes'
       PROVE  PaneInOrder(tf, panes[tf])' /\ (FewPanels => PanelsNamed(panes[tf]))'
  <2>1. panes'[tf] = BasePane
    BY <1>1
  <2> QED BY <1>4, <1>9, <2>1
<1>12. next' \in 1 .. Len(transforms') + 1
  BY <1>1, <1>3
<1> QED BY <1>1, <1>2, <1>10, <1>11, <1>12 DEF ChartInv

\* Every step keeps the chart in order.
LEMMA ChartStep == Chosen /\ ChartInv /\ [Next]_vars => ChartInv'
<1> SUFFICES ASSUME Chosen, ChartInv, [Next]_vars PROVE ChartInv'
  OBVIOUS
<1>1. CASE ChartScript
  BY <1>1, ChartScriptStarts DEF Chosen
<1>2. CASE ChartNext
  BY <1>2, PassOverKeeps, AddSessionKeeps, AddSeriesKeeps, EndKeeps DEF ChartNext
<1>3. CASE UNCHANGED chartVars
  <2>1. UNCHANGED <<transforms, next, panes, handles, charting>>
    BY <1>3 DEF chartVars
  <2>2. charting # "thrown" => HandlesKnown'
    BY <2>1 DEF ChartInv, HandlesKnown
  <2>3. ASSUME NEW tf \in DOMAIN panes
        PROVE  PaneInOrder(tf, panes[tf])' /\ (FewPanels => PanelsNamed(panes[tf]))'
    <3>1. PaneInOrder(tf, panes[tf]) /\ (FewPanels => PanelsNamed(panes[tf]))
      BY DEF ChartInv
    <3>2. PICK pane : pane = panes[tf]
      OBVIOUS
    <3>3. PaneInOrder(tf, pane)'
      BY <2>1, <3>1, <3>2, PaneUntouched
    <3>4. panes'[tf] = pane
      BY <2>1, <3>2
    <3> QED BY <2>1, <3>1, <3>2, <3>3, <3>4 DEF FewPanels
  <2> QED BY <2>1, <2>2, <2>3 DEF ChartInv
<1> QED BY <1>1, <1>2, <1>3 DEF Next, vars, Compile, Configure, BuildTransforms

\* The chart is in order before it is asked for.
LEMMA ChartStarts == Init => ChartInv
<1> SUFFICES ASSUME Init PROVE ChartInv
  OBVIOUS
<1>1. transforms = <<>> /\ next = 1 /\ panes = <<>> /\ handles = <<>> /\ charting = "no"
  BY DEF Init, ChartInit
<1>2. Len(<<>>) = 0 /\ IsList(<<>>)
  BY DEF IsList
<1>3. IsCompiled(transforms)
  BY <1>1, <1>2 DEF IsCompiled
<1>4. DOMAIN panes = {} /\ DOMAIN handles = {}
  BY <1>1
<1> QED BY <1>1, <1>2, <1>3, <1>4 DEF ChartInv, HandlesKnown

\* The inductive invariant of the chart holds, on top of what was chosen.
LEMMA ChartsInOrder == Spec => []ChartInv
<1> QED BY AlwaysChosen, ChartStarts, ChartStep, PTL DEF Spec

-----------------------------------------------------------------------------
\* Whatever is plotted, the axes of a pane tile it.
LEMMA InOrderTiles ==
  ASSUME NEW pane, AxesInOrder(pane)
  PROVE  AxesTile(pane)
<1>1. CASE pane.axes = BaseAxes
  <2>1. /\ Len(pane.axes) = 2
        /\ pane.axes[1].top = 0 /\ pane.axes[1].height = 85
        /\ pane.axes[2].top = 85 /\ pane.axes[2].height = 15
    BY <1>1 DEF BaseAxes
  <2>2. \A i \in 1 .. 2 - 1 : i = 1
    OBVIOUS
  <2> QED BY <2>1, <2>2 DEF AxesTile
<1>2. CASE Len(pane.axes) > 2 /\ pane.axes \in RecalculateAxisHeights(Len(pane.axes))
  <2> DEFINE n == Len(pane.axes)
  <2>1. n \in Nat /\ n > 2
    BY <1>2 DEF AxesInOrder
  <2>2. /\ pane.axes[1].top = 0
        /\ \A i \in 1 .. n - 1 :
             pane.axes[i + 1].top - (pane.axes[i].top + pane.axes[i].height) \in {0, 1}
        /\ pane.axes[n].top + pane.axes[n].height \in 99 .. 100
    BY <1>2, <2>1, AxesLieInOrder
  <2> QED BY <2>2 DEF AxesTile
<1> QED BY <1>1, <1>2 DEF AxesInOrder

\* The series after the base ones are of the transforms they are configured by.
LEMMA SeriesOf ==
  ASSUME ChartInv, NEW tf \in DOMAIN panes, NEW i \in 3 .. Len(panes[tf].series)
  PROVE  LET cfg == Configured(panes[tf].series[i])
         IN /\ panes[tf].series[i].kind = cfg.kind
            /\ PlacedAs(cfg, panes[tf], i)
            /\ IsFiniteSet(DOMAIN cfg.inputs) /\ IsFiniteSet(DOMAIN cfg.options)
<1>1. /\ IsCompiled(transforms) /\ next \in 1 .. Len(transforms) + 1
      /\ SeriesInOrder(tf, panes[tf]) /\ Len(transforms) \in Nat
  BY DEF ChartInv, PaneInOrder, IsCompiled, IsList
<1>2. PICK t \in 1 .. next - 1 :
        /\ panes[tf].series[i].id = transforms[t].id
        /\ panes[tf].series[i].kind = transforms[t].kind
        /\ PlacedAs(transforms[t], panes[tf], i)
  BY <1>1 DEF SeriesInOrder
<1>3. t \in 1 .. Len(transforms)
  BY <1>1
<1>4. Configured(panes[tf].series[i]) = transforms[t]
  BY <1>1, <1>2, <1>3, FoundById
<1>5. IsFiniteSet(DOMAIN transforms[t].inputs) /\ IsFiniteSet(DOMAIN transforms[t].options)
  BY <1>1, <1>3 DEF IsCompiled
<1> QED BY <1>2, <1>4, <1>5

\* Links are to earlier series of the same axis, and follow the plotted inputs.
LEMMA InOrderLinks ==
  ASSUME ChartInv, NEW tf \in DOMAIN panes
  PROVE  LinkedShareAxis(panes[tf]) /\ OverlaysFollowTheirInput(panes[tf])
<1> DEFINE pane == panes[tf]
<1>1. SeriesInOrder(tf, pane)
  BY DEF ChartInv, PaneInOrder
<1>2. /\ DOMAIN pane.series = 1 .. Len(pane.series) /\ Len(pane.series) \in Nat
      /\ pane.series[1].linkedTo = None /\ pane.series[2].linkedTo = None
  BY <1>1 DEF SeriesInOrder, IsList, BuildCandlestickSeries, BuildVolumeSeries, Series
<1>3. LinkedShareAxis(pane)
  <2> SUFFICES ASSUME NEW i \in DOMAIN pane.series, pane.series[i].linkedTo # None
               PROVE  \E j \in 1 .. i - 1 : /\ pane.series[j].id = pane.series[i].linkedTo
                                            /\ pane.series[j].axis = pane.series[i].axis
    BY DEF LinkedShareAxis
  <2>1. i \in 3 .. Len(pane.series)
    <3>1. i \in 1 .. Len(pane.series) /\ i # 1 /\ i # 2
      BY <1>2
    <3> QED BY <1>2, <3>1
  <2>2. PICK cfg : PlacedAs(cfg, pane, i)
    BY <2>1, SeriesOf
  <2> QED BY <2>2 DEF PlacedAs
<1>4. OverlaysFollowTheirInput(pane)
  <2> DEFINE Cfg(i) == Configured(pane.series[i])
             IdsShown(i) == {h[1] : h \in Range(PlottedInputs(Cfg(i)))}
  <2>1. ASSUME NEW i \in 3 .. Len(pane.series),
               ~InitializeBuilders[Cfg(i).kind].own, IdsShown(i) # {},
               \A id \in IdsShown(i) : Configured([id |-> id]).timeframe = Cfg(i).timeframe
        PROVE  pane.series[i].linkedTo \in IdsShown(i)
    <3>1. PlacedAs(Cfg(i), pane, i)
      BY SeriesOf
    <3>2. Follows(Cfg(i), pane.series[i].linkedTo)
      BY <2>1, <3>1 DEF PlacedAs
    <3> QED BY <2>1, <3>2 DEF Follows
  <2> QED BY <2>1 DEF OverlaysFollowTheirInput
<1> QED BY <1>3, <1>4

\* Names being one to an axis, series share a panel if they show the same.
LEMMA InOrderShares ==
  ASSUME ChartInv, FewPanels, NEW tf \in DOMAIN panes
  PROVE  OneAxisPerIndicator(panes[tf])
<1> DEFINE pane == panes[tf]
<1>1. PanelsNamed(pane)
  BY DEF ChartInv
<1>2. ASSUME NEW i \in OwnPanels(pane), NEW j \in OwnPanels(pane), NEW a, NEW b,
             a = Configured(pane.series[i]), b = Configured(pane.series[j])
      PROVE  /\ pane.series[i].axis = pane.series[j].axis => Shown(a) = Shown(b)
             /\ /\ Shown(a) = Shown(b) /\ Cardinality(DOMAIN a.options) <= 1
                /\ Cardinality(DOMAIN PlottedInputs(a)) <= 1
                => pane.series[i].axis = pane.series[j].axis
  <2>1. /\ IsFiniteSet(DOMAIN a.inputs) /\ IsFiniteSet(DOMAIN a.options)
        /\ PlacedAs(a, pane, i) /\ InitializeBuilders[a.kind].own
    BY <1>2, SeriesOf DEF OwnPanels
  <2>2. /\ IsFiniteSet(DOMAIN b.inputs) /\ IsFiniteSet(DOMAIN b.options)
        /\ PlacedAs(b, pane, j) /\ InitializeBuilders[b.kind].own
    BY <1>2, SeriesOf DEF OwnPanels
  <2>3. PICK m \in DescriptiveNames(a) :
          m \in DOMAIN pane.names /\ pane.names[m] = pane.series[i].axis
    BY <2>1 DEF PlacedAs
  <2>4. PICK n \in DescriptiveNames(b) :
          n \in DOMAIN pane.names /\ pane.names[n] = pane.series[j].axis
    BY <2>2 DEF PlacedAs
  <2>5. ASSUME pane.series[i].axis = pane.series[j].axis PROVE Shown(a) = Shown(b)
    <3>1. m = n
      BY <1>1, <2>3, <2>4, <2>5 DEF PanelsNamed
    <3>2. m \in DescriptiveNames(b)
      BY <2>4, <3>1
    <3> QED BY <2>1, <2>2, <2>3, <3>2, NamesTell
  <2>6. ASSUME Shown(a) = Shown(b), Cardinality(DOMAIN a.options) <= 1,
               Cardinality(DOMAIN PlottedInputs(a)) <= 1
        PROVE  pane.series[i].axis = pane.series[j].axis
    <3>1. m = n
      BY <2>1, <2>2, <2>3, <2>4, <2>6, OneName
    <3> QED BY <2>3, <2>4, <3>1
  <2> QED BY <2>5, <2>6
<1> QED BY <1>2 DEF OneAxisPerIndicator

\* Whatever the number of panels: the axes of every pane tile it, and what is drawn
\* over something is drawn over what it should be (axis_manager.cpp:62 and 164).
THEOREM PanesTileAndLink ==
  Spec => [](\A tf \in DOMAIN panes :
               /\ AxesTile(panes[tf]) /\ LinkedShareAxis(panes[tf])
               /\ OverlaysFollowTheirInput(panes[tf]))
<1>1. ChartInv => \A tf \in DOMAIN panes :
                    /\ AxesTile(panes[tf]) /\ LinkedShareAxis(panes[tf])
                    /\ OverlaysFollowTheirInput(panes[tf])
  BY InOrderTiles, InOrderLinks DEF ChartInv, PaneInOrder
<1> QED BY <1>1, ChartsInOrder, PTL

\* PanesAreSound: with as many transforms as leave the index of an axis a byte, every
\* pane is one a reader can use.
THEOREM PanesCanBeRead == Spec => [](FewPanels => PanesAreSound)
<1>1. ChartInv => (FewPanels => PanesAreSound)
  BY InOrderTiles, InOrderLinks, InOrderShares DEF PanesAreSound, ChartInv, PaneInOrder
<1> QED BY <1>1, ChartsInOrder, PTL

-----------------------------------------------------------------------------
(* What is compiled can be built and drawn. *)

Known == RegisteredFirst \cup RegisteredLast
Configurations == [i \in DOMAIN scenario.nodes |-> TransformConfiguration(scenario.nodes[i])]

\* What is in the two registries at every stage: the metadata of calculations before
\* anything is decoded, the rest when nothing is left to register.
RegistriesFilled ==
    /\ stage \in {"metadata", "decode", "register", "strategies", "stopped", "ready"}
    /\ metadata = CASE stage = "metadata" -> {}
                    [] stage = "ready" -> Known
                    [] OTHER -> RegisteredFirst
    /\ factories = IF stage = "ready" THEN Factories ELSE {}

\* How far a script has come, and what that says of its types.
ScriptKnown ==
    /\ script # "source" => stage = "ready"
    /\ script = "rejected" => ~Types \subseteq Known
    /\ script \notin {"source", "rejected"} => Types \subseteq Known
    /\ script = "unbuildable" => ~Types \subseteq Factories
    /\ charting # "no" =>
         /\ script = "built" /\ transforms = Configurations
    /\ charting = "thrown" =>
         \E i \in DOMAIN transforms :
            LET cfg == transforms[i]
            IN cfg.kind # "Null" /\ ~Builds(cfg.kind, DOMAIN cfg.inputs, cfg.outputs)

\* A step of the start-up fills the registries in their order, and only while no
\* script has been compiled.
LEMMA StartUpFills ==
  ASSUME RegistriesFilled, StartUpNext
  PROVE  RegistriesFilled' /\ stage # "ready"
<1>1. CASE RegisterTransformMetadata
  <2>1. /\ stage = "metadata" /\ stage' = "decode" /\ factories' = factories
        /\ metadata' = metadata \cup RegisteredFirst
    BY <1>1 DEF RegisterTransformMetadata, Proceed
  <2>2. metadata = {} /\ factories = {}
    BY <2>1 DEF RegistriesFilled
  <2>3. metadata' = RegisteredFirst
    BY <2>1, <2>2
  <2> QED BY <2>1, <2>2, <2>3 DEF RegistriesFilled
<1>2. CASE RegisterFactories
  <2>1. /\ stage = "strategies" /\ stage' = "ready"
        /\ factories' = factories \cup Factories
        /\ metadata' = metadata \cup RegisteredLast
    BY <1>2 DEF RegisterFactories, Proceed
  <2>2. metadata = RegisteredFirst /\ factories = {}
    BY <2>1 DEF RegistriesFilled
  <2>3. metadata' = Known /\ factories' = Factories
    BY <2>1, <2>2 DEF Known
  <2> QED BY <2>1, <2>3 DEF RegistriesFilled
<1>3. CASE DecodeAlgorithm \/ AllDecoded \/ RegisterAlgorithm \/ AllRegistered
           \/ RegisterStrategy
  <2>1. /\ stage \in {"decode", "register", "strategies"}
        /\ stage' \in {"decode", "register", "strategies", "stopped"}
        /\ metadata' = metadata /\ factories' = factories
    BY <1>3 DEF DecodeAlgorithm, AllDecoded, RegisterAlgorithm, AllRegistered,
                RegisterStrategy, Proceed
  <2> QED BY <2>1 DEF RegistriesFilled
<1> QED BY <1>1, <1>2, <1>3 DEF StartUpNext

\* A step of the chart is one of a script that is built; what it throws for is a
\* transform whose builder does not accept it.
LEMMA ChartThrowsForOne ==
  ASSUME ChartInv, ScriptKnown, ChartNext,
         UNCHANGED <<startUpVars, scenario, script, option>>
  PROVE  ScriptKnown'
<1>1. charting = "busy" /\ transforms' = transforms /\ charting' \in {"busy", "done", "thrown"}
  BY DEF ChartNext, PassOver, AddSession, AddSeries, Throw, Finish, Going
<1>2. /\ script' = script /\ stage' = stage /\ Types' = Types
      /\ Configurations' = Configurations
  BY DEF Types, Configurations, startUpVars, TransformConfiguration
<1>3. ASSUME charting' = "thrown"
      PROVE  \E i \in DOMAIN transforms :
                LET cfg == transforms[i]
                IN cfg.kind # "Null" /\ ~Builds(cfg.kind, DOMAIN cfg.inputs, cfg.outputs)
  <2>1. Throw
    BY <1>1, <1>3 DEF ChartNext, PassOver, AddSession, AddSeries, Finish
  <2>2. next \in DOMAIN transforms
    BY <2>1 DEF Throw, Going, ChartInv, IsCompiled, IsList
  <2> QED BY <2>1, <2>2 DEF Throw
<1> QED BY <1>1, <1>2, <1>3 DEF ScriptKnown

\* Both hold after every step.
LEMMA UsableStep ==
  ASSUME ChartInv, RegistriesFilled, ScriptKnown, [Next]_vars
  PROVE  RegistriesFilled' /\ ScriptKnown'
<1> USE DEF ScriptKnown
<1>1. CASE StartUpNext /\ UNCHANGED <<chartVars, scenario, script, option>>
  <2>1. RegistriesFilled' /\ stage # "ready"
    BY <1>1, StartUpFills
  <2>2. script' = "source" /\ charting' = "no"
    BY <1>1, <2>1 DEF chartVars
  <2> QED BY <2>1, <2>2
<1>2. ASSUME UNCHANGED startUpVars
      PROVE  RegistriesFilled' /\ stage' = stage
  BY <1>2 DEF startUpVars, RegistriesFilled
<1>3. CASE Compile
  <2>1. /\ stage = "ready" /\ script = "source" /\ UNCHANGED <<startUpVars, chartVars, scenario>>
        /\ script' = IF Types \subseteq metadata THEN "compiled" ELSE "rejected"
    BY <1>3 DEF Compile
  <2>2. metadata = Known
    BY <2>1 DEF RegistriesFilled
  <2>3. Types' = Types /\ charting' = "no"
    BY <2>1 DEF Types, chartVars
  <2> QED BY <1>2, <2>1, <2>2, <2>3
<1>4. CASE Configure
  <2>1. /\ script = "compiled" /\ script' \in {"configured", "unresolved"}
        /\ UNCHANGED <<startUpVars, chartVars, scenario>>
    BY <1>4 DEF Configure
  <2>2. Types' = Types /\ charting' = "no"
    BY <2>1 DEF Types, chartVars
  <2> QED BY <1>2, <2>1, <2>2
<1>5. CASE BuildTransforms
  <2>1. /\ script = "configured" /\ UNCHANGED <<startUpVars, chartVars, scenario>>
        /\ script' = IF Types \subseteq factories THEN "built" ELSE "unbuildable"
    BY <1>5 DEF BuildTransforms
  <2>2. factories = Factories
    BY <2>1 DEF RegistriesFilled
  <2>3. Types' = Types /\ charting' = "no"
    BY <2>1 DEF Types, chartVars
  <2> QED BY <1>2, <2>1, <2>2, <2>3
<1>6. CASE ChartScript
  <2>1. /\ script = "built" /\ charting' = "busy" /\ transforms' = Configurations
        /\ UNCHANGED <<startUpVars, scenario, script>>
    BY <1>6 DEF ChartScript, Chart, Configurations
  <2>2. Types' = Types /\ Configurations' = Configurations
    BY <2>1 DEF Types, Configurations, TransformConfiguration
  <2> QED BY <1>2, <2>1, <2>2
<1>7. CASE ChartNext /\ UNCHANGED <<startUpVars, scenario, script, option>>
  BY <1>2, <1>7, ChartThrowsForOne
<1>8. CASE UNCHANGED vars
  <2>1. UNCHANGED <<startUpVars, scenario, script, transforms, charting>>
    BY <1>8 DEF vars, chartVars
  <2>2. Types' = Types /\ Configurations' = Configurations
    BY <2>1 DEF Types, Configurations, TransformConfiguration
  <2> QED BY <1>2, <2>1, <2>2
<1> QED BY <1>1, <1>3, <1>4, <1>5, <1>6, <1>7, <1>8 DEF Next

\* A builder looks at the inputs only for whether there are any.
LEMMA InputsDoNotMatter ==
  ASSUME NEW kind, NEW inputs, NEW others, NEW outputs, others # {},
         Builds(kind, inputs, outputs)
  PROVE  Builds(kind, others, outputs)
BY DEF Builds, Validate

\* A node whose type is not listed is drawn, unless it executes nothing.
LEMMA DrawnUnlessListed ==
  ASSUME NEW node, node.type \in Known \ NeverDrawn,
         ~WithoutSignals(node.type, DOMAIN node.inputs),
         RowOf[node.type].kind # "Null"
  PROVE  Builds(RowOf[node.type].kind, DOMAIN node.inputs, RowOf[node.type].outputs)
<1> DEFINE row == RowOf[node.type]
<1>1. \A inputs \in {{}, Slot} :
        WithoutSignals(node.type, inputs) \/ Builds(row.kind, inputs, row.outputs)
  BY TablesAgree DEF Known
<1>2. CASE DOMAIN node.inputs = {}
  BY <1>1, <1>2
<1>3. CASE DOMAIN node.inputs # {}
  <2>1. ~WithoutSignals(node.type, Slot)
    BY DEF WithoutSignals, Slot
  <2> QED BY <1>1, <1>3, <2>1, InputsDoNotMatter
<1> QED BY <1>2, <1>3

\* UsableUnlessListed: what is registered compiles once the program has started, is
\* built if its factory is not one of those missing, and is drawn if its outputs are
\* those its builder looks for (components/registration.cpp:126).
THEOREM KnownTypesAreUsable == Spec => []UsableUnlessListed
<1>1. Init => RegistriesFilled /\ ScriptKnown
  <2> SUFFICES ASSUME Init PROVE RegistriesFilled /\ ScriptKnown
    OBVIOUS
  <2>1. stage = "metadata" /\ metadata = {} /\ factories = {}
        /\ script = "source" /\ charting = "no"
    BY DEF Init, StartUpInit, ChartInit
  <2> QED BY <2>1 DEF RegistriesFilled, ScriptKnown
<1>2. ChartInv /\ RegistriesFilled /\ ScriptKnown /\ [Next]_vars
        => (RegistriesFilled /\ ScriptKnown)'
  BY UsableStep
<1>3. ASSUME ScriptKnown PROVE UsableUnlessListed
  <2>1. script = "rejected" => ~Types \subseteq RegisteredFirst \cup RegisteredLast
    BY <1>3 DEF ScriptKnown, Known
  <2>2. ASSUME script = "unbuildable" PROVE Types \cap WithoutFactory # {}
    BY <1>3, <2>2, TablesAgree DEF ScriptKnown, Known
  <2>3. ASSUME charting = "thrown", Types \cap NeverDrawn = {}
        PROVE  \E node \in Range(scenario.nodes) :
                  WithoutSignals(node.type, DOMAIN node.inputs)
    <3>1. /\ Types \subseteq Known /\ transforms = Configurations
          /\ \E i \in DOMAIN transforms :
                LET cfg == transforms[i]
                IN cfg.kind # "Null" /\ ~Builds(cfg.kind, DOMAIN cfg.inputs, cfg.outputs)
      BY <1>3, <2>3 DEF ScriptKnown
    <3>2. PICK i \in DOMAIN scenario.nodes :
            LET cfg == TransformConfiguration(scenario.nodes[i])
            IN cfg.kind # "Null" /\ ~Builds(cfg.kind, DOMAIN cfg.inputs, cfg.outputs)
      BY <3>1 DEF Configurations
    <3> DEFINE node == scenario.nodes[i]
    <3>3. /\ RowOf[node.type].kind # "Null"
          /\ ~Builds(RowOf[node.type].kind, DOMAIN node.inputs, RowOf[node.type].outputs)
      BY <3>2 DEF TransformConfiguration
    <3>4. node \in Range(scenario.nodes) /\ node.type \in Known \ NeverDrawn
      BY <2>3, <3>1 DEF Types, Range
    <3> QED BY <3>3, <3>4, DrawnUnlessListed
  <2> QED BY <2>1, <2>2, <2>3 DEF UsableUnlessListed
<1> QED BY <1>1, <1>2, <1>3, ChartsInOrder, PTL DEF Spec

=============================================================================
