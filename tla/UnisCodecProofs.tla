--------------------------- MODULE UnisCodecProofs ---------------------------
(***************************************************************************)
(* Proofs about the conversions of a MTB-UNIS, for any set of ports,       *)
(* outputs, delays and firmwares and any size of block and page.  What     *)
(* parseFirmware and a sorted list of ports compute for every input needs  *)
(* an induction; it is done on the set of the numbers a formula holds for, *)
(* by the least number that is not in it (UpTo, IterationExists), and on   *)
(* the places of ports in their order (PlaceFacts).                        *)
(***************************************************************************)
EXTENDS UnisCodec, FunctionTheorems, SequenceTheorems, FiniteSetTheorems,
        WellFoundedInduction, TLAPS

-----------------------------------------------------------------------------
(* Outputs and delays *)

Jsons == [type : Types, value : Nat]

\* The bytes an output may be kept as.
Kept == {0, 1} \cup 64..255

LEMMA Rates == Range(FlickerRates) = {60, 120, 180, 240, 300, 600, 33, 66}
<1>1. DOMAIN FlickerRates = 1..8
  BY DEF FlickerRates
<1>2. 1..8 = {1, 2, 3, 4, 5, 6, 7, 8}
  OBVIOUS
<1>3. /\ FlickerRates[1] = 60  /\ FlickerRates[2] = 120 /\ FlickerRates[3] = 180
      /\ FlickerRates[4] = 240 /\ FlickerRates[5] = 300 /\ FlickerRates[6] = 600
      /\ FlickerRates[7] = 33  /\ FlickerRates[8] = 66
  BY DEF FlickerRates
<1> HIDE DEF FlickerRates
<1> QED
  BY <1>1, <1>2, <1>3 DEF Range

\* What is accepted is kept as a byte that tells plain, s-com and, up to the
\* two rates that come out as s-com, flicker apart.
LEMMA ByteFacts ==
  ASSUME NEW json \in Jsons, Accepted(json)
  PROVE  /\ JsonOutputToByte(json) \in Kept
         /\ json.type = "plain" => JsonOutputToByte(json) = json.value /\ json.value \in {0, 1}
         /\ json.type = "s-com" => JsonOutputToByte(json) = json.value + 128 /\ json.value \in 0..127
<1>1. json.type \in Types /\ json.value \in Nat
  BY DEF Jsons
<1>2. CASE json.type = "plain"
  BY <1>1, <1>2 DEF Accepted, JsonOutputToByte, Kept
<1>3. CASE json.type = "s-com"
  BY <1>1, <1>3 DEF Accepted, JsonOutputToByte, Kept
<1>4. CASE json.type = "flicker"
  <2>1. json.value \in {60, 120, 180, 240, 300, 600, 33, 66}
    BY <1>4, Rates DEF Accepted
  <2>2. Or64(json.value) % 256 \in 64..255
    BY <2>1 DEF Or64
  <2> QED
    BY <1>4, <2>2 DEF JsonOutputToByte, Kept
<1> QED
  BY <1>1, <1>2, <1>3, <1>4 DEF Types

\* A byte read back from what was saved of it is the same, and is refused
\* exactly if it is one of a flicker.
LEMMA SavedFacts ==
  ASSUME NEW b \in Kept
  PROVE  /\ SafeOutputToJson(b) \in Jsons
         /\ Accepted(SafeOutputToJson(b)) <=> ~IsFlicker(b)
         /\ Accepted(SafeOutputToJson(b)) => JsonOutputToByte(SafeOutputToJson(b)) = b
<1> DEFINE json == SafeOutputToJson(b)
<1>1. CASE IsSCom(b)
  <2>1. json = [type |-> "s-com", value |-> b - 128] /\ ~IsFlicker(b) /\ b \in 128..255
    BY <1>1 DEF SafeOutputToJson, IsFlicker, IsSCom, Kept
  <2>2. json.type = "s-com" /\ json.value = b - 128 /\ b - 128 \in 0..127
    BY <2>1
  <2>3. json \in Jsons
    BY <2>1 DEF Jsons, Types
  <2>4. (b - 128 + 128) % 256 = b
    BY <2>1
  <2> HIDE DEF json
  <2>5. Accepted(json) /\ JsonOutputToByte(json) = b
    BY <2>2, <2>4 DEF Accepted, JsonOutputToByte
  <2> QED
    BY <2>1, <2>3, <2>5 DEF json
<1>2. CASE IsFlicker(b)
  <2>1. json = [type |-> "flicker", value |-> b % 16] /\ b % 16 \in 0..15
    BY <1>2 DEF SafeOutputToJson, IsFlicker, IsSCom, Kept
  <2>2. json.type = "flicker" /\ json.value = b % 16
    BY <2>1
  <2>3. json \in Jsons
    BY <2>1 DEF Jsons, Types
  <2> HIDE DEF json
  <2>4. ~Accepted(json)
    BY <2>1, <2>2, Rates DEF Accepted
  <2> QED
    BY <1>2, <2>3, <2>4 DEF json
<1>3. CASE ~IsSCom(b) /\ ~IsFlicker(b)
  <2>1. json = [type |-> "plain", value |-> b % 2] /\ b \in {0, 1} /\ b % 2 = b
    BY <1>3 DEF SafeOutputToJson, IsFlicker, IsSCom, Kept
  <2>2. json.type = "plain" /\ json.value = b
    BY <2>1
  <2>3. json \in Jsons
    BY <2>1 DEF Jsons, Types
  <2> HIDE DEF json
  <2>4. Accepted(json) /\ JsonOutputToByte(json) = b
    BY <2>1, <2>2 DEF Accepted, JsonOutputToByte
  <2> QED
    BY <1>3, <2>3, <2>4 DEF json
<1> QED
  BY <1>1, <1>2, <1>3

\* What is stored of a delay is a whole second or none, and stored again as it is.
LEMMA DelayFacts ==
  ASSUME NEW tenths \in Nat, DelayAccepted(tenths)
  PROVE  DelayOf(tenths) \in {0, 10}
<1>1. tenths \div 10 \in Nat
  OBVIOUS
<1>2. (tenths \div 10) * 10 <= 15
  BY DEF DelayAccepted, DelayOf
<1>3. tenths \div 10 \in {0, 1}
  BY <1>1, <1>2
<1> QED
  BY <1>3 DEF DelayOf

LEMMA DelayKept == \A d \in {0, 10} : DelayAccepted(d) /\ DelayOf(d) = d
BY DEF DelayAccepted, DelayOf

-----------------------------------------------------------------------------
(* The invariant of outputs, configuration and file *)

\* An output is kept as the byte of the JSON last accepted for it; what is
\* configured and saved came from JSON that was accepted.
OutputsSound ==
  /\ asked \in [Ports -> Jsons]
  /\ outputs \in [Ports -> Kept]
  /\ \A p \in Ports : Accepted(asked[p]) /\ outputs[p] = JsonOutputToByte(asked[p])

ConfigSound ==
  /\ safe \in [Ports -> Kept]
  /\ delay \in {0, 10}
  /\ saved # NoFile => saved \in [outputsSafe : [Ports -> Jsons], inputsDelay : {0, 10}]

LEMMA OffFacts == Off \in Jsons /\ Accepted(Off) /\ JsonOutputToByte(Off) = 0
<1>1. Off.type = "plain" /\ Off.value = 0 /\ Off \in Jsons
  BY DEF Off, Jsons, Types
<1> QED
  BY <1>1 DEF Accepted, JsonOutputToByte

LEMMA CodecInit == Init => OutputsSound /\ ConfigSound
<1> SUFFICES ASSUME Init PROVE OutputsSound /\ ConfigSound
  OBVIOUS
<1>1. 0 \in Kept
  BY DEF Kept
<1>2. OutputsSound
  BY <1>1, OffFacts DEF Init, OutputsSound
<1>3. ConfigSound
  BY <1>1 DEF Init, ConfigSound
<1> QED
  BY <1>2, <1>3

\* A configuration that is read leaves one that may be kept.
LEMMA FromJsonFacts ==
  ASSUME NEW config, config.outputsSafe \in [Ports -> Jsons], config.inputsDelay \in Nat,
         FromJson(config)
  PROVE  safe' \in [Ports -> Kept] /\ delay' \in {0, 10}
<1>1. \A p \in Ports : JsonOutputToByte(config.outputsSafe[p]) \in Kept
  <2> TAKE p \in Ports
  <2>1. config.outputsSafe[p] \in Jsons /\ Accepted(config.outputsSafe[p])
    BY DEF FromJson
  <2> QED
    BY <2>1, ByteFacts
<1>2. delay' \in {0, 10}
  BY DelayFacts DEF FromJson
<1> QED
  BY <1>1, <1>2 DEF FromJson

LEMMA SavedFormType ==
  ASSUME ConfigSound
  PROVE  /\ SavedForm.inputsDelay = delay
         /\ \A p \in Ports : SavedForm.outputsSafe[p] = SafeOutputToJson(safe[p])
         /\ SavedForm \in [outputsSafe : [Ports -> Jsons], inputsDelay : {0, 10}]
<1>1. \A p \in Ports : SafeOutputToJson(safe[p]) \in Jsons
  BY SavedFacts DEF ConfigSound
<1>2. [p \in Ports |-> SafeOutputToJson(safe[p])] \in [Ports -> Jsons]
  BY <1>1
<1> QED
  BY <1>2 DEF SavedForm, ConfigSound

\* The configuration of a request.
LEMMA RequestType ==
  ASSUME NEW outs \in SafeJsons, NEW tenths \in Delays
  PROVE  outs \in [Ports -> Jsons] /\ tenths \in Nat
<1>1. PICK json \in Outputs : outs = [p \in Ports |-> IF p \in SafePorts THEN json ELSE Off]
  BY DEF SafeJsons
<1>2. json \in Jsons /\ tenths \in Nat
  BY OutputsAssumption DEF Jsons
<1> QED
  BY <1>1, <1>2, OffFacts

LEMMA CodecStep ==
  ASSUME OutputsSound, ConfigSound, [Next]_vars
  PROVE  OutputsSound' /\ ConfigSound'
<1>1. ASSUME NEW p \in Ports, NEW json \in Outputs, JsonSetOutput(p, json)
      PROVE  OutputsSound' /\ ConfigSound'
  <2>1. json \in Jsons /\ Accepted(json)
    BY <1>1, OutputsAssumption DEF Jsons, JsonSetOutput
  <2>2. JsonOutputToByte(json) \in Kept
    BY <2>1, ByteFacts
  <2>3. outputs' = [outputs EXCEPT ![p] = JsonOutputToByte(json)] /\ asked' = [asked EXCEPT ![p] = json]
    BY <1>1 DEF JsonSetOutput
  <2>4. OutputsSound'
    BY <2>1, <2>2, <2>3 DEF OutputsSound
  <2>5. ConfigSound'
    BY <1>1 DEF JsonSetOutput, ConfigSound
  <2> QED
    BY <2>4, <2>5
<1>2. ASSUME NEW outs \in SafeJsons, NEW tenths \in Delays,
             JsonSetConfig([outputsSafe |-> outs, inputsDelay |-> tenths])
      PROVE  OutputsSound' /\ ConfigSound'
  <2> DEFINE config == [outputsSafe |-> outs, inputsDelay |-> tenths]
  <2>1. config.outputsSafe \in [Ports -> Jsons] /\ config.inputsDelay \in Nat
    BY RequestType
  <2>2. FromJson(config) /\ UNCHANGED <<outputs, asked, saved>>
    BY <1>2 DEF JsonSetConfig
  <2> HIDE DEF config
  <2>3. safe' \in [Ports -> Kept] /\ delay' \in {0, 10}
    BY <2>1, <2>2, FromJsonFacts
  <2> QED
    BY <2>2, <2>3 DEF OutputsSound, ConfigSound
<1>3. CASE SaveConfig
  BY <1>3, SavedFormType DEF SaveConfig, OutputsSound, ConfigSound
<1>4. CASE LoadConfig
  <2>1. saved.outputsSafe \in [Ports -> Jsons] /\ saved.inputsDelay \in Nat
    BY <1>4 DEF LoadConfig, ConfigSound
  <2>2. FromJson(saved) /\ UNCHANGED <<outputs, asked, saved>>
    BY <1>4 DEF LoadConfig
  <2>3. safe' \in [Ports -> Kept] /\ delay' \in {0, 10}
    BY <2>1, <2>2, FromJsonFacts
  <2> QED
    BY <2>2, <2>3 DEF OutputsSound, ConfigSound
<1>5. ASSUME NEW segments \in Firmwares, JsonUpgradeFw(segments)
      PROVE  OutputsSound' /\ ConfigSound'
  BY <1>5 DEF JsonUpgradeFw, OutputsSound, ConfigSound
<1>6. CASE UNCHANGED vars
  BY <1>6 DEF vars, OutputsSound, ConfigSound
<1> QED
  BY <1>1, <1>2, <1>3, <1>4, <1>5, <1>6 DEF Next

LEMMA CodecInvariance == Spec => [](OutputsSound /\ ConfigSound)
<1>1. (OutputsSound /\ ConfigSound) /\ [Next]_vars => (OutputsSound /\ ConfigSound)'
  BY CodecStep
<1> QED
  BY <1>1, CodecInit, PTL DEF Spec

-----------------------------------------------------------------------------
(* Theorems on single outputs *)

\* outputsToJson undoes jsonOutputToByte for what is no flicker, on real ports
\* and for plain outputs on virtual ones.
LEMMA ReadBack ==
  ASSUME NEW p \in Ports, NEW json \in Jsons, Accepted(json),
         json.type = "plain" \/ (json.type = "s-com" /\ p \in Io)
  PROVE  OutputToJson(p, JsonOutputToByte(json)) = json
<1> DEFINE b == JsonOutputToByte(json)
<1>1. json = [type |-> json.type, value |-> json.value]
  BY DEF Jsons
<1>2. CASE json.type = "plain"
  <2>1. b = json.value /\ b \in {0, 1}
    BY <1>2, ByteFacts
  <2> HIDE DEF b
  <2>2. OutputToJson(p, b) = [type |-> "plain", value |-> b % 2] /\ b % 2 = b
    BY <2>1 DEF OutputToJson, IsSCom, IsFlicker
  <2> QED
    BY <1>1, <1>2, <2>1, <2>2 DEF b
<1>3. CASE json.type = "s-com" /\ p \in Io
  <2>1. b = json.value + 128 /\ json.value \in 0..127
    BY <1>3, ByteFacts
  <2> HIDE DEF b
  <2>2. OutputToJson(p, b) = [type |-> "s-com", value |-> b - 128] /\ b - 128 = json.value
    BY <1>3, <2>1 DEF OutputToJson, IsSCom, IsFlicker
  <2> QED
    BY <1>1, <1>3, <2>2 DEF b
<1> QED
  BY <1>2, <1>3

\* Every plain output, and every s-com one on a real port, is reported as the
\* last accepted request asked for it, whatever came between.
THEOREM OutputsReadBack == Spec => []ReadsBack
<1>1. OutputsSound => ReadsBack
  BY ReadBack DEF OutputsSound, ReadsBack
<1> QED
  BY <1>1, CodecInvariance, PTL

LEMMA RefusedIfFlicker ==
  ASSUME ConfigSound
  PROVE  UnloadableIfFlicker
BY SavedFormType, SavedFacts DEF ConfigSound, UnloadableIfFlicker

\* Loading what the last save wrote changes neither safe outputs nor delays,
\* and is refused only because of a safe output kept as flicker.
THEOREM LoadsRestore == Spec => LoadRestores
<1>1. ASSUME ConfigSound, LoadConfig, saved = SavedForm
      PROVE  safe' = safe /\ delay' = delay
  <2>1. /\ safe' = [p \in Ports |-> JsonOutputToByte(SavedForm.outputsSafe[p])]
        /\ delay' = DelayOf(SavedForm.inputsDelay)
        /\ \A p \in Ports : Accepted(SavedForm.outputsSafe[p])
    BY <1>1 DEF LoadConfig, FromJson
  <2>2. \A p \in Ports : JsonOutputToByte(SavedForm.outputsSafe[p]) = safe[p]
    BY <1>1, <2>1, SavedFormType, SavedFacts DEF ConfigSound
  <2>3. DelayOf(SavedForm.inputsDelay) = delay
    BY <1>1, SavedFormType, DelayKept DEF ConfigSound
  <2> QED
    BY <1>1, <2>1, <2>2, <2>3 DEF ConfigSound
<1>2. ConfigSound => LoadingStep
  BY <1>1 DEF LoadingStep
<1>3. ConfigSound => UnloadableIfFlicker
  BY RefusedIfFlicker
<1>4. ConfigSound' => UnloadableIfFlicker'
  BY <1>3, PTL
<1> QED
  BY <1>2, <1>4, CodecInvariance, PTL DEF Spec, LoadRestores

-----------------------------------------------------------------------------
(* The frame *)

\* How many members of S are at most i: the place of i in S.
Place(S, i) == Cardinality({k \in S : k <= i})

LEMMA PlaceFacts ==
  ASSUME NEW S \in SUBSET Nat, IsFiniteSet(S)
  PROVE  /\ Cardinality(S) \in Nat
         /\ \A i \in S : Place(S, i) \in 1..Cardinality(S)
         /\ \A i, j \in S : i < j => Place(S, i) < Place(S, j)
         /\ \A r \in 1..Cardinality(S) : \E i \in S : Place(S, i) = r
<1> DEFINE upTo(i) == {k \in S : k <= i}
           n == Cardinality(S)
<1>1. n \in Nat
  BY FS_CardinalityType
<1>2. ASSUME NEW i \in S
      PROVE  IsFiniteSet(upTo(i)) /\ Cardinality(upTo(i)) \in 1..n
  <2>1. upTo(i) \in SUBSET S /\ upTo(i) # {}
    OBVIOUS
  <2> HIDE DEF upTo
  <2>2. IsFiniteSet(upTo(i)) /\ Cardinality(upTo(i)) <= n
    BY <2>1, FS_Subset
  <2>3. Cardinality(upTo(i)) \in Nat /\ Cardinality(upTo(i)) # 0
    BY <2>1, <2>2, FS_CardinalityType, FS_EmptySet
  <2> HIDE DEF n
  <2> QED
    BY <1>1, <2>2, <2>3
<1>3. ASSUME NEW i \in S, NEW j \in S, i < j
      PROVE  Cardinality(upTo(i)) < Cardinality(upTo(j))
  <2>1. upTo(i) \in SUBSET upTo(j)
    <3>1. ASSUME NEW k \in S, k <= i
          PROVE  k <= j
      <4>1. k \in Nat /\ i \in Nat /\ j \in Nat
        OBVIOUS
      <4> QED
        BY <1>3, <3>1, <4>1
    <3> QED
      BY <3>1
  <2>2. upTo(i) # upTo(j)
    <3>1. j \in upTo(j) /\ j \notin upTo(i)
      BY <1>3
    <3> QED
      BY <3>1
  <2>3. IsFiniteSet(upTo(j)) /\ Cardinality(upTo(i)) \in Nat /\ Cardinality(upTo(j)) \in Nat
    BY <1>1, <1>2
  <2> HIDE DEF upTo
  <2>4. Cardinality(upTo(i)) <= Cardinality(upTo(j)) /\ Cardinality(upTo(i)) # Cardinality(upTo(j))
    BY <2>1, <2>2, <2>3, FS_Subset
  <2> QED
    BY <2>3, <2>4
<1>4. ASSUME NEW r \in 1..n
      PROVE  \E i \in S : Cardinality(upTo(i)) = r
  <2> DEFINE place == [i \in S |-> Cardinality(upTo(i))]
  <2>1. place \in [S -> 1..n]
    BY <1>2
  <2>2. \A i, j \in S : place[i] = place[j] => i = j
    <3> TAKE i \in S, j \in S
    <3>1. i < j => place[i] < place[j]
      BY <1>3
    <3>2. j < i => place[j] < place[i]
      BY <1>3
    <3> HIDE DEF place
    <3> QED
      BY <1>1, <2>1, <3>1, <3>2
  <2> HIDE DEF place
  <2>3. place \in Injection(S, 1..n)
    BY <2>1, <2>2 DEF Injection, IsInjective
  <2>4. IsFiniteSet(1..n) /\ Cardinality(1..n) = n
    BY <1>1, FS_Interval
  <2>5. place \in Surjection(S, 1..n)
    BY <2>3, <2>4, FS_Injection
  <2>6. \E i \in S : place[i] = r
    BY <2>5 DEF Surjection
  <2> QED
    BY <2>6 DEF place
<1> QED
  BY <1>1, <1>2, <1>3, <1>4 DEF Place

\* In the enumeration of a set of ports in order, each is at its place.
LEMMA InOrderFacts ==
  ASSUME NEW S \in SUBSET Nat, IsFiniteSet(S)
  PROVE  /\ InOrder(S) \in [1..Cardinality(S) -> S]
         /\ \A i \in S : InOrder(S)[Place(S, i)] = i
<1> DEFINE n == Cardinality(S)
           u == InOrder(S)
<1>1. n \in Nat
  BY PlaceFacts
<1>2. \E s \in [1..n -> S] : \A i, j \in DOMAIN s : i < j => s[i] < s[j]
  <2> DEFINE s == [r \in 1..n |-> CHOOSE i \in S : Place(S, i) = r]
  <2>1. \A r \in 1..n : s[r] \in S /\ Place(S, s[r]) = r
    BY PlaceFacts
  <2>2. s \in [1..n -> S] /\ DOMAIN s = 1..n
    BY <2>1
  <2> HIDE DEF s
  <2>3. ASSUME NEW i \in 1..n, NEW j \in 1..n, i < j
        PROVE  s[i] < s[j]
    <3>1. s[i] \in S /\ s[j] \in S /\ Place(S, s[i]) = i /\ Place(S, s[j]) = j
      BY <2>1
    <3>2. i \in Nat /\ j \in Nat /\ s[i] \in Nat /\ s[j] \in Nat
      <4>1. i \in Nat /\ j \in Nat
        BY <1>1
      <4>2. \A x \in S : x \in Nat
        OBVIOUS
      <4> QED
        BY <3>1, <4>1, <4>2
    <3>3. \A k, l \in S : k < l => Place(S, k) < Place(S, l)
      BY PlaceFacts
    <3>4. s[j] < s[i] => j < i
      BY <3>1, <3>3
    <3>5. s[i] # s[j]
      BY <2>3, <3>1, <3>2
    <3> QED
      BY <2>3, <3>2, <3>4, <3>5
  <2> QED
    BY <2>2, <2>3
<1>3. u \in [1..n -> S] /\ \A i, j \in 1..n : i < j => u[i] < u[j]
  <2>1. u \in [1..n -> S] /\ \A i, j \in DOMAIN u : i < j => u[i] < u[j]
    BY <1>2 DEF InOrder
  <2> HIDE DEF u
  <2> QED
    BY <2>1
<1> HIDE DEF u
<1>4. \A i, j \in 1..n : u[i] = u[j] => i = j
  <2> TAKE i \in 1..n, j \in 1..n
  <2>1. u[i] \in Nat /\ u[j] \in Nat
    BY <1>3
  <2>2. (i < j => u[i] < u[j]) /\ (j < i => u[j] < u[i])
    BY <1>3
  <2> QED
    BY <2>1, <2>2
<1>5. u \in Surjection(1..n, S)
  <2>1. u \in Injection(1..n, S)
    BY <1>3, <1>4 DEF Injection, IsInjective
  <2>2. Cardinality(1..n) = n
    BY <1>1, FS_Interval
  <2> QED
    BY <2>1, <2>2, FS_Injection
<1>6. ASSUME NEW i \in S
      PROVE  u[Place(S, i)] = i
  <2>1. PICK r \in 1..n : u[r] = i
    BY <1>5 DEF Surjection
  <2> DEFINE T == {k \in S : k <= i}
             v == [q \in 1..r |-> u[q]]
  <2>2. \A q \in 1..r : q \in 1..n /\ u[q] \in S /\ u[q] <= u[r]
    <3> TAKE q \in 1..r
    <3>1. q \in 1..n /\ (q = r \/ q < r)
      BY <1>1
    <3>2. u[q] \in Nat /\ u[r] \in Nat /\ u[q] \in S
      BY <1>3, <3>1
    <3>3. q < r => u[q] < u[r]
      BY <1>3, <3>1
    <3> QED
      BY <3>1, <3>2, <3>3
  <2>3. v \in [1..r -> T]
    BY <2>1, <2>2
  <2>4. \A k \in T : \E q \in 1..r : v[q] = k
    <3> TAKE k \in T
    <3>1. PICK q \in 1..n : u[q] = k
      BY <1>5 DEF Surjection
    <3>2. ~(r < q)
      BY <1>3, <2>1, <3>1
    <3>3. q \in 1..r
      BY <1>1, <3>2
    <3> QED
      BY <3>1, <3>3
  <2>5. \A q, t \in 1..r : v[q] = v[t] => q = t
    BY <1>4, <2>2
  <2> HIDE DEF v, T
  <2>6. v \in Bijection(1..r, T)
    BY <2>3, <2>4, <2>5 DEF Bijection, Injection, Surjection, IsInjective
  <2>7. IsFiniteSet(1..r) /\ Cardinality(1..r) = r
    BY <1>1, FS_Interval
  <2>8. Cardinality(T) = r
    BY <2>6, <2>7, FS_Bijection DEF ExistsBijection
  <2> QED
    BY <2>1, <2>8 DEF T, Place
<1> QED
  BY <1>3, <1>6 DEF u

\* A byte holds eight of the bits.
LEMMA ByteBits ==
  ASSUME NEW S \in SUBSET Nat, NEW first \in Nat
  PROVE  Bits(Byte(S, first), first) = S \cap first..(first + 7)
<1> DEFINE cut == S \cap first..(first + 7)
<1>1. \A i \in cut : i \in Int /\ (i - first) + first = i
  OBVIOUS
<1>2. Byte(S, first) = {i - first : i \in cut}
  BY DEF Byte
<1>3. Bits(Byte(S, first), first) = {i + first : i \in Byte(S, first)}
  BY DEF Bits
<1> HIDE DEF cut
<1>4. \A x : x \in Bits(Byte(S, first), first) <=> \E i \in cut : x = (i - first) + first
  BY <1>2, <1>3
<1> QED
  BY <1>1, <1>4 DEF cut

LEMMA PortsFinite ==
  IsFiniteSet(Ports) /\ Ports \in SUBSET (0..27) /\ Ports \in SUBSET Nat
<1>1. Ports \in SUBSET (0..27)
  BY PortsAssumption DEF Io, Virtual
<1>2. IsFiniteSet(0..27)
  <2>1. 0 \in Int /\ 27 \in Int
    OBVIOUS
  <2> QED
    BY <2>1, FS_Interval
<1>3. \A p \in 0..27 : p \in Nat
  OBVIOUS
<1>4. Ports \in SUBSET Nat
  BY <1>1, <1>3
<1> QED
  BY <1>1, <1>2, <1>4, FS_Subset

\* The bytes of the frame together hold the sets they were cut from.
LEMMA FrameSets ==
  LET data == MtbBusOutputsData(outputs)
  IN  /\ Bits(data.mask[1], 8) \cup Bits(data.mask[2], 0) = NonPlain(outputs)
      /\ Bits(data.full[1], 24) \cup Bits(data.full[2], 16)
           \cup Bits(data.full[3], 8) \cup Bits(data.full[4], 0) = PlainOn(outputs)
<1> DEFINE M == NonPlain(outputs)
           P == PlainOn(outputs)
<1>1. M \in SUBSET (0..15) /\ M \in SUBSET Nat
  BY DEF NonPlain, Io
<1>2. P \in SUBSET (0..27) /\ P \in SUBSET Nat
  <2>1. P \in SUBSET Ports
    BY DEF PlainOn
  <2> HIDE DEF P
  <2> QED
    BY <2>1, PortsFinite
<1> HIDE DEF M, P
<1>3. Bits(Byte(M, 8), 8) \cup Bits(Byte(M, 0), 0) = M
  <2>1. Bits(Byte(M, 8), 8) = M \cap 8..15 /\ Bits(Byte(M, 0), 0) = M \cap 0..7
    BY <1>1, ByteBits
  <2>2. \A i \in M : i \in 8..15 \/ i \in 0..7
    <3>1. \A i \in 0..15 : i \in 8..15 \/ i \in 0..7
      OBVIOUS
    <3> QED
      BY <1>1, <3>1
  <2> QED
    BY <2>1, <2>2
<1>4. Bits(Byte(P, 24), 24) \cup Bits(Byte(P, 16), 16)
        \cup Bits(Byte(P, 8), 8) \cup Bits(Byte(P, 0), 0) = P
  <2>1. /\ Bits(Byte(P, 24), 24) = P \cap 24..31 /\ Bits(Byte(P, 16), 16) = P \cap 16..23
        /\ Bits(Byte(P, 8), 8) = P \cap 8..15 /\ Bits(Byte(P, 0), 0) = P \cap 0..7
    BY <1>2, ByteBits
  <2>2. \A i \in P : i \in 24..31 \/ i \in 16..23 \/ i \in 8..15 \/ i \in 0..7
    <3>1. \A i \in 0..27 : i \in 24..31 \/ i \in 16..23 \/ i \in 8..15 \/ i \in 0..7
      OBVIOUS
    <3> QED
      BY <1>2, <3>1
  <2> QED
    BY <2>1, <2>2
<1> QED
  BY <1>3, <1>4 DEF M, P, MtbBusOutputsData

\* The code of a non-plain output is the one at its place.
LEMMA FrameCodes ==
  ASSUME NEW p \in NonPlain(outputs)
  PROVE  MtbBusOutputsData(outputs).codes[Place(NonPlain(outputs), p)] = outputs[p]
<1> DEFINE M == NonPlain(outputs)
<1>1. M \in SUBSET Nat /\ IsFiniteSet(M)
  <2>1. M \in SUBSET Ports
    BY DEF NonPlain
  <2>2. M \in SUBSET Nat
    BY <2>1, PortsFinite
  <2> HIDE DEF M
  <2> QED
    BY <2>1, <2>2, PortsFinite, FS_Subset
<1>2. MtbBusOutputsData(outputs).codes = [n \in 1..Cardinality(M) |-> outputs[InOrder(M)[n]]]
  BY DEF MtbBusOutputsData
<1>3. p \in M
  OBVIOUS
<1> HIDE DEF M
<1>4. Place(M, p) \in 1..Cardinality(M) /\ InOrder(M)[Place(M, p)] = p
  BY <1>1, <1>3, PlaceFacts, InOrderFacts
<1> QED
  BY <1>2, <1>4 DEF M

\* moduleOutputsData gets back from a frame the outputs it was made of, on
\* both sides of each byte boundary, whichever outputs carry a code.
THEOREM FramesCarry == Spec => []FrameCarriesOutputs
<1>1. ASSUME OutputsSound
      PROVE  FrameCarriesOutputs
  <2> DEFINE data == MtbBusOutputsData(outputs)
             got  == ModuleOutputsData(data)
             M    == NonPlain(outputs)
             P    == PlainOn(outputs)
  <2>1. got = [i \in Ports |-> IF i \in M THEN data.codes[Place(M, i)]
                               ELSE IF i \in P THEN 1 ELSE 0]
    BY FrameSets DEF ModuleOutputsData, Place
  <2>2. \A i \in M : data.codes[Place(M, i)] = outputs[i]
    BY FrameCodes
  <2> HIDE DEF got, data
  <2>3. ASSUME NEW p \in Ports
        PROVE  IF p \in Io THEN got[p] = outputs[p] ELSE (got[p] > 0) = (outputs[p] > 0)
    <3>1. outputs[p] \in Kept
      BY <1>1 DEF OutputsSound
    <3>2. CASE p \in M
      BY <2>1, <2>2, <3>2 DEF NonPlain
    <3>3. CASE p \notin M /\ p \in Io
      <4>1. outputs[p] \in {0, 1}
        BY <3>1, <3>3 DEF Kept, NonPlain
      <4>2. p \in P <=> outputs[p] = 1
        BY <3>3, <4>1 DEF PlainOn
      <4> QED
        BY <2>1, <3>3, <4>1, <4>2
    <3>4. CASE p \notin Io
      <4>1. p \notin M /\ (p \in P <=> outputs[p] > 0)
        BY <3>4 DEF NonPlain, PlainOn
      <4> HIDE DEF M, P
      <4>2. got[p] = IF p \in P THEN 1 ELSE 0
        BY <2>1, <4>1
      <4> QED
        BY <3>4, <4>1, <4>2
    <3> QED
      BY <3>2, <3>3, <3>4
  <2> QED
    BY <2>3 DEF FrameCarriesOutputs, got, data
<1> QED
  BY <1>1, CodecInvariance, PTL

-----------------------------------------------------------------------------
(* Natural numbers *)

\* A set of natural numbers has a least element.
LEMMA LeastNatural ==
  ASSUME NEW S \in SUBSET Nat, S # {}
  PROVE  \E x \in S : \A y \in S : x <= y
<1>1. IsWellFoundedOn(OpToRel(<, Nat), Nat)
  BY NatLessThanWellFounded
<1>2. PICK x \in S : \A y \in S : ~(<<y, x>> \in OpToRel(<, Nat))
  BY <1>1, WFMin
<1>3. \A y \in S : ~(y < x)
  BY <1>2 DEF OpToRel
<1> QED
  BY <1>3

\* Induction up to n, on the set of the numbers a formula holds for.
LEMMA UpTo ==
  ASSUME NEW n \in Nat, NEW S, 0 \in S,
         \A k \in 1..n : k - 1 \in S => k \in S
  PROVE  \A k \in 0..n : k \in S
<1> DEFINE rest == {k \in 0..n : k \notin S}
<1> SUFFICES ASSUME rest # {} PROVE FALSE
  OBVIOUS
<1>1. PICK x \in rest : \A y \in rest : x <= y
  <2>1. rest \in SUBSET Nat
    OBVIOUS
  <2> HIDE DEF rest
  <2> QED
    BY <2>1, LeastNatural
<1>2. x \in 1..n
  BY <1>1
<1>3. x - 1 \in 0..n /\ ~(x <= x - 1)
  BY <1>2
<1>4. x - 1 \in S
  BY <1>1, <1>3
<1> QED
  BY <1>1, <1>2, <1>4

Iteration(f, n, base, step) ==
  \A i \in 0..n : f[i] = IF i = 0 THEN base ELSE step[i][f[i - 1]]

\* A function may be defined by its value at 0 and by how each value follows
\* from the one before.
LEMMA IterationExists ==
  ASSUME NEW n \in Nat, NEW V, NEW base \in V, NEW step \in [1..n -> [V -> V]]
  PROVE  \E f \in [0..n -> V] : Iteration(f, n, base, step)
<1> DEFINE Eq(f, k) == \A i \in 0..k : f[i] = IF i = 0 THEN base ELSE step[i][f[i - 1]]
           S == {k \in 0..n : \E f \in [0..k -> V] : Eq(f, k)}
<1>1. 0 \in S
  <2> DEFINE f == [i \in 0..0 |-> base]
  <2>1. f \in [0..0 -> V] /\ Eq(f, 0)
    OBVIOUS
  <2> HIDE DEF f, Eq
  <2>2. \E h \in [0..0 -> V] : Eq(h, 0)
    BY <2>1
  <2> QED
    BY <2>2
<1>2. ASSUME NEW k \in 1..n, k - 1 \in S
      PROVE  k \in S
  <2>1. PICK f \in [0..(k - 1) -> V] : Eq(f, k - 1)
    BY <1>2
  <2> DEFINE g == [i \in 0..k |-> IF i = k THEN step[k][f[k - 1]] ELSE f[i]]
  <2>2. k - 1 \in 0..(k - 1) /\ \A i \in 0..k : i # k => i \in 0..(k - 1)
    OBVIOUS
  <2>3. step[k][f[k - 1]] \in V
    BY <2>2
  <2>4. g \in [0..k -> V]
    BY <2>2, <2>3
  <2>5. Eq(g, k)
    <3> SUFFICES ASSUME NEW i \in 0..k
                 PROVE  g[i] = IF i = 0 THEN base ELSE step[i][g[i - 1]]
      OBVIOUS
    <3>1. CASE i = k
      <4>1. k - 1 \in 0..k /\ k - 1 # k /\ i # 0
        BY <3>1
      <4>2. g[k - 1] = f[k - 1] /\ g[i] = step[k][f[k - 1]]
        BY <3>1, <4>1
      <4> HIDE DEF g
      <4> QED
        BY <3>1, <4>1, <4>2
    <3>2. CASE i # k
      <4>1. i \in 0..(k - 1) /\ g[i] = f[i]
        BY <2>2, <3>2
      <4>2. i # 0 => i - 1 \in 0..k /\ i - 1 # k
        OBVIOUS
      <4>3. i # 0 => g[i - 1] = f[i - 1]
        BY <4>2
      <4> HIDE DEF g
      <4> QED
        BY <2>1, <4>1, <4>3
    <3> QED
      BY <3>1, <3>2
  <2> HIDE DEF g, Eq
  <2>6. \E h \in [0..k -> V] : Eq(h, k)
    BY <2>4, <2>5
  <2> QED
    BY <2>6
<1> HIDE DEF S
<1>3. n \in S
  <2>1. \A k \in 0..n : k \in S
    BY <1>1, <1>2, UpTo
  <2> QED
    BY <2>1
<1>4. PICK f \in [0..n -> V] : Eq(f, n)
  BY <1>3 DEF S
<1> QED
  BY <1>4 DEF Iteration

LEMMA DivMod ==
  ASSUME NEW n \in Nat \ {0}, NEW a \in Nat
  PROVE  a \div n \in Nat /\ a % n \in 0..(n - 1) /\ a = (a \div n) * n + (a % n)
OBVIOUS

LEMMA DivUnique ==
  ASSUME NEW n \in Nat \ {0}, NEW q \in Nat, NEW r \in 0..(n - 1)
  PROVE  /\ q * n + r \in Nat
         /\ (q * n + r) \div n = q
         /\ (q * n + r) % n = r
OBVIOUS

LEMMA DivDiv ==
  ASSUME NEW m \in Nat \ {0}, NEW n \in Nat \ {0}, NEW a \in Nat
  PROVE  a \div (m * n) = (a \div m) \div n
<1> DEFINE q == a \div m
           r == a % m
           t == q \div n
           u == q % n
<1>1. q \in Nat /\ r \in 0..(m - 1) /\ a = q * m + r
  BY DivMod
<1>2. t \in Nat /\ u \in 0..(n - 1) /\ q = t * n + u
  BY <1>1, DivMod
<1> HIDE DEF q, r, t, u
<1>3. a = t * (m * n) + (u * m + r)
  BY <1>1, <1>2
<1>4. u * m \in Nat /\ u * m <= (n - 1) * m
  BY <1>2
<1>5. (n - 1) * m = m * n - m /\ m * n \in Nat \ {0}
  OBVIOUS
<1>6. u * m + r \in 0..(m * n - 1)
  BY <1>1, <1>4, <1>5
<1>7. (t * (m * n) + (u * m + r)) \div (m * n) = t
  BY <1>2, <1>5, <1>6, DivUnique
<1> QED
  BY <1>3, <1>7 DEF q, t

-----------------------------------------------------------------------------
(* The firmware *)

Segments == [addr : Nat, data : Seq(Nat)]
Block    == [0..(BlockSize - 1) -> Nat]
Memories == UNION {[D -> Block] : D \in SUBSET Nat}

\* The byte at an address, also where there is no block yet.
ByteAt(fw, addr) ==
  IF addr \div BlockSize \in DOMAIN fw THEN fw[addr \div BlockSize][addr % BlockSize] ELSE Unwritten

Blocks(segment) == {(segment.addr + i - 1) \div BlockSize : i \in DOMAIN segment.data}

IsAt(segment, addr) == addr \in segment.addr..(segment.addr + Len(segment.data) - 1)

LEMMA FirmwareType ==
  ASSUME NEW fw
  PROVE  fw \in Memories <=> DOMAIN fw \in SUBSET Nat /\ fw \in [DOMAIN fw -> Block]
BY DEF Memories

LEMMA BlankType == Blank \in Block /\ \A i \in 0..(BlockSize - 1) : Blank[i] = Unwritten
BY DEF Blank, Block, Unwritten

\* r is fw with the byte v at a.
Written(r, fw, a, v) ==
  /\ r \in Memories
  /\ DOMAIN r = DOMAIN fw \cup {a \div BlockSize}
  /\ \A addr \in Nat : ByteAt(r, addr) = IF addr = a THEN v ELSE ByteAt(fw, addr)

\* parseFirmware's loop writes one byte and adds at most its block.
LEMMA PutByteFacts ==
  ASSUME NEW fw \in Memories, NEW a \in Nat, NEW v \in Nat
  PROVE  Written(PutByte(fw, a, v), fw, a, v)
<1> DEFINE block == a \div BlockSize
           off   == a % BlockSize
           old   == IF block \in DOMAIN fw THEN fw[block] ELSE Blank
           new   == [old EXCEPT ![off] = v]
           r     == PutByte(fw, a, v)
<1>1. block \in Nat /\ off \in 0..(BlockSize - 1) /\ a = block * BlockSize + off
  BY DivMod, SizesAssumption
<1>2. DOMAIN fw \in SUBSET Nat /\ fw \in [DOMAIN fw -> Block]
  BY FirmwareType
<1>3. r = [b \in DOMAIN fw \cup {block} |-> IF b = block THEN new ELSE fw[b]]
  BY DEF PutByte
<1>4. old \in Block
  BY <1>2, BlankType
<1>5. \A i \in 0..(BlockSize - 1) :
        old[i] = IF block \in DOMAIN fw THEN fw[block][i] ELSE Unwritten
  BY BlankType
<1> HIDE DEF old
<1>6. new \in Block /\ \A i \in 0..(BlockSize - 1) : new[i] = IF i = off THEN v ELSE old[i]
  BY <1>1, <1>4 DEF Block
<1> HIDE DEF new, block, off, r
<1>7. DOMAIN r = DOMAIN fw \cup {block} /\ r \in [DOMAIN fw \cup {block} -> Block]
  BY <1>2, <1>3, <1>6
<1>8. r \in Memories
  BY <1>1, <1>2, <1>7, FirmwareType
<1>9. ASSUME NEW addr \in Nat
       PROVE  ByteAt(r, addr) = IF addr = a THEN v ELSE ByteAt(fw, addr)
  <2> DEFINE q == addr \div BlockSize
             o == addr % BlockSize
  <2>1. q \in Nat /\ o \in 0..(BlockSize - 1) /\ addr = q * BlockSize + o
    BY DivMod, SizesAssumption
  <2>2. ByteAt(r, addr) = IF q \in DOMAIN r THEN r[q][o] ELSE Unwritten
    BY DEF ByteAt
  <2>3. ByteAt(fw, addr) = IF q \in DOMAIN fw THEN fw[q][o] ELSE Unwritten
    BY DEF ByteAt
  <2>4. addr = a => q = block /\ o = off
    BY DEF block, off
  <2> HIDE DEF q, o
  <2>5. CASE q # block
    <3>1. addr # a
      BY <2>4, <2>5
    <3>2. q \in DOMAIN r <=> q \in DOMAIN fw
      BY <1>7, <2>5
    <3>3. q \in DOMAIN fw => r[q] = fw[q]
      BY <1>3, <2>5
    <3> QED
      BY <2>2, <2>3, <3>1, <3>2, <3>3
  <2>6. CASE q = block
    <3>1. addr = a <=> o = off
      BY <1>1, <2>1, <2>4, <2>6
    <3>2. r[q] = new /\ q \in DOMAIN r
      BY <1>3, <1>7, <2>6
    <3>3. ByteAt(r, addr) = IF o = off THEN v ELSE old[o]
      BY <1>6, <2>1, <2>2, <3>2
    <3>4. ByteAt(fw, addr) = old[o]
      BY <1>5, <2>1, <2>3, <2>6
    <3> QED
      BY <3>1, <3>3, <3>4
  <2> QED
    BY <2>5, <2>6
<1> QED
  BY <1>7, <1>8, <1>9 DEF r, block, Written

\* Writing the first k bytes of a segment, as the loop does.
PutUpTo(fw, segment, put) ==
  put = [i \in 0..Len(segment.data) |->
           IF i = 0 THEN fw ELSE PutByte(put[i - 1], segment.addr + i - 1, segment.data[i])]

LEMMA SegmentFacts ==
  ASSUME NEW segment \in Segments
  PROVE  /\ segment.addr \in Nat /\ Len(segment.data) \in Nat
         /\ DOMAIN segment.data = 1..Len(segment.data)
         /\ \A i \in 1..Len(segment.data) : segment.data[i] \in Nat /\ segment.addr + i - 1 \in Nat
BY DEF Segments

LEMMA PutExists ==
  ASSUME NEW fw \in Memories, NEW segment \in Segments
  PROVE  \E put : PutUpTo(fw, segment, put) /\ PutSegment(fw, segment) = put[Len(segment.data)]
<1> DEFINE n == Len(segment.data)
           step == [i \in 1..n |-> [w \in Memories |->
                      PutByte(w, segment.addr + i - 1, segment.data[i])]]
           put == CHOOSE put : PutUpTo(fw, segment, put)
<1>1. n \in Nat
  BY SegmentFacts
<1>2. \A i \in 1..n : \A w \in Memories :
        PutByte(w, segment.addr + i - 1, segment.data[i]) \in Memories
  BY SegmentFacts, PutByteFacts DEF Written
<1>3. step \in [1..n -> [Memories -> Memories]]
  BY <1>2
<1>4. \A i \in 1..n : \A w \in Memories :
        step[i][w] = PutByte(w, segment.addr + i - 1, segment.data[i])
  OBVIOUS
<1> HIDE DEF step
<1>5. PICK f \in [0..n -> Memories] : Iteration(f, n, fw, step)
  <2> HIDE DEF n
  <2> QED
    BY <1>1, <1>3, IterationExists
<1>6. \A i \in 0..n : i # 0 => /\ i \in 1..n /\ i - 1 \in 0..n
                               /\ step[i][f[i - 1]] = PutByte(f[i - 1], segment.addr + i - 1, segment.data[i])
  <2> TAKE i \in 0..n
  <2> HAVE i # 0
  <2>1. i \in 1..n /\ i - 1 \in 0..n
    BY <1>1
  <2>2. f[i - 1] \in Memories
    BY <2>1
  <2> QED
    BY <1>4, <2>1, <2>2
<1>7. f = [i \in 0..n |-> IF i = 0 THEN fw
                           ELSE PutByte(f[i - 1], segment.addr + i - 1, segment.data[i])]
  BY <1>5, <1>6 DEF Iteration
<1>8. PutUpTo(fw, segment, f)
  BY <1>7 DEF PutUpTo
<1>9. PutUpTo(fw, segment, put)
  <2> HIDE DEF n
  <2> QED
    BY <1>8
<1>10. PutSegment(fw, segment) = put[n]
  BY DEF PutSegment, PutUpTo
<1> QED
  BY <1>9, <1>10

\* r is fw with the segment at its addresses.
SegmentWritten(r, fw, segment) ==
  /\ r \in Memories
  /\ DOMAIN r = DOMAIN fw \cup Blocks(segment)
  /\ \A addr \in Nat :
       ByteAt(r, addr) = IF IsAt(segment, addr)
                         THEN segment.data[addr - segment.addr + 1] ELSE ByteAt(fw, addr)

\* A segment is written at its addresses and nowhere else.
LEMMA PutSegmentFacts ==
  ASSUME NEW fw \in Memories, NEW segment \in Segments
  PROVE  SegmentWritten(PutSegment(fw, segment), fw, segment)
<1> DEFINE n == Len(segment.data)
           base == segment.addr
           Done(k, w) ==
             /\ w \in Memories
             /\ DOMAIN w = DOMAIN fw \cup {(base + i - 1) \div BlockSize : i \in 1..k}
             /\ \A addr \in Nat :
                  ByteAt(w, addr) = IF addr \in base..(base + k - 1)
                                    THEN segment.data[addr - base + 1] ELSE ByteAt(fw, addr)
<1>1. PICK put : PutUpTo(fw, segment, put) /\ PutSegment(fw, segment) = put[n]
  BY PutExists
<1>2. n \in Nat /\ base \in Nat
  BY SegmentFacts
<1>3. put[0] = fw /\ \A k \in 1..n : put[k] = PutByte(put[k - 1], base + k - 1, segment.data[k])
  <2>1. put = [i \in 0..n |-> IF i = 0 THEN fw ELSE PutByte(put[i - 1], base + i - 1, segment.data[i])]
    BY <1>1 DEF PutUpTo
  <2>2. 0 \in 0..n /\ \A k \in 1..n : k \in 0..n /\ k # 0
    BY <1>2
  <2> HIDE DEF n, base
  <2> QED
    BY <2>1, <2>2
<1> DEFINE S == {k \in 0..n : Done(k, put[k])}
<1>4. Done(0, put[0])
  <2>1. {(base + i - 1) \div BlockSize : i \in 1..0} = {}
    OBVIOUS
  <2>2. \A addr \in Nat : addr \notin base..(base + 0 - 1)
    BY <1>2
  <2> HIDE DEF base
  <2> QED
    BY <1>3, <2>1, <2>2
<1>5. ASSUME NEW k \in 1..n, Done(k - 1, put[k - 1])
      PROVE  Done(k, put[k])
  <2> DEFINE w == put[k - 1]
             r == put[k]
             a == base + k - 1
             v == segment.data[k]
  <2>1. a \in Nat /\ v \in Nat
    BY SegmentFacts
  <2>2. r = PutByte(w, a, v)
    BY <1>3
  <2>3. /\ w \in Memories
        /\ DOMAIN w = DOMAIN fw \cup {(base + i - 1) \div BlockSize : i \in 1..(k - 1)}
        /\ \A addr \in Nat :
             ByteAt(w, addr) = IF addr \in base..(base + (k - 1) - 1)
                               THEN segment.data[addr - base + 1] ELSE ByteAt(fw, addr)
    BY <1>5
  <2> HIDE DEF w, r, a, v
  <2>4. /\ r \in Memories
        /\ DOMAIN r = DOMAIN w \cup {a \div BlockSize}
        /\ \A addr \in Nat : ByteAt(r, addr) = IF addr = a THEN v ELSE ByteAt(w, addr)
    <3>1. w \in Memories
      BY <2>3
    <3>2. Written(PutByte(w, a, v), w, a, v)
      BY <2>1, <3>1, PutByteFacts
    <3> QED
      BY <2>2, <3>2 DEF Written
  <2>5. \A i : i \in 1..k <=> i \in 1..(k - 1) \/ i = k
    BY <1>2
  <2>6. DOMAIN r = DOMAIN fw \cup {(base + i - 1) \div BlockSize : i \in 1..k}
    <3>1. {(base + i - 1) \div BlockSize : i \in 1..k}
            = {(base + i - 1) \div BlockSize : i \in 1..(k - 1)} \cup {(base + k - 1) \div BlockSize}
      BY <2>5
    <3> QED
      BY <2>3, <2>4, <3>1 DEF a
  <2>7. ASSUME NEW addr \in Nat
        PROVE  ByteAt(r, addr) = IF addr \in base..(base + k - 1)
                                 THEN segment.data[addr - base + 1] ELSE ByteAt(fw, addr)
    <3>1. CASE addr = a
      <4>1. addr \in base..(base + k - 1) /\ addr - base + 1 = k
        BY <1>2, <3>1 DEF a
      <4> HIDE DEF base
      <4> QED
        BY <2>4, <3>1, <4>1 DEF v
    <3>2. CASE addr # a
      <4>1. addr \in base..(base + k - 1) <=> addr \in base..(base + (k - 1) - 1)
        BY <1>2, <3>2 DEF a
      <4> HIDE DEF base
      <4> QED
        BY <2>3, <2>4, <3>2, <4>1
    <3> QED
      BY <3>1, <3>2
  <2> QED
    BY <2>4, <2>6, <2>7 DEF r
<1> HIDE DEF Done
<1>6. 0 \in S /\ \A k \in 1..n : k - 1 \in S => k \in S
  BY <1>2, <1>4, <1>5
<1> HIDE DEF S, n
<1>7. \A k \in 0..n : k \in S
  BY <1>2, <1>6, UpTo
<1>8. Done(n, put[n])
  <2>1. n \in 0..n
    BY <1>2
  <2>2. n \in S
    BY <1>7, <2>1
  <2> QED
    BY <2>2 DEF S
<1>9. Blocks(segment) = {(base + i - 1) \div BlockSize : i \in 1..n}
  BY SegmentFacts DEF Blocks, n
<1>10. \A addr : IsAt(segment, addr) <=> addr \in base..(base + n - 1)
  BY DEF IsAt, n
<1> QED
  BY <1>1, <1>8, <1>9, <1>10 DEF Done, SegmentWritten

\* Joining the first n segments, as parseFirmware does.
ParseUpTo(segments, parsed) ==
  parsed = [n \in 0..Len(segments) |->
              IF n = 0 THEN <<>> ELSE PutSegment(parsed[n - 1], segments[n])]

LEMMA EmptyMemory == <<>> \in Memories /\ DOMAIN <<>> = {}
<1>1. DOMAIN <<>> = {} /\ <<>> \in [{} -> Block]
  OBVIOUS
<1> QED
  BY <1>1 DEF Memories

LEMMA ParseExists ==
  ASSUME NEW segments \in Seq(Segments)
  PROVE  \E parsed : ParseUpTo(segments, parsed) /\ ParseFirmware(segments) = parsed[Len(segments)]
<1> DEFINE n == Len(segments)
           step == [i \in 1..n |-> [w \in Memories |-> PutSegment(w, segments[i])]]
           parsed == CHOOSE parsed : ParseUpTo(segments, parsed)
<1>1. n \in Nat /\ \A i \in 1..n : segments[i] \in Segments
  OBVIOUS
<1>2. \A i \in 1..n : \A w \in Memories : PutSegment(w, segments[i]) \in Memories
  BY <1>1, PutSegmentFacts DEF SegmentWritten
<1>3. step \in [1..n -> [Memories -> Memories]]
  BY <1>2
<1>4. \A i \in 1..n : \A w \in Memories : step[i][w] = PutSegment(w, segments[i])
  OBVIOUS
<1> HIDE DEF step
<1>5. PICK f \in [0..n -> Memories] : Iteration(f, n, <<>>, step)
  <2> HIDE DEF n
  <2> QED
    BY <1>1, <1>3, EmptyMemory, IterationExists
<1>6. \A i \in 0..n : i # 0 => step[i][f[i - 1]] = PutSegment(f[i - 1], segments[i])
  <2> TAKE i \in 0..n
  <2> HAVE i # 0
  <2>1. i \in 1..n /\ i - 1 \in 0..n
    BY <1>1
  <2>2. f[i - 1] \in Memories
    BY <2>1
  <2> QED
    BY <1>4, <2>1, <2>2
<1>7. f = [i \in 0..n |-> IF i = 0 THEN <<>> ELSE PutSegment(f[i - 1], segments[i])]
  BY <1>5, <1>6 DEF Iteration
<1>8. ParseUpTo(segments, f)
  BY <1>7 DEF ParseUpTo
<1>9. ParseUpTo(segments, parsed)
  <2> HIDE DEF n
  <2> QED
    BY <1>8
<1>10. ParseFirmware(segments) = parsed[n]
  BY DEF ParseFirmware, ParseUpTo
<1> QED
  BY <1>9, <1>10

\* The segment j is the last of the first n that has a byte for the address.
LastAt(segments, n, addr, j) ==
  /\ j \in 1..n /\ IsAt(segments[j], addr)
  /\ \A l \in 1..n : j < l => ~IsAt(segments[l], addr)

\* w holds the first n segments: their blocks, at each address the byte of the
\* last segment that has one, and nothing where none has.
Joined(w, segments, n) ==
  /\ w \in Memories
  /\ \A b : b \in DOMAIN w <=> \E j \in 1..n : b \in Blocks(segments[j])
  /\ \A addr \in Nat, j \in 1..n : LastAt(segments, n, addr, j) =>
       ByteAt(w, addr) = segments[j].data[addr - segments[j].addr + 1]
  /\ \A addr \in Nat : (\A j \in 1..n : ~IsAt(segments[j], addr)) => ByteAt(w, addr) = Unwritten

\* parseFirmware joins the segments.
LEMMA ParseFacts ==
  ASSUME NEW segments \in Seq(Segments)
  PROVE  Joined(ParseFirmware(segments), segments, Len(segments))
<1> DEFINE n == Len(segments)
<1>1. PICK parsed : ParseUpTo(segments, parsed) /\ ParseFirmware(segments) = parsed[n]
  BY ParseExists
<1>2. n \in Nat /\ \A i \in 1..n : segments[i] \in Segments
  OBVIOUS
<1>3. parsed[0] = <<>> /\ \A k \in 1..n : parsed[k] = PutSegment(parsed[k - 1], segments[k])
  <2>1. parsed = [i \in 0..n |-> IF i = 0 THEN <<>> ELSE PutSegment(parsed[i - 1], segments[i])]
    BY <1>1 DEF ParseUpTo
  <2>2. 0 \in 0..n /\ \A k \in 1..n : k \in 0..n /\ k # 0
    BY <1>2
  <2> HIDE DEF n
  <2> QED
    BY <2>1, <2>2
<1> DEFINE S == {k \in 0..n : Joined(parsed[k], segments, k)}
<1>4. Joined(parsed[0], segments, 0)
  <2>1. \A j : j \notin 1..0
    OBVIOUS
  <2>2. \A addr : ByteAt(<<>>, addr) = Unwritten
    BY EmptyMemory DEF ByteAt
  <2> QED
    BY <1>3, <2>1, <2>2, EmptyMemory DEF Joined
<1>5. ASSUME NEW k \in 1..n, Joined(parsed[k - 1], segments, k - 1)
      PROVE  Joined(parsed[k], segments, k)
  <2> DEFINE w == parsed[k - 1]
             r == parsed[k]
             s == segments[k]
  <2>1. r = PutSegment(w, s) /\ s \in Segments
    BY <1>2, <1>3
  <2>2. Joined(w, segments, k - 1)
    BY <1>5
  <2>3. \A j : j \in 1..k <=> j \in 1..(k - 1) \/ j = k
    BY <1>2
  <2> HIDE DEF w, r, n
  <2>4. SegmentWritten(r, w, s)
    <3>1. w \in Memories
      BY <2>2 DEF Joined
    <3> HIDE DEF s
    <3> QED
      BY <2>1, <3>1, PutSegmentFacts
  <2>5. ASSUME NEW b
        PROVE  b \in DOMAIN r <=> \E j \in 1..k : b \in Blocks(segments[j])
    <3>1. b \in DOMAIN w <=> \E j \in 1..(k - 1) : b \in Blocks(segments[j])
      BY <2>2 DEF Joined
    <3>2. b \in DOMAIN r <=> b \in DOMAIN w \/ b \in Blocks(segments[k])
      BY <2>4 DEF SegmentWritten
    <3> QED
      BY <2>3, <3>1, <3>2
  <2>6. \A addr \in Nat :
          ByteAt(r, addr) = IF IsAt(s, addr) THEN s.data[addr - s.addr + 1] ELSE ByteAt(w, addr)
    BY <2>4 DEF SegmentWritten
  <2>7. ASSUME NEW addr \in Nat, NEW j \in 1..k, LastAt(segments, k, addr, j)
        PROVE  ByteAt(r, addr) = segments[j].data[addr - segments[j].addr + 1]
    <3>1. CASE j = k
      BY <2>6, <2>7, <3>1 DEF LastAt
    <3>2. CASE j # k
      <4>1. j \in 1..(k - 1) /\ j < k /\ k \in 1..k
        BY <1>2, <3>2
      <4>2. ~IsAt(s, addr)
        BY <2>7, <4>1 DEF LastAt
      <4>3. LastAt(segments, k - 1, addr, j)
        BY <2>3, <2>7, <4>1 DEF LastAt
      <4>4. ByteAt(w, addr) = segments[j].data[addr - segments[j].addr + 1]
        BY <2>2, <4>1, <4>3 DEF Joined
      <4> QED
        BY <2>6, <4>2, <4>4
    <3> QED
      BY <3>1, <3>2
  <2>8. ASSUME NEW addr \in Nat, \A j \in 1..k : ~IsAt(segments[j], addr)
        PROVE  ByteAt(r, addr) = Unwritten
    <3>1. ~IsAt(s, addr) /\ \A j \in 1..(k - 1) : ~IsAt(segments[j], addr)
      BY <2>3, <2>8
    <3>2. ByteAt(w, addr) = Unwritten
      BY <2>2, <3>1 DEF Joined
    <3> QED
      BY <2>6, <3>1, <3>2
  <2>9. r \in Memories
    BY <2>4 DEF SegmentWritten
  <2>10. Joined(r, segments, k)
    BY <2>5, <2>7, <2>8, <2>9 DEF Joined
  <2> QED
    BY <2>10 DEF r
<1>6. 0 \in S /\ \A k \in 1..n : k - 1 \in S => k \in S
  BY <1>2, <1>4, <1>5
<1> HIDE DEF S, n
<1>7. \A k \in 0..n : k \in S
  BY <1>2, <1>6, UpTo
<1>8. Joined(parsed[n], segments, n)
  <2>1. n \in 0..n
    BY <1>2
  <2>2. n \in S
    BY <1>7, <2>1
  <2> QED
    BY <2>2 DEF S
<1> QED
  BY <1>1, <1>8 DEF n

\* A finite set of natural numbers has a greatest element.
LEMMA GreatestNatural ==
  ASSUME NEW n \in Nat, NEW S \in SUBSET (1..n), S # {}
  PROVE  Max(S) \in S /\ \A y \in S : y <= Max(S)
<1> DEFINE D == {n - x : x \in S}
<1>1. D \in SUBSET Nat /\ D # {}
  OBVIOUS
<1>2. PICK d \in D : \A y \in D : d <= y
  <2> HIDE DEF D
  <2> QED
    BY <1>1, LeastNatural
<1>3. PICK x \in S : d = n - x
  BY <1>2
<1>4. \A y \in S : x >= y
  <2> TAKE y \in S
  <2>1. n - x <= n - y
    BY <1>2, <1>3
  <2>2. x \in Nat /\ y \in Nat
    OBVIOUS
  <2> QED
    BY <2>1, <2>2
<1>5. \E z \in S : \A y \in S : z >= y
  BY <1>4
<1>6. Max(S) \in S /\ \A y \in S : Max(S) >= y
  BY <1>5 DEF Max
<1>7. \A y \in S : y \in Nat
  OBVIOUS
<1> HIDE DEF D
<1> QED
  BY <1>6, <1>7

\* What FirmwareJoined expects at an address is the byte of the last segment
\* that has one.
LEMMA SentToFacts ==
  ASSUME upgrade \in Seq(Segments), NEW addr \in Nat
  PROVE  \/ /\ \A j \in 1..Len(upgrade) : ~IsAt(upgrade[j], addr)
            /\ SentTo(addr) = Unwritten
         \/ \E j \in 1..Len(upgrade) :
              /\ LastAt(upgrade, Len(upgrade), addr, j)
              /\ SentTo(addr) = upgrade[j].data[addr - upgrade[j].addr + 1]
<1> DEFINE n == Len(upgrade)
           I == {i \in 1..n : IsAt(upgrade[i], addr)}
           last == IF I # {} THEN Max(I) ELSE 0
<1>1. SentTo(addr) = IF last = 0 THEN Unwritten ELSE upgrade[last].data[addr - upgrade[last].addr + 1]
  BY DEF SentTo, SelectLastInSeq, IsAt
<1>2. n \in Nat
  OBVIOUS
<1>3. CASE I = {}
  BY <1>1, <1>3
<1>4. CASE I # {}
  <2>1. I \in SUBSET (1..n)
    OBVIOUS
  <2>2. last \in I /\ \A y \in I : y <= last
    <3> HIDE DEF I, n
    <3> QED
      BY <1>2, <1>4, <2>1, GreatestNatural
  <2> HIDE DEF last
  <2>3. last \in 1..n /\ IsAt(upgrade[last], addr)
    BY <2>2
  <2>4. last # 0
    BY <1>2, <2>3
  <2>5. \A l \in 1..n : last < l => ~IsAt(upgrade[l], addr)
    <3> SUFFICES ASSUME NEW l \in 1..n, last < l, IsAt(upgrade[l], addr) PROVE FALSE
      OBVIOUS
    <3>1. l <= last
      BY <2>2
    <3> QED
      BY <1>2, <2>3, <3>1
  <2>6. LastAt(upgrade, n, addr, last)
    BY <2>3, <2>5 DEF LastAt
  <2> QED
    BY <1>1, <2>3, <2>4, <2>6
<1> QED
  BY <1>3, <1>4

\* Every byte of the joined segments is the one sent last to its address.
LEMMA ParsedBytes ==
  ASSUME upgrade \in Seq(Segments), NEW addr \in Nat
  PROVE  ByteAt(ParseFirmware(upgrade), addr) = SentTo(addr)
<1> DEFINE w == ParseFirmware(upgrade)
           n == Len(upgrade)
<1>1. Joined(w, upgrade, n)
  BY ParseFacts
<1> HIDE DEF w
<1>2. CASE (\A j \in 1..n : ~IsAt(upgrade[j], addr)) /\ SentTo(addr) = Unwritten
  <2>1. ByteAt(w, addr) = Unwritten
    BY <1>1, <1>2 DEF Joined
  <2> QED
    BY <1>2, <2>1 DEF w
<1>3. ASSUME NEW j \in 1..n, LastAt(upgrade, n, addr, j),
             SentTo(addr) = upgrade[j].data[addr - upgrade[j].addr + 1]
      PROVE  ByteAt(w, addr) = SentTo(addr)
  <2> HIDE DEF n
  <2>1. ByteAt(w, addr) = upgrade[j].data[addr - upgrade[j].addr + 1]
    BY <1>1, <1>3 DEF Joined
  <2> QED
    BY <1>3, <2>1
<1> QED
  BY <1>2, <1>3, SentToFacts DEF w

-----------------------------------------------------------------------------
(* Pages *)

PageOf(addr) == addr \div (BlockSize * BlocksPerPage)

\* The pages that a segment has a byte in.
Pages(segment) == {PageOf(segment.addr + i - 1) : i \in DOMAIN segment.data}

LEMMA PagesOfBlocks ==
  ASSUME NEW segment \in Segments
  PROVE  Pages(segment) = {b \div BlocksPerPage : b \in Blocks(segment)}
<1>1. \A i \in DOMAIN segment.data :
        PageOf(segment.addr + i - 1) = ((segment.addr + i - 1) \div BlockSize) \div BlocksPerPage
  <2> TAKE i \in DOMAIN segment.data
  <2>1. segment.addr + i - 1 \in Nat
    BY SegmentFacts
  <2> QED
    BY <2>1, DivDiv, SizesAssumption DEF PageOf
<1> DEFINE at(i) == segment.addr + i - 1
<1>2. Pages(segment) = {(at(i) \div BlockSize) \div BlocksPerPage : i \in DOMAIN segment.data}
  BY <1>1 DEF Pages
<1>3. Blocks(segment) = {at(i) \div BlockSize : i \in DOMAIN segment.data}
  BY DEF Blocks
<1> HIDE DEF at
<1> QED
  BY <1>2, <1>3

\* r is fw with the pages in the set filled up with blank blocks.
Aligned(r, fw, pages) ==
  /\ DOMAIN r = {page * BlocksPerPage + i : page \in pages, i \in 0..(BlocksPerPage - 1)}
  /\ \A b \in DOMAIN r : r[b] = IF b \in DOMAIN fw THEN fw[b] ELSE Blank

\* alignFirmware completes the pages of the blocks there are with blank blocks.
LEMMA AlignFacts ==
  ASSUME NEW fw \in Memories
  PROVE  Aligned(AlignFirmware(fw), fw, {b \div BlocksPerPage : b \in DOMAIN fw})
<1> DEFINE pages == {b \div BlocksPerPage : b \in DOMAIN fw}
           blocks == {page * BlocksPerPage + i : page \in pages, i \in 0..(BlocksPerPage - 1)}
           r == AlignFirmware(fw)
<1>1. r = [b \in DOMAIN fw \cup blocks |-> IF b \in DOMAIN fw THEN fw[b] ELSE Blank]
  BY DEF AlignFirmware
<1>2. ASSUME NEW b \in DOMAIN fw
      PROVE  b \in blocks
  <2>1. b \in Nat
    BY FirmwareType
  <2>2. b % BlocksPerPage \in 0..(BlocksPerPage - 1)
        /\ b = (b \div BlocksPerPage) * BlocksPerPage + (b % BlocksPerPage)
    BY <2>1, DivMod, SizesAssumption
  <2>3. b \div BlocksPerPage \in pages
    OBVIOUS
  <2> HIDE DEF pages
  <2> QED
    BY <2>2, <2>3
<1>3. DOMAIN fw \cup blocks = blocks
  BY <1>2
<1> HIDE DEF blocks
<1>4. DOMAIN r = blocks /\ \A b \in blocks : r[b] = IF b \in DOMAIN fw THEN fw[b] ELSE Blank
  BY <1>1, <1>3
<1> QED
  BY <1>4 DEF blocks, Aligned

\* The pages of the joined segments are those that a segment touches.
LEMMA ParsedPages ==
  ASSUME upgrade \in Seq(Segments)
  PROVE  {b \div BlocksPerPage : b \in DOMAIN ParseFirmware(upgrade)}
           = UNION {Pages(s) : s \in Range(upgrade)}
<1> DEFINE D == DOMAIN ParseFirmware(upgrade)
           n == Len(upgrade)
<1>1. \A b : b \in D <=> \E j \in 1..n : b \in Blocks(upgrade[j])
  BY ParseFacts DEF Joined
<1>2. Range(upgrade) = {upgrade[j] : j \in 1..n}
  BY DEF Range
<1>3. \A j \in 1..n : Pages(upgrade[j]) = {b \div BlocksPerPage : b \in Blocks(upgrade[j])}
  <2> TAKE j \in 1..n
  <2>1. upgrade[j] \in Segments
    OBVIOUS
  <2> QED
    BY <2>1, PagesOfBlocks
<1> HIDE DEF D, n
<1>4. \A page : page \in {b \div BlocksPerPage : b \in D}
                  <=> \E j \in 1..n : page \in Pages(upgrade[j])
  <2> TAKE page
  <2>1. page \in {b \div BlocksPerPage : b \in D} <=> \E b \in D : page = b \div BlocksPerPage
    OBVIOUS
  <2>2. \A j \in 1..n : page \in Pages(upgrade[j])
                          <=> \E b \in Blocks(upgrade[j]) : page = b \div BlocksPerPage
    BY <1>3
  <2> QED
    BY <1>1, <2>1, <2>2
<1> QED
  BY <1>2, <1>4 DEF D

-----------------------------------------------------------------------------
(* The theorem on firmware *)

\* The firmware of a module under upgrade is that of the segments asked for.
FirmwareSound ==
  Upgrading => /\ upgrade \in Seq(Segments)
               /\ firmware = AlignFirmware(ParseFirmware(upgrade))

LEMMA FirmwareStep ==
  ASSUME FirmwareSound, [Next]_vars
  PROVE  FirmwareSound'
<1>1. ASSUME NEW p \in Ports, NEW json \in Outputs, JsonSetOutput(p, json)
      PROVE  FirmwareSound'
  BY <1>1 DEF JsonSetOutput, FirmwareSound, Upgrading, fwVars
<1>2. ASSUME NEW config, JsonSetConfig(config)
      PROVE  FirmwareSound'
  BY <1>2 DEF JsonSetConfig, FirmwareSound, Upgrading, fwVars
<1>3. CASE SaveConfig
  BY <1>3 DEF SaveConfig, FirmwareSound, Upgrading, fwVars
<1>4. CASE LoadConfig
  BY <1>4 DEF LoadConfig, FirmwareSound, Upgrading, fwVars
<1>5. ASSUME NEW segments \in Firmwares, JsonUpgradeFw(segments)
      PROVE  FirmwareSound'
  <2>1. segments \in Seq(Segments)
    BY FirmwaresAssumption DEF Segments
  <2> QED
    BY <1>5, <2>1 DEF JsonUpgradeFw, FirmwareSound
<1>6. CASE UNCHANGED vars
  BY <1>6 DEF vars, FirmwareSound, Upgrading
<1> QED
  BY <1>1, <1>2, <1>3, <1>4, <1>5, <1>6 DEF Next

\* What would be written to the module is whole pages, exactly those touched,
\* with the byte sent last at each address, for segments of any number, length,
\* order and overlap, and blocks and pages of any size.
THEOREM FirmwaresJoin == Spec => []FirmwareJoined
<1>1. ASSUME FirmwareSound
      PROVE  FirmwareJoined
  <2> SUFFICES ASSUME Upgrading PROVE FirmwareJoined
    BY DEF FirmwareJoined
  <2> DEFINE fw == ParseFirmware(upgrade)
             touched == UNION {Pages(s) : s \in Range(upgrade)}
  <2>1. upgrade \in Seq(Segments) /\ firmware = AlignFirmware(fw)
    BY <1>1 DEF FirmwareSound
  <2>2. fw \in Memories
    BY <2>1, ParseFacts DEF Joined
  <2>3. {b \div BlocksPerPage : b \in DOMAIN fw} = touched
    BY <2>1, ParsedPages
  <2>4. \A addr \in Nat : ByteAt(fw, addr) = SentTo(addr)
    BY <2>1, ParsedBytes
  <2> HIDE DEF fw, touched
  <2>5. /\ DOMAIN firmware = {page * BlocksPerPage + i : page \in touched, i \in 0..(BlocksPerPage - 1)}
        /\ \A b \in DOMAIN firmware : firmware[b] = IF b \in DOMAIN fw THEN fw[b] ELSE Blank
    <3>1. Aligned(AlignFirmware(fw), fw, {b \div BlocksPerPage : b \in DOMAIN fw})
      BY <2>2, AlignFacts
    <3>2. Aligned(firmware, fw, touched)
      BY <2>1, <2>3, <3>1
    <3> QED
      BY <3>2 DEF Aligned
  <2>6. \A b \in DOMAIN firmware : b \in Nat
    <3>1. \A page \in touched : page \in Nat
      <4>1. \A b \in DOMAIN fw : b \div BlocksPerPage \in Nat
        <5> TAKE b \in DOMAIN fw
        <5>1. b \in Nat
          BY <2>2, FirmwareType
        <5> QED
          BY <5>1, DivMod, SizesAssumption
      <4> QED
        BY <2>3, <4>1
    <3>2. \A page \in Nat, i \in 0..(BlocksPerPage - 1) : page * BlocksPerPage + i \in Nat
      BY DivUnique, SizesAssumption
    <3> QED
      BY <2>5, <3>1, <3>2
  <2>7. ASSUME NEW b \in DOMAIN firmware, NEW i \in 0..(BlockSize - 1)
        PROVE  firmware[b][i] = SentTo(b * BlockSize + i)
    <3> DEFINE addr == b * BlockSize + i
    <3>1. b \in Nat
      BY <2>6
    <3>2. addr \in Nat /\ addr \div BlockSize = b /\ addr % BlockSize = i
      BY <3>1, DivUnique, SizesAssumption
    <3> HIDE DEF addr
    <3>3. SentTo(addr) = IF b \in DOMAIN fw THEN fw[b][i] ELSE Unwritten
      BY <2>4, <3>2 DEF ByteAt
    <3>4. firmware[b][i] = IF b \in DOMAIN fw THEN fw[b][i] ELSE Unwritten
      BY <2>5, BlankType
    <3> QED
      BY <3>3, <3>4 DEF addr
  <2>8. FirmwareJoined <=>
          (Upgrading =>
             /\ DOMAIN firmware = {page * BlocksPerPage + i :
                                      page \in touched, i \in 0..(BlocksPerPage - 1)}
             /\ \A b \in DOMAIN firmware : \A i \in 0..(BlockSize - 1) :
                  firmware[b][i] = SentTo(b * BlockSize + i))
    BY DEF FirmwareJoined, touched, Pages, PageOf
  <2> QED
    BY <2>5, <2>7, <2>8
<1>2. Init => FirmwareSound
  BY DEF Init, FirmwareSound, Upgrading
<1>3. FirmwareSound /\ [Next]_vars => FirmwareSound'
  BY FirmwareStep
<1> QED
  BY <1>1, <1>2, <1>3, PTL DEF Spec
=============================================================================
