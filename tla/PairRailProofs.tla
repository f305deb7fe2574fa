--------------------------- MODULE PairRailProofs ---------------------------
(***************************************************************************)
(* Proofs about the release gate, for every history of commits, every pin   *)
(* and every number of slips of the author: what is released was reviewed.  *)
(* As long as the author has slipped at most once, readers of other rules   *)
(* find the same decision.                                                  *)
(***************************************************************************)
EXTENDS PairRail, SequenceTheorems, FiniteSetTheorems, WellFoundedInduction, TLAPS

-----------------------------------------------------------------------------
(* The gates                                                                 *)

LEMMA LeastOf ==
    ASSUME NEW S \in SUBSET Nat, S # {}
    PROVE  \E m \in S : \A k \in S : m <= k
<1>1. PICK m \in S : \A k \in S : ~(<<k, m>> \in OpToRel(<, Nat))
  BY NatLessThanWellFounded, WFMin
<1>2. \A k \in S : ~(k < m)
  BY <1>1 DEF OpToRel
<1> QED BY <1>2

(* What a family of gates is made of: numbered gates with an exit code.     *)
Coded(gates) == DOMAIN gates \in SUBSET Nat /\ \A i \in DOMAIN gates : gates[i][2] \in 1 .. 3

(* A code of 0 means that no gate stopped.                                  *)
LEMMA NoneStops ==
    ASSUME NEW gates, Coded(gates), Code(gates) = 0
    PROVE  \A i \in DOMAIN gates : ~gates[i][1]
<1> DEFINE stops == {i \in DOMAIN gates : gates[i][1]}
<1>1. stops \in SUBSET Nat
  BY DEF Coded
<1>2. SUFFICES ASSUME stops # {} PROVE FALSE
  OBVIOUS
<1>3. \E m \in stops : \A k \in stops : m <= k
  BY <1>1, <1>2, LeastOf
<1>4. Code(gates) = gates[CHOOSE i \in stops : \A k \in stops : i <= k][2]
  BY <1>2 DEF Code
<1>5. (CHOOSE i \in stops : \A k \in stops : i <= k) \in stops
  BY <1>3
<1>6. gates[CHOOSE i \in stops : \A k \in stops : i <= k][2] \in 1 .. 3
  BY <1>5 DEF Coded
<1> QED BY <1>4, <1>6

LEMMA CodeIsExit ==
    ASSUME NEW gates, Coded(gates)
    PROVE  Code(gates) \in 0 .. 3
<1> DEFINE stops == {i \in DOMAIN gates : gates[i][1]}
<1>1. CASE stops = {}
  BY <1>1 DEF Code
<1>2. CASE stops # {}
  <2>1. stops \in SUBSET Nat
    BY DEF Coded
  <2>2. \E m \in stops : \A k \in stops : m <= k
    BY <1>2, <2>1, LeastOf
  <2>3. Code(gates) = gates[CHOOSE i \in stops : \A k \in stops : i <= k][2]
    BY <1>2 DEF Code
  <2>4. (CHOOSE i \in stops : \A k \in stops : i <= k) \in stops
    BY <2>2
  <2>5. gates[CHOOSE i \in stops : \A k \in stops : i <= k][2] \in 1 .. 3
    BY <2>4 DEF Coded
  <2> QED BY <2>3, <2>5
<1> QED BY <1>1, <1>2

LEMMA AllPass ==
    ASSUME NEW codes, DOMAIN codes \in SUBSET Nat, FirstOf(codes) = 0
    PROVE  \A i \in DOMAIN codes : codes[i] = 0
<1> DEFINE stops == {i \in DOMAIN codes : codes[i] # 0}
<1>1. stops \in SUBSET Nat
  OBVIOUS
<1>2. SUFFICES ASSUME stops # {} PROVE FALSE
  OBVIOUS
<1>3. \E m \in stops : \A k \in stops : m <= k
  BY <1>1, <1>2, LeastOf
<1>4. FirstOf(codes) = codes[CHOOSE i \in stops : \A k \in stops : i <= k]
  BY <1>2 DEF FirstOf
<1>5. (CHOOSE i \in stops : \A k \in stops : i <= k) \in stops
  BY <1>3
<1> QED BY <1>4, <1>5

-----------------------------------------------------------------------------
(* The families of gates                                                     *)

LEMMA DecisionCoded ==
    ASSUME NEW ls, NEW v
    PROVE  DOMAIN DecisionGates(ls, v) = 1 .. 5 /\ Coded(DecisionGates(ls, v))
<1> DEFINE g == DecisionGates(ls, v)
<1>1. DOMAIN g = 1 .. 5
  BY DEF DecisionGates
<1>2. g[1][2] = 3
  BY DEF DecisionGates
<1>3. g[2][2] = 3
  BY DEF DecisionGates
<1>4. g[3][2] = 3
  BY DEF DecisionGates
<1>5. g[4][2] = 1
  BY DEF DecisionGates
<1>6. g[5][2] = 3
  BY DEF DecisionGates
<1> HIDE DEF g
<1>7. \A i \in 1 .. 5 : g[i][2] \in 1 .. 3
  BY <1>2, <1>3, <1>4, <1>5, <1>6
<1> QED BY <1>1, <1>7 DEF Coded, g

LEMMA ParentCoded ==
    ASSUME NEW v, NEW expected
    PROVE  DOMAIN ParentGates(v, expected) = 1 .. 4 /\ Coded(ParentGates(v, expected))
<1> DEFINE g == ParentGates(v, expected)
<1>1. DOMAIN g = 1 .. 4
  BY DEF ParentGates
<1>2. g[1][2] = 1
  BY DEF ParentGates
<1>3. g[2][2] = 1
  BY DEF ParentGates
<1>4. g[3][2] = 3
  BY DEF ParentGates
<1>5. g[4][2] = 3
  BY DEF ParentGates
<1> HIDE DEF g
<1>7. \A i \in 1 .. 4 : g[i][2] \in 1 .. 3
  BY <1>2, <1>3, <1>4, <1>5
<1> QED BY <1>1, <1>7 DEF Coded, g

LEMMA AgeCoded ==
    ASSUME NEW v, NEW now
    PROVE  DOMAIN AgeGates(v, now) = 1 .. 3 /\ Coded(AgeGates(v, now))
<1> DEFINE g == AgeGates(v, now)
<1>1. DOMAIN g = 1 .. 3
  BY DEF AgeGates
<1>2. g[1][2] = 1
  BY DEF AgeGates
<1>3. g[2][2] = 1
  BY DEF AgeGates
<1>4. g[3][2] = 2
  BY DEF AgeGates
<1> HIDE DEF g
<1>7. \A i \in 1 .. 3 : g[i][2] \in 1 .. 3
  BY <1>2, <1>3, <1>4
<1> QED BY <1>1, <1>7 DEF Coded, g

LEMMA InputsCoded ==
    ASSUME NEW v, NEW tree
    PROVE  DOMAIN InputsGates(v, tree) = 1 .. 3 /\ Coded(InputsGates(v, tree))
<1> DEFINE g == InputsGates(v, tree)
<1>1. DOMAIN g = 1 .. 3
  BY DEF InputsGates
<1>2. g[1][2] = 1
  BY DEF InputsGates
<1>3. g[2][2] = 1
  BY DEF InputsGates
<1>4. g[3][2] = 3
  BY DEF InputsGates
<1> HIDE DEF g
<1>7. \A i \in 1 .. 3 : g[i][2] \in 1 .. 3
  BY <1>2, <1>3, <1>4
<1> QED BY <1>1, <1>7 DEF Coded, g

LEMMA PinCoded ==
    ASSUME NEW v, NEW pin
    PROVE  DOMAIN PinGates(v, pin) = 1 .. 3 /\ Coded(PinGates(v, pin))
<1> DEFINE g == PinGates(v, pin)
<1> DEFINE a == <<pin.range = "malformed", 3>>
           b == <<pin.range = "ok" /\ (~Tooled(v) \/ OutOfRange(v.tool.codex_cli.num, pin)), 3>>
           c == <<pin.binary # ""
                    /\ (~Tooled(v) \/ v.tool.codex_cli_binary_sha256.word # pin.binary), 3>>
<1>1. g = <<a, b, c>>
  BY DEF PinGates
<1>2. a[2] = 3
  OBVIOUS
<1>3. b[2] = 3
  OBVIOUS
<1>4. c[2] = 3
  OBVIOUS
<1> HIDE DEF a, b, c, g
<1>7. DOMAIN g = 1 .. 3
  BY <1>1
<1>8. \A i \in 1 .. 3 : g[i][2] \in 1 .. 3
  BY <1>1, <1>2, <1>3, <1>4
<1> QED BY <1>7, <1>8 DEF Coded, g

LEMMA PayloadCoded ==
    ASSUME NEW v, NEW pin
    PROVE  DOMAIN PayloadGates(v, pin) = 1 .. 5 /\ Coded(PayloadGates(v, pin))
<1> DEFINE g == PayloadGates(v, pin)
<1> DEFINE triple == v.tool.codex_target_triple.word
           sha == v.tool.codex_payload_sha256.word
           a == <<pin.manifest = "unreadable", 1>>
           b == <<pin.manifest = "malformed" \/ ~Tooled(v), 3>>
           c == <<triple = "" \/ sha \in {"", "malformed"}, 3>>
           d == <<triple \notin DOMAIN pin.payloads, 3>>
           e == <<triple \in DOMAIN pin.payloads /\ Exact(v.tool.codex_cli.num, pin)
                    /\ sha # pin.payloads[triple], 3>>
<1>1. g = <<a, b, c, d, e>>
  BY DEF PayloadGates
<1>2. a[2] = 1
  OBVIOUS
<1>3. b[2] = 3
  OBVIOUS
<1>4. c[2] = 3
  OBVIOUS
<1>5. d[2] = 3
  OBVIOUS
<1>6. e[2] = 3
  OBVIOUS
<1> HIDE DEF a, b, c, d, e, g
<1>7. DOMAIN g = 1 .. 5
  BY <1>1
<1>8. \A i \in 1 .. 5 : g[i][2] \in 1 .. 3
  BY <1>1, <1>2, <1>3, <1>4, <1>5, <1>6
<1> QED BY <1>7, <1>8 DEF Coded, g

LEMMA SignatureCoded ==
    ASSUME NEW v
    PROVE  DOMAIN SignatureGates(v) = 1 .. 2 /\ Coded(SignatureGates(v))
<1> DEFINE g == SignatureGates(v)
<1>1. DOMAIN g = 1 .. 2
  BY DEF SignatureGates
<1>2. g[1][2] = 3
  BY DEF SignatureGates
<1>3. g[2][2] = 1
  BY DEF SignatureGates
<1> HIDE DEF g
<1>7. \A i \in 1 .. 2 : g[i][2] \in 1 .. 3
  BY <1>2, <1>3
<1> QED BY <1>1, <1>7 DEF Coded, g

-----------------------------------------------------------------------------
(* What passes                                                               *)

LEMMA DecisionPasses ==
    ASSUME NEW ls, NEW v, Code(DecisionGates(ls, v)) = 0
    PROVE  /\ Noncanonical(ls) = {}
           /\ ~(Cardinality(Declared(ls, "verdict")) > 1)
           /\ Word(v, "verdict") \in Accepted
           /\ ~IsDict(v, "release_tag") /\ Word(v, "release_tag") = Tag
<1> DEFINE g == DecisionGates(ls, v)
<1>2. /\ g[1][1] <=> Noncanonical(ls) # {}
      /\ g[2][1] <=> Cardinality(Declared(ls, "verdict")) > 1
      /\ g[3][1] <=> Word(v, "verdict") \notin Accepted
      /\ g[4][1] <=> IsDict(v, "release_tag")
      /\ g[5][1] <=> Word(v, "release_tag") # Tag
  BY DEF DecisionGates, Authorizes
<1>3. DOMAIN g = 1 .. 5 /\ Coded(g)
  BY DecisionCoded
<1> HIDE DEF g
<1>4. \A i \in 1 .. 5 : ~g[i][1]
  BY <1>3, NoneStops DEF g
<1> QED BY <1>2, <1>4

LEMMA AgePasses ==
    ASSUME NEW v, NEW now, Code(AgeGates(v, now)) = 0
    PROVE  /\ Kind(v, "generated_at") # "mapping"
           /\ Kind(v, "generated_at") = "scalar" => ~TooOld(now - Num(v, "generated_at"))
<1> DEFINE g == AgeGates(v, now)
<1>2. /\ g[1][1] <=> Kind(v, "generated_at") = "mapping"
      /\ g[3][1] <=> Kind(v, "generated_at") = "scalar" /\ TooOld(now - Num(v, "generated_at"))
  BY DEF AgeGates
<1>3. DOMAIN g = 1 .. 3 /\ Coded(g)
  BY AgeCoded
<1> HIDE DEF g
<1>4. \A i \in 1 .. 3 : ~g[i][1]
  BY <1>3, NoneStops DEF g
<1> QED BY <1>2, <1>4

LEMMA InputsPass ==
    ASSUME NEW v, NEW tree, Code(InputsGates(v, tree)) = 0
    PROVE  Word(v, "inputs_hash") = tree.inputs
<1> DEFINE g == InputsGates(v, tree)
<1>2. g[3][1] <=> Word(v, "inputs_hash") # tree.inputs
  BY DEF InputsGates
<1>3. DOMAIN g = 1 .. 3 /\ Coded(g)
  BY InputsCoded
<1> HIDE DEF g
<1>4. \A i \in 1 .. 3 : ~g[i][1]
  BY <1>3, NoneStops DEF g
<1> QED BY <1>2, <1>4

LEMMA PinPasses ==
    ASSUME NEW v, NEW pin, Code(PinGates(v, pin)) = 0
    PROVE  pin.range = "ok" => ~OutOfRange(v.tool.codex_cli.num, pin)
<1> DEFINE g == PinGates(v, pin)
<1>2. g[2][1] <=> pin.range = "ok" /\ (~Tooled(v) \/ OutOfRange(v.tool.codex_cli.num, pin))
  BY DEF PinGates
<1>3. DOMAIN g = 1 .. 3 /\ Coded(g)
  BY PinCoded
<1> HIDE DEF g
<1>4. \A i \in 1 .. 3 : ~g[i][1]
  BY <1>3, NoneStops DEF g
<1> QED BY <1>2, <1>4

LEMMA PayloadPasses ==
    ASSUME NEW v, NEW pin, Code(PayloadGates(v, pin)) = 0
    PROVE  /\ v.tool.codex_target_triple.word \in DOMAIN pin.payloads
           /\ Exact(v.tool.codex_cli.num, pin) =>
                 v.tool.codex_payload_sha256.word = pin.payloads[v.tool.codex_target_triple.word]
<1> DEFINE g == PayloadGates(v, pin)
           triple == v.tool.codex_target_triple.word
           sha == v.tool.codex_payload_sha256.word
<1>2. /\ g[4][1] <=> triple \notin DOMAIN pin.payloads
      /\ g[5][1] <=> triple \in DOMAIN pin.payloads /\ Exact(v.tool.codex_cli.num, pin)
                        /\ sha # pin.payloads[triple]
  BY DEF PayloadGates
<1>3. DOMAIN g = 1 .. 5 /\ Coded(g)
  BY PayloadCoded
<1> HIDE DEF g
<1>4. \A i \in 1 .. 5 : ~g[i][1]
  BY <1>3, NoneStops DEF g
<1> QED BY <1>2, <1>4

(* A verdict that step 15 accepts passed every family of gates.             *)
LEMMA ValidatePasses ==
    ASSUME NEW text, NEW expected, NEW tree, NEW now, text.state = "ok",
           Validate(text, expected, tree, now) = 0
    PROVE  LET v == Parse(text.lines) IN
           /\ Code(DecisionGates(text.lines, v)) = 0 /\ Code(AgeGates(v, now)) = 0
           /\ Code(InputsGates(v, tree)) = 0 /\ Code(PinGates(v, tree.pin)) = 0
           /\ Code(PayloadGates(v, tree.pin)) = 0
<1> DEFINE ls == text.lines
           v == Parse(ls)
           codes == <<Code(DecisionGates(ls, v)), Code(ParentGates(v, expected)), Code(AgeGates(v, now)),
                      Code(InputsGates(v, tree)), Code(PinGates(v, tree.pin)),
                      Code(PayloadGates(v, tree.pin)), Code(SignatureGates(v))>>
<1>1. FirstOf(codes) = 0
  BY DEF Validate, ContentCode
<1>2. DOMAIN codes = 1 .. 7
  OBVIOUS
<1>3. /\ codes[1] = Code(DecisionGates(ls, v)) /\ codes[3] = Code(AgeGates(v, now))
      /\ codes[4] = Code(InputsGates(v, tree)) /\ codes[5] = Code(PinGates(v, tree.pin))
      /\ codes[6] = Code(PayloadGates(v, tree.pin))
  OBVIOUS
<1> HIDE DEF codes
<1>4. \A i \in 1 .. 7 : codes[i] = 0
  BY <1>1, <1>2, AllPass
<1> QED BY <1>3, <1>4

LEMMA FirstIsExit ==
    ASSUME NEW codes, DOMAIN codes \in SUBSET Nat, \A i \in DOMAIN codes : codes[i] \in 0 .. 3
    PROVE  FirstOf(codes) \in 0 .. 3
<1> DEFINE stops == {i \in DOMAIN codes : codes[i] # 0}
<1>1. CASE stops = {}
  BY <1>1 DEF FirstOf
<1>2. CASE stops # {}
  <2>1. stops \in SUBSET Nat
    OBVIOUS
  <2>2. \E m \in stops : \A k \in stops : m <= k
    BY <1>2, <2>1, LeastOf
  <2>3. FirstOf(codes) = codes[CHOOSE i \in stops : \A k \in stops : i <= k]
    BY <1>2 DEF FirstOf
  <2>4. (CHOOSE i \in stops : \A k \in stops : i <= k) \in stops
    BY <2>2
  <2> QED BY <2>3, <2>4
<1> QED BY <1>1, <1>2

LEMMA SevenCodes ==
    ASSUME NEW a \in 0 .. 3, NEW b \in 0 .. 3, NEW c \in 0 .. 3, NEW d \in 0 .. 3,
           NEW e \in 0 .. 3, NEW f \in 0 .. 3, NEW g \in 0 .. 3
    PROVE  FirstOf(<<a, b, c, d, e, f, g>>) \in 0 .. 3
<1> DEFINE codes == <<a, b, c, d, e, f, g>>
<1>1. DOMAIN codes = 1 .. 7
  OBVIOUS
<1>2. \A i \in 1 .. 7 : codes[i] \in 0 .. 3
  OBVIOUS
<1> HIDE DEF codes
<1>3. FirstOf(codes) \in 0 .. 3
  BY <1>1, <1>2, FirstIsExit
<1> QED BY <1>3 DEF codes

LEMMA ValidateIsExit ==
    ASSUME NEW text, NEW expected, NEW tree, NEW now
    PROVE  Validate(text, expected, tree, now) \in 0 .. 3
<1>10. CASE text.state = "missing"
  BY <1>10 DEF Validate
<1>11. CASE text.state \in {"not utf-8", "block rejected"}
  <2>1. Validate(text, expected, tree, now) = 3
    BY <1>11 DEF Validate
  <2> QED BY <2>1
<1> DEFINE ls == text.lines
           v == Parse(ls)
           a == Code(DecisionGates(ls, v))
           b == Code(ParentGates(v, expected))
           c == Code(AgeGates(v, now))
           d == Code(InputsGates(v, tree))
           e == Code(PinGates(v, tree.pin))
           f == Code(PayloadGates(v, tree.pin))
           g == Code(SignatureGates(v))
<1>1. a \in 0 .. 3
  BY DecisionCoded, CodeIsExit
<1>2. b \in 0 .. 3
  BY ParentCoded, CodeIsExit
<1>3. c \in 0 .. 3
  BY AgeCoded, CodeIsExit
<1>4. d \in 0 .. 3
  BY InputsCoded, CodeIsExit
<1>5. e \in 0 .. 3
  BY PinCoded, CodeIsExit
<1>6. f \in 0 .. 3
  BY PayloadCoded, CodeIsExit
<1>7. g \in 0 .. 3
  BY SignatureCoded, CodeIsExit
<1>8. FirstOf(<<a, b, c, d, e, f, g>>) \in 0 .. 3
  <2> HIDE DEF a, b, c, d, e, f, g
  <2> QED BY <1>1, <1>2, <1>3, <1>4, <1>5, <1>6, <1>7, SevenCodes
<1>9. CASE text.state \notin {"missing", "not utf-8", "block rejected"}
  <2>1. Validate(text, expected, tree, now) = FirstOf(<<a, b, c, d, e, f, g>>)
    BY <1>9 DEF Validate, ContentCode
  <2> QED BY <1>8, <2>1
<1> QED BY <1>9, <1>10, <1>11

-----------------------------------------------------------------------------
(* Texts                                                                     *)

(* The lines of a text are numbered, and each has a name, a level and a      *)
(* number (0 without one).                                                  *)
Line(l) == "name" \in DOMAIN l /\ "level" \in DOMAIN l /\ "num" \in DOMAIN l /\ l.num \in Int
Written(ls) == \E S : ls \in Seq(S) /\ \A l \in S : Line(l)

LEMMA WrittenLines ==
    ASSUME NEW ls, Written(ls)
    PROVE  \E n \in Nat : DOMAIN ls = 1 .. n /\ \A i \in 1 .. n : Line(ls[i])
<1>1. PICK S : ls \in Seq(S) /\ \A l \in S : Line(l)
  BY DEF Written
<1>2. Len(ls) \in Nat /\ DOMAIN ls = 1 .. Len(ls)
  BY <1>1
<1>3. \A i \in 1 .. Len(ls) : ls[i] \in S
  BY <1>1
<1> QED BY <1>1, <1>2, <1>3

LEMMA GreatestOf ==
    ASSUME NEW n \in Nat, NEW S \in SUBSET (1 .. n), S # {}
    PROVE  \E m \in S : \A k \in S : k <= m
<1> DEFINE above == {u \in Nat : \A k \in S : k <= u}
<1>1. n \in above
  OBVIOUS
<1>2. PICK m \in above : \A u \in above : m <= u
  BY <1>1, LeastOf
<1>3. m \in S
  <2>1. SUFFICES ASSUME m \notin S PROVE FALSE
    OBVIOUS
  <2>2. \A k \in S : k <= m - 1
    BY <2>1
  <2>3. PICK k \in S : TRUE
    OBVIOUS
  <2>4. m - 1 \in Nat
    BY <2>2, <2>3
  <2>5. m - 1 \in above
    BY <2>2, <2>4
  <2> QED BY <1>2, <2>5
<1> QED BY <1>2, <1>3

(* What the dictionary holds is a number from some line, or 0.              *)
LEMMA NumbersParsed ==
    ASSUME NEW ls, Written(ls)
    PROVE  /\ \A name \in Names : Num(Parse(ls), name) \in Int
           /\ \A name \in ToolNames : Parse(ls).tool[name].num \in Int
<1>1. PICK n \in Nat : DOMAIN ls = 1 .. n /\ \A i \in 1 .. n : Line(ls[i])
  BY WrittenLines
<1>2. ASSUME NEW name \in Names PROVE Num(Parse(ls), name) \in Int
  <2>1. Num(Parse(ls), name) = Field(ls, name).num
    BY DEF Num, Parse
  <2>2. CASE Declared(ls, name) = {}
    BY <2>1, <2>2 DEF Field
  <2>3. CASE Declared(ls, name) # {}
    <3>1. Declared(ls, name) \in SUBSET (1 .. n)
      BY <1>1 DEF Declared, Tops
    <3>2. \E m \in Declared(ls, name) : \A k \in Declared(ls, name) : k <= m
      BY <2>3, <3>1, GreatestOf
    <3>3. Last(ls, name) \in Declared(ls, name)
      BY <3>2 DEF Last
    <3>4. ls[Last(ls, name)].num \in Int
      BY <1>1, <3>1, <3>3 DEF Line
    <3> QED BY <2>1, <2>3, <3>4 DEF Field
  <2> QED BY <2>2, <2>3
<1>3. ASSUME NEW name \in ToolNames PROVE Parse(ls).tool[name].num \in Int
  <2>1. Parse(ls).tool[name] = Tool(ls, name)
    BY DEF Parse
  <2> DEFINE inside == IF Declared(ls, "tool_versions") = {} \/ ~ls[Last(ls, "tool_versions")].bare
                       THEN {}
                       ELSE {j \in Children(ls, Last(ls, "tool_versions")) : ls[j].name = name}
             last == CHOOSE j \in inside : \A k \in inside : k <= j
  <2>2. CASE inside = {}
    <3>2. Tool(ls, name).num = 0
      BY <2>2 DEF Tool
    <3> QED BY <2>1, <3>2
  <2>3. CASE inside # {}
    <3>1. inside \in SUBSET (1 .. n)
      BY <1>1 DEF Children
    <3>2. \E m \in inside : \A k \in inside : k <= m
      BY <2>3, <3>1, GreatestOf
    <3>3. last \in inside
      BY <3>2
    <3>4. ls[last].num \in Int
      BY <1>1, <3>1, <3>3 DEF Line
    <3>5. Tool(ls, name).num = ls[last].num
      BY <2>3 DEF Tool
    <3> QED BY <2>1, <3>4, <3>5
  <2> QED BY <2>2, <2>3
<1> QED BY <1>2, <1>3

(* Past the decision gates a text declares one decision, and that is an      *)
(* authorizing word.                                                        *)
LEMMA OneDecision ==
    ASSUME NEW ls, Written(ls), Code(DecisionGates(ls, Parse(ls))) = 0
    PROVE  \E i \in DOMAIN ls :
              Declared(ls, "verdict") = {i} /\ ls[i].word \in Accepted /\ ~ls[i].bare
<1> DEFINE v == Parse(ls)
           decisions == Declared(ls, "verdict")
<1>1. ~(Cardinality(decisions) > 1) /\ Word(v, "verdict") \in Accepted
  BY DecisionPasses
<1>2. Word(v, "verdict") = Field(ls, "verdict").word
  BY DEF Word, Parse, Names
<1>3. "" \notin Accepted
  BY DEF Accepted
<1>4. decisions # {}
  <2>1. decisions = {} => Field(ls, "verdict").word = ""
    BY DEF Field
  <2> QED BY <1>1, <1>2, <1>3, <2>1
<1>5. PICK n \in Nat : DOMAIN ls = 1 .. n
  BY WrittenLines
<1>6. decisions \in SUBSET (1 .. n)
  BY <1>5 DEF Declared, Tops
<1>7. IsFiniteSet(decisions) /\ Cardinality(decisions) \in Nat
  <2>1. IsFiniteSet(1 .. n)
    BY FS_Interval
  <2> QED BY <1>6, <2>1, FS_Subset, FS_CardinalityType
<1>8. PICK i : decisions = {i}
  <2>1. Cardinality(decisions) # 0
    BY <1>4, <1>7, FS_EmptySet
  <2>2. Cardinality(decisions) = 1
    BY <1>1, <1>7, <2>1
  <2> QED BY <1>7, <2>2, FS_Singleton
<1>9. Last(ls, "verdict") = i
  BY <1>6, <1>8 DEF Last
<1>10. Field(ls, "verdict").word = IF ls[i].bare THEN "" ELSE ls[i].word
  BY <1>8, <1>9 DEF Field
<1> QED BY <1>1, <1>2, <1>3, <1>5, <1>6, <1>8, <1>10

LEMMA AddedLines ==
    ASSUME NEW ls, Written(ls), NEW l, Line(l)
    PROVE  Written(Append(ls, l)) /\ \A i \in DOMAIN ls : Written(With(ls, i, l))
<1>1. PICK S : ls \in Seq(S) /\ \A k \in S : Line(k)
  BY DEF Written
<1> DEFINE T == S \cup {l}
<1>2. ls \in Seq(T) /\ l \in T
  BY <1>1
<1>3. \A k \in T : Line(k)
  BY <1>1
<1> HIDE DEF T
<1>4. Append(ls, l) \in Seq(T)
  BY <1>2
<1>5. ASSUME NEW i \in DOMAIN ls PROVE With(ls, i, l) \in Seq(T)
  BY <1>2, <1>5 DEF With
<1> QED BY <1>3, <1>4, <1>5 DEF Written

LEMMA WithoutLines ==
    ASSUME NEW ls, Written(ls), NEW i \in DOMAIN ls
    PROVE  Written(Without(ls, i))
<1>1. PICK S : ls \in Seq(S) /\ \A k \in S : Line(k)
  BY DEF Written
<1>2. Len(ls) \in Nat /\ i \in 1 .. Len(ls)
  BY <1>1
<1>3. SubSeq(ls, 1, i - 1) \in Seq(S)
  <2>1. \A k \in 1 .. i - 1 : k \in 1 .. Len(ls)
    BY <1>2
  <2> QED BY <1>1, <1>2, <2>1, SubSeqProperties
<1>4. SubSeq(ls, i + 1, Len(ls)) \in Seq(S)
  BY <1>1, <1>2, SubSeqProperties
<1>5. Without(ls, i) \in Seq(S)
  BY <1>3, <1>4, ConcatProperties DEF Without
<1> QED BY <1>1, <1>5 DEF Written

LEMMA MisspeltLine ==
    ASSUME NEW l, Line(l), NEW m \in Misspelt(l)
    PROVE  Line(m)
<1>1. /\ Line([l EXCEPT !.bare = ~@]) /\ \A f : Line([l EXCEPT !.form = f])
      /\ Line([l EXCEPT !.level = "inner"]) /\ Line([l EXCEPT !.name = "commit_sha"])
      /\ Line([l EXCEPT !.num = -1]) /\ \A w : Line([l EXCEPT !.word = w])
  BY DEF Line
<1>2. \/ m = [l EXCEPT !.bare = ~@] \/ m = [l EXCEPT !.form = "loose"] \/ m = [l EXCEPT !.form = "item"]
      \/ m = [l EXCEPT !.level = "inner"] \/ m = [l EXCEPT !.name = "commit_sha"]
      \/ m = [l EXCEPT !.num = -1] \/ m = [l EXCEPT !.word = "other"]
  BY DEF Misspelt
<1> QED BY <1>1, <1>2

(* A slip leaves lines that are numbered.                                   *)
LEMMA SlipsWritten ==
    ASSUME NEW t, Written(t.lines), NEW u \in Slips(t)
    PROVE  u.state \in {"ok", "not utf-8", "block rejected"} /\ Written(u.lines)
<1> DEFINE ls == t.lines
<1>1. PICK n \in Nat : DOMAIN ls = 1 .. n /\ \A i \in 1 .. n : Line(ls[i])
  BY WrittenLines
<1>2. Written(ls)
  OBVIOUS
<1>3. u \in Resaved(ls) \/ u \in LeftOut(ls) \/ u \in Mistyped(ls) \/ u \in Repeated(ls)
  BY DEF Slips
<1> HIDE DEF ls
<1>4. CASE u \in Resaved(ls)
  <2>1. PICK s \in {"not utf-8", "block rejected"} : u = [state |-> s, lines |-> ls]
    BY <1>4 DEF Resaved
  <2>2. u.state = s /\ u.lines = ls
    BY <2>1
  <2> QED BY <1>2, <2>2, Zenon
<1>5. CASE u \in LeftOut(ls)
  <2>1. PICK i \in DOMAIN ls : u = Text(Without(ls, i))
    BY <1>5 DEF LeftOut
  <2>2. Written(Without(ls, i))
    BY <1>2, WithoutLines
  <2> QED BY <2>1, <2>2 DEF Text
<1>6. CASE u \in Mistyped(ls)
  <2>1. PICK i \in Tops(ls) : \E l \in Misspelt(ls[i]) : u = Text(With(ls, i, l))
    BY <1>6 DEF Mistyped
  <2>2. PICK l \in Misspelt(ls[i]) : u = Text(With(ls, i, l))
    BY <2>1
  <2>3. i \in DOMAIN ls
    BY DEF Tops
  <2>4. Line(l)
    BY <1>1, <2>3, MisspeltLine
  <2> QED BY <1>2, <2>2, <2>3, <2>4, AddedLines DEF Text
<1>7. CASE u \in Repeated(ls)
  <2>1. \A d : Line(Entry("verdict", d, 0))
    BY DEF Line, Entry
  <2>2. PICK d \in {"GO", "NO-GO"} : u = Text(Append(ls, Entry("verdict", d, 0)))
    BY <1>7 DEF Repeated
  <2>3. Written(Append(ls, Entry("verdict", d, 0)))
    BY <1>2, <2>1, AddedLines
  <2> QED BY <2>2, <2>3 DEF Text
<1> QED BY <1>3, <1>4, <1>5, <1>6, <1>7

LEMMA TemplateWritten ==
    ASSUME NEW decision, NEW tool, tool.cli \in Int, NEW tree, NEW parent \in Int, clock \in Int
    PROVE  /\ Template(decision, tool, tree, parent).state = "ok"
           /\ Written(Template(decision, tool, tree, parent).lines)
<1> DEFINE a == Entry("verdict", decision, 0)
           b == Entry("release_tag", Tag, 0)
           c == Entry("parent_sha", "", parent)
           d == Entry("generated_at", "", clock)
           e == Entry("inputs_hash", tree.inputs, 0)
           f == Heading("tool_versions")
           g == Inner("codex_cli", "", tool.cli)
           h == Inner("codex_target_triple", tool.triple, 0)
           i == Inner("codex_payload_sha256", tool.sha, 0)
           j == Entry("gpg_signature", "signed", 0)
<1>1. Template(decision, tool, tree, parent) = Text(<<a, b, c, d, e, f, g, h, i, j>>)
  BY DEF Template
<1>2. \A name, word : \A num \in Int : Line(Entry(name, word, num)) /\ Line(Inner(name, word, num))
  BY DEF Line, Entry, Inner
<1>3. \A name : Line(Heading(name))
  BY DEF Line, Entry, Heading
<1>4. Line(a) /\ Line(b) /\ Line(c) /\ Line(d) /\ Line(e) /\ Line(f) /\ Line(g) /\ Line(h)
        /\ Line(i) /\ Line(j)
  <2>1. Line(a)
    BY <1>2, <1>3
  <2>2. Line(b)
    BY <1>2, <1>3
  <2>3. Line(c)
    BY <1>2, <1>3
  <2>4. Line(d)
    BY <1>2, <1>3
  <2>5. Line(e)
    BY <1>2, <1>3
  <2>6. Line(f)
    BY <1>2, <1>3
  <2>7. Line(g)
    BY <1>2, <1>3
  <2>8. Line(h)
    BY <1>2, <1>3
  <2>9. Line(i)
    BY <1>2, <1>3
  <2>10. Line(j)
    BY <1>2, <1>3
  <2> QED BY <2>1, <2>2, <2>3, <2>4, <2>5, <2>6, <2>7, <2>8, <2>9, <2>10
<1> HIDE DEF a, b, c, d, e, f, g, h, i, j
<1> DEFINE S == {a, b, c, d, e, f, g, h, i, j}
<1>5. <<a, b, c, d, e, f, g, h, i, j>> \in Seq(S)
  OBVIOUS
<1>6. \A l \in S : Line(l)
  BY <1>4
<1>7. Written(<<a, b, c, d, e, f, g, h, i, j>>)
  <2> HIDE DEF S
  <2> QED BY <1>5, <1>6, Zenon DEF Written
<1> QED BY <1>1, <1>7 DEF Text

-----------------------------------------------------------------------------
(* The invariant                                                             *)

(* The commits are trees of the domain, and what is written of the verdict   *)
(* has numbered lines.                                                      *)
States == {"missing", "ok", "not utf-8", "block rejected"}
Histories ==
    /\ trees \in Seq(Trees) /\ Len(trees) \in 1 .. MaxCommits /\ upon \in 0 .. Len(trees) - 1
    /\ clock \in 0 .. MaxClock /\ slips \in 0 .. MaxSlips
    /\ draft.state \in States /\ Written(draft.lines) /\ Written(verdict.lines)
    /\ gate.code \in -1 .. 3 /\ gate.released \in BOOLEAN /\ gate.optional \in BOOLEAN
(* The gate speaks of the tip: every other step takes its word back.         *)
Told ==
    gate.released =>
        /\ verdict.state = "ok" /\ Bound(Parse(verdict.lines)) /\ trees[upon] = trees[Tip]
        /\ Validate(verdict, upon, trees[Tip], clock) = 0
IInv == Histories /\ Told

LEMMA QuietTells ==
    ASSUME gate = Quiet
    PROVE  gate.code \in -1 .. 3 /\ gate.released = FALSE /\ gate.optional = FALSE
BY DEF Quiet

LEMMA QuietTellsNext ==
    ASSUME gate' = Quiet
    PROVE  /\ gate.code' \in -1 .. 3 /\ gate.released' \in BOOLEAN /\ gate.optional' \in BOOLEAN
           /\ Told'
BY DEF Quiet, Told

LEMMA NoTextWritten == NoText.state = "missing" /\ Written(NoText.lines)
<1> DEFINE S == {}
<1>1. <<>> \in Seq(S)
  OBVIOUS
<1>2. \A l \in S : Line(l)
  OBVIOUS
<1>3. Written(<<>>)
  <2> HIDE DEF S
  <2> QED BY <1>1, <1>2, Zenon DEF Written
<1> QED BY <1>3 DEF NoText

LEMMA Begins == Init => IInv
<1> SUFFICES ASSUME Init PROVE IInv
  OBVIOUS
<1>1. trees \in Seq(Trees) /\ Len(trees) = 1
  BY TreesAssumption DEF Init
<1>2. upon \in 0 .. Len(trees) - 1 /\ Len(trees) \in 1 .. MaxCommits
  BY <1>1, BoundsAssumption DEF Init
<1>3. clock \in 0 .. MaxClock /\ slips \in 0 .. MaxSlips
  BY BoundsAssumption DEF Init
<1>4. draft.state \in States /\ Written(draft.lines) /\ Written(verdict.lines)
  BY NoTextWritten DEF Init, States
<1>5. gate.code \in -1 .. 3 /\ gate.released \in BOOLEAN /\ gate.optional \in BOOLEAN
  BY QuietTells DEF Init
<1>6. Told
  BY QuietTells DEF Init, Told
<1> QED BY <1>1, <1>2, <1>3, <1>4, <1>5, <1>6 DEF IInv, Histories

LEMMA Keeps == IInv /\ [Next]_vars => IInv'
<1> SUFFICES ASSUME IInv, [Next]_vars PROVE IInv'
  OBVIOUS
<1> USE BoundsAssumption
<1>1. ASSUME NEW d \in {"GO", "NO-GO"}, NEW tool \in Tools, Review(d, tool)
      PROVE  IInv'
  <2>1. UNCHANGED <<trees, verdict, upon, slips, clock>> /\ gate' = Quiet
    BY <1>1 DEF Review
  <2>2. tool.cli \in Int /\ Len(trees) \in Int /\ clock \in Int
    BY TreesAssumption DEF IInv, Histories
  <2>3. draft' = Template(d, tool, trees[Len(trees)], Len(trees))
    BY <1>1 DEF Review
  <2>4. draft'.state = "ok" /\ Written(draft'.lines)
    BY <2>2, <2>3, TemplateWritten
  <2> QED BY <2>1, <2>4, QuietTellsNext DEF IInv, Histories, States
<1>2. ASSUME Slip PROVE IInv'
  <2>1. UNCHANGED <<trees, verdict, upon, clock>> /\ gate' = Quiet
    BY <1>2 DEF Slip
  <2>2. slips' \in 0 .. MaxSlips
    BY <1>2 DEF Slip, IInv, Histories
  <2>3. draft'.state \in States /\ Written(draft'.lines)
    <3>1. draft' \in Slips(draft) /\ Written(draft.lines)
      BY <1>2 DEF Slip, IInv, Histories
    <3> QED BY <3>1, SlipsWritten DEF States
  <2> QED BY <2>1, <2>2, <2>3, QuietTellsNext DEF IInv, Histories
<1>3. ASSUME CommitVerdict PROVE IInv'
  <2>1. UNCHANGED <<slips, clock>> /\ gate' = Quiet /\ verdict' = draft /\ draft' = NoText
    BY <1>3 DEF CommitVerdict
  <2>2. trees' = Append(trees, trees[Len(trees)]) /\ trees[Len(trees)] \in Trees
    BY <1>3 DEF CommitVerdict, Tip, IInv, Histories
  <2>3. trees' \in Seq(Trees) /\ Len(trees') = Len(trees) + 1
    BY <2>2 DEF IInv, Histories
  <2>4. Len(trees') \in 1 .. MaxCommits /\ upon' \in 0 .. Len(trees') - 1
    BY <1>3, <2>3 DEF CommitVerdict, Tip, IInv, Histories
  <2> QED BY <2>1, <2>3, <2>4, QuietTellsNext, NoTextWritten DEF IInv, Histories, States
<1>4. ASSUME NEW tree \in Trees, CommitWork(tree) PROVE IInv'
  <2>1. UNCHANGED <<verdict, upon, draft, slips, clock>> /\ gate' = Quiet
    BY <1>4 DEF CommitWork
  <2>2. trees' = Append(trees, tree)
    BY <1>4 DEF CommitWork
  <2>3. trees' \in Seq(Trees) /\ Len(trees') = Len(trees) + 1
    BY <2>2 DEF IInv, Histories
  <2>4. Len(trees') \in 1 .. MaxCommits /\ upon' \in 0 .. Len(trees') - 1
    BY <1>4, <2>1, <2>3 DEF CommitWork, Tip, IInv, Histories
  <2> QED BY <2>1, <2>3, <2>4, QuietTellsNext DEF IInv, Histories
<1>5. ASSUME NEW optional \in BOOLEAN, Release(optional) PROVE IInv'
  <2> DEFINE c == Validate(verdict, Expected(optional), trees[Tip], clock)
             on == StepFifteen(c, optional) /\ Delta(optional)
  <2>1. UNCHANGED <<trees, verdict, upon, draft, slips, clock>>
    BY <1>5 DEF Release
  <2>2. gate' = [code |-> c, released |-> on, optional |-> optional]
    BY <1>5 DEF Release
  <2>3. c \in 0 .. 3
    BY ValidateIsExit
  <2>4. on \in BOOLEAN
    BY Zenon DEF StepFifteen
  <2>5. on => /\ verdict.state = "ok" /\ Bound(Parse(verdict.lines)) /\ trees[upon] = trees[Tip]
              /\ Validate(verdict, upon, trees[Tip], clock) = 0
    BY DEF StepFifteen, Delta, Expected
  <2> HIDE DEF c, on
  <2>6. gate'.code = c /\ gate'.released = on /\ gate'.optional = optional
    BY <2>2, Zenon
  <2>7. gate'.code \in -1 .. 3
    BY <2>3, <2>6
  <2>8. gate'.released \in BOOLEAN /\ gate'.optional \in BOOLEAN
    BY <2>4, <2>6, Zenon
  <2>9. Told'
    BY <2>1, <2>5, <2>6 DEF Told, Tip, Bound, Kind, Num
  <2> QED BY <2>1, <2>7, <2>8, <2>9 DEF IInv, Histories
<1>6. ASSUME Tick PROVE IInv'
  <2>1. UNCHANGED <<trees, verdict, upon, draft, slips>> /\ gate' = Quiet
    BY <1>6 DEF Tick
  <2>2. clock' \in 0 .. MaxClock
    BY <1>6 DEF Tick, IInv, Histories
  <2> QED BY <2>1, <2>2, QuietTellsNext DEF IInv, Histories
<1>7. ASSUME UNCHANGED vars PROVE IInv'
  BY <1>7 DEF vars, IInv, Histories, Told, Tip, Bound, Kind, Num
<1> QED BY <1>1, <1>2, <1>3, <1>4, <1>5, <1>6, <1>7 DEF Next

THEOREM Invariance == Spec => []IInv
<1> QED BY Begins, Keeps, PTL DEF Spec

-----------------------------------------------------------------------------
(* What the invariant gives                                                  *)

(* Every commit, file and answer keeps its type, for every bound and tree.   *)
THEOREM TypeCorrect == Spec => []TypeOK
<1>1. ASSUME IInv PROVE TypeOK
  <2>1. Histories
    BY <1>1 DEF IInv
  <2>2. Len(trees) \in 1 .. MaxCommits /\ upon \in 0 .. (Tip - 1)
    BY <2>1 DEF Histories, Tip
  <2>3. \A i \in DOMAIN trees : trees[i] \in Trees
    BY <2>1 DEF Histories
  <2>4. draft.state \in {"missing", "ok", "not utf-8", "block rejected"}
    BY <2>1 DEF Histories, States
  <2>5. slips \in 0 .. MaxSlips /\ clock \in 0 .. MaxClock
    BY <2>1 DEF Histories
  <2>6. gate.code \in -1 .. 3 /\ gate.released \in BOOLEAN /\ gate.optional \in BOOLEAN
    BY <2>1, Zenon DEF Histories
  <2> QED BY <2>2, <2>3, <2>4, <2>5, <2>6, Zenon DEF TypeOK
<1> QED BY <1>1, Invariance, PTL

(* Nothing is released but what was reviewed, whatever slips the author made *)
(* and whatever was committed before and after.                              *)
THEOREM WhatIsReleased == Spec => []ReleasedAsReviewed
<1>1. ASSUME IInv PROVE ReleasedAsReviewed
  <2> SUFFICES ASSUME gate.released PROVE ReleasedAsReviewed
    BY DEF ReleasedAsReviewed
  <2> DEFINE ls == verdict.lines
             v == Parse(ls)
             decisions == Declared(ls, "verdict")
  <2>1. /\ verdict.state = "ok" /\ Bound(v) /\ trees[upon] = trees[Tip]
        /\ Validate(verdict, upon, trees[Tip], clock) = 0
    BY <1>1 DEF IInv, Told
  <2>2. Code(DecisionGates(ls, v)) = 0
    BY <2>1, ValidatePasses
  <2>3. Code(InputsGates(v, trees[Tip])) = 0
    BY <2>1, ValidatePasses
  <2>4. Word(v, "release_tag") = Tag
    BY <2>2, DecisionPasses
  <2>5. Word(v, "inputs_hash") = trees[Tip].inputs
    BY <2>3, InputsPass
  <2>6. Num(v, "parent_sha") = upon
    BY <2>1 DEF Bound
  <2>7. Written(ls)
    BY <1>1 DEF IInv, Histories
  <2>8. PICK i \in DOMAIN ls : decisions = {i} /\ ls[i].word \in Accepted
    BY <2>2, <2>7, OneDecision
  <2>9. {ls[k].word : k \in decisions} = {ls[i].word}
    BY <2>8
  <2>10. {ls[k].word : k \in decisions} \in {{d} : d \in Accepted}
    BY <2>8, <2>9
  <2> QED BY <2>1, <2>4, <2>5, <2>6, <2>10 DEF ReleasedAsReviewed
<1> QED BY <1>1, Invariance, PTL

(* The review was made with a tool the pins of the tagged commit allow.      *)
THEOREM WithAPinnedTool == Spec => []PinnedTool
<1>1. ASSUME IInv PROVE PinnedTool
  <2> SUFFICES ASSUME gate.released, trees[Tip].pin.range = "ok" PROVE PinnedTool
    BY DEF PinnedTool
  <2> DEFINE pin == trees[Tip].pin
             p == Parse(verdict.lines)
             v == p.tool.codex_cli.num
  <2>1. verdict.state = "ok" /\ Validate(verdict, upon, trees[Tip], clock) = 0
    BY <1>1 DEF IInv, Told
  <2>2. Code(PinGates(p, pin)) = 0
    BY <2>1, ValidatePasses
  <2>3. Code(PayloadGates(p, pin)) = 0
    BY <2>1, ValidatePasses
  <2>4. ~OutOfRange(v, pin)
    BY <2>2, PinPasses
  <2>5. trees[Tip] \in Trees
    BY <1>1 DEF IInv, Histories, Tip
  <2>6. pin.min \in Nat
    BY <2>5, TreesAssumption
  <2>7. v \in Int
    <3>1. Written(verdict.lines)
      BY <1>1 DEF IInv, Histories
    <3>2. "codex_cli" \in ToolNames
      BY DEF ToolNames
    <3>3. p.tool["codex_cli"].num \in Int
      BY <3>1, <3>2, NumbersParsed
    <3> QED BY <3>3
  <2>8. v >= pin.min
    BY <2>4, <2>6, <2>7 DEF OutOfRange
  <2>9. Exact(v, pin) =>
           p.tool.codex_payload_sha256.word = pin.payloads[p.tool.codex_target_triple.word]
    BY <2>3, PayloadPasses
  <2>10. v = pin.package => Exact(v, pin)
    BY DEF Exact
  <2> QED BY <2>8, <2>9, <2>10 DEF PinnedTool
<1> QED BY <1>1, Invariance, PTL

(* A dated verdict is released within MaxAge hours of its date.              *)
THEOREM WithinItsTime == Spec => []ReleasedInTime
<1>1. ASSUME IInv PROVE ReleasedInTime
  <2> DEFINE p == Parse(verdict.lines)
  <2> SUFFICES ASSUME gate.released, Kind(p, "generated_at") # "absent",
                      Kind(p, "generated_at") # "empty"
               PROVE  clock - Num(p, "generated_at") <= MaxAge
    BY DEF ReleasedInTime
  <2>1. verdict.state = "ok" /\ Validate(verdict, upon, trees[Tip], clock) = 0
    BY <1>1 DEF IInv, Told
  <2>2. Code(AgeGates(p, clock)) = 0
    BY <2>1, ValidatePasses
  <2>3. Kind(p, "generated_at") # "mapping"
    BY <2>2, AgePasses
  <2>4. Kind(p, "generated_at") = Field(verdict.lines, "generated_at").kind
    BY DEF Kind, Parse, Names
  <2>5. Kind(p, "generated_at") = "scalar"
    BY <2>3, <2>4 DEF Field
  <2>6. ~TooOld(clock - Num(p, "generated_at"))
    BY <2>2, <2>5, AgePasses
  <2>7. Num(p, "generated_at") \in Int
    <3>1. Written(verdict.lines)
      BY <1>1 DEF IInv, Histories
    <3> QED BY <3>1, NumbersParsed DEF Names
  <2>8. clock \in Int
    BY <1>1, BoundsAssumption DEF IInv, Histories
  <2> QED BY <2>6, <2>7, <2>8, NumbersAssumption DEF TooOld
<1> QED BY <1>1, Invariance, PTL

-----------------------------------------------------------------------------
(* Two readers of one text                                                   *)

(* The lines that are named as the decision, wherever they stand.            *)
Decisions(ls) == {i \in DOMAIN ls : ls[i].name = "verdict"}
Single(ls) == \A i, j \in Decisions(ls) : i = j /\ ls[i].level = "top"
Together(ls) == \A i, j \in Decisions(ls) : ls[i].level = ls[j].level

(* One slip may hide the only decision among the inner lines, or add one to  *)
(* it, but not both; and a code of 0 or 2 is past the decision gates.        *)
Slipped(ls) == (slips = 0 => Single(ls)) /\ (slips <= 1 => Together(ls))
Shaped ==
    verdict.state = "ok" /\ gate.code \in {0, 2} =>
        Code(DecisionGates(verdict.lines, Parse(verdict.lines))) = 0
ReaderInv == Slipped(draft.lines) /\ Slipped(verdict.lines) /\ Shaped

(* The decision gates stop with 1 or 3, and nothing behind them is then      *)
(* asked.                                                                   *)
LEMMA ShapePasses ==
    ASSUME NEW text, NEW expected, NEW tree, NEW now, text.state = "ok",
           Validate(text, expected, tree, now) \in {0, 2}
    PROVE  Code(DecisionGates(text.lines, Parse(text.lines))) = 0
<1> DEFINE ls == text.lines
           v == Parse(ls)
           g == DecisionGates(ls, v)
           codes == <<Code(g), Code(ParentGates(v, expected)), Code(AgeGates(v, now)),
                      Code(InputsGates(v, tree)), Code(PinGates(v, tree.pin)),
                      Code(PayloadGates(v, tree.pin)), Code(SignatureGates(v))>>
           late == {i \in DOMAIN codes : codes[i] # 0}
           stops == {i \in DOMAIN g : g[i][1]}
<1>1. FirstOf(codes) \in {0, 2}
  BY DEF Validate, ContentCode
<1>2. DOMAIN codes = 1 .. 7 /\ codes[1] = Code(g)
  OBVIOUS
<1>3. Code(g) \in {0, 1, 3}
  <2>1. DOMAIN g = 1 .. 5 /\ \A i \in 1 .. 5 : g[i][2] \in {1, 3}
    BY DEF DecisionGates
  <2> HIDE DEF g
  <2>2. CASE stops = {}
    BY <2>2 DEF Code
  <2>3. CASE stops # {}
    <3>1. \E m \in stops : \A k \in stops : m <= k
      BY <2>1, <2>3, LeastOf
    <3>2. Code(g) = g[CHOOSE i \in stops : \A k \in stops : i <= k][2]
      BY <2>3 DEF Code
    <3>3. (CHOOSE i \in stops : \A k \in stops : i <= k) \in stops
      BY <3>1
    <3> QED BY <2>1, <3>2, <3>3
  <2> QED BY <2>2, <2>3
<1> HIDE DEF codes
<1>4. SUFFICES ASSUME codes[1] # 0 PROVE FALSE
  BY <1>2
<1>5. 1 \in late /\ \A k \in late : 1 <= k
  BY <1>2, <1>4
<1>6. (CHOOSE i \in late : \A k \in late : i <= k) = 1
  <2>1. \A i \in late : (\A k \in late : i <= k) => i = 1
    BY <1>2, <1>5
  <2> QED BY <1>5, <2>1
<1>7. FirstOf(codes) = codes[1]
  BY <1>5, <1>6 DEF FirstOf
<1> HIDE DEF g
<1> QED BY <1>1, <1>2, <1>3, <1>4, <1>7

(* A line left out leaves lines of the text.                                *)
LEMMA LeftOutLines ==
    ASSUME NEW ls, Written(ls), NEW i \in DOMAIN ls, NEW k \in DOMAIN Without(ls, i)
    PROVE  \E j \in DOMAIN ls : Without(ls, i)[k] = ls[j]
<1>1. PICK S : ls \in Seq(S)
  BY DEF Written
<1>2. Len(ls) \in Nat /\ DOMAIN ls = 1 .. Len(ls) /\ i \in 1 .. Len(ls)
  BY <1>1
<1> DEFINE a == SubSeq(ls, 1, i - 1)
           b == SubSeq(ls, i + 1, Len(ls))
<1>3. a \in Seq(S) /\ Len(a) = i - 1 /\ \A m \in 1 .. i - 1 : a[m] = ls[m]
  <2>1. \A m \in 1 .. i - 1 : m \in 1 .. Len(ls)
    BY <1>2
  <2> QED BY <1>1, <1>2, <2>1, SubSeqProperties
<1>4. b \in Seq(S) /\ Len(b) = Len(ls) - i /\ \A m \in 1 .. Len(ls) - i : b[m] = ls[m + i]
  <2> DEFINE f == i + 1
             n == Len(ls)
  <2>1. f \in Int /\ n \in Int /\ \A m \in f .. n : ls[m] \in S
    BY <1>1, <1>2
  <2>2. n - f + 1 = n - i /\ (f <= n \/ n - i = 0) /\ (f <= n => n - i > 0)
    BY <1>2
  <2>3. \A m \in 1 .. n - i : f + m - 1 = m + i
    BY <1>2
  <2>4. /\ b \in Seq(S) /\ Len(b) = IF f <= n THEN n - f + 1 ELSE 0
        /\ \A m \in 1 .. n - f + 1 : b[m] = ls[f + m - 1]
    <3> HIDE DEF f, n
    <3>1. /\ SubSeq(ls, f, n) \in Seq(S) /\ Len(SubSeq(ls, f, n)) = IF f <= n THEN n - f + 1 ELSE 0
          /\ \A m \in 1 .. n - f + 1 : SubSeq(ls, f, n)[m] = ls[f + m - 1]
      BY <2>1, SubSeqProperties
    <3> QED BY <3>1 DEF f, n
  <2> HIDE DEF f, b
  <2>5. \A m \in 1 .. n - i : b[m] = ls[m + i]
    BY <2>2, <2>3, <2>4
  <2> QED BY <2>2, <2>4, <2>5
<1> HIDE DEF a, b
<1>5. Without(ls, i) = a \o b
  BY DEF Without, a, b
<1>6. k \in 1 .. Len(a) + Len(b)
  BY <1>3, <1>4, <1>5, ConcatProperties
<1>7. (a \o b)[k] = IF k <= Len(a) THEN a[k] ELSE b[k - Len(a)]
  BY <1>3, <1>4, <1>6, ConcatProperties
<1>8. CASE k <= Len(a)
  BY <1>2, <1>3, <1>5, <1>6, <1>7, <1>8
<1>9. CASE k > Len(a)
  <2>1. k - Len(a) \in 1 .. Len(ls) - i /\ (k - Len(a)) + i \in 1 .. Len(ls)
    BY <1>2, <1>3, <1>4, <1>6, <1>9
  <2>2. (a \o b)[k] = ls[(k - Len(a)) + i]
    BY <1>2, <1>3, <1>4, <1>6, <1>7, <1>9, <2>1
  <2> QED BY <1>2, <1>5, <2>1, <2>2
<1> QED BY <1>3, <1>6, <1>8, <1>9

(* A misspelt line keeps its name, but for the parent's, and is moved inward *)
(* at most.                                                                 *)
LEMMA MisspeltNames ==
    ASSUME NEW l, Line(l), NEW m \in Misspelt(l)
    PROVE  m.name = "verdict" => l.name = "verdict"
<1>1. /\ [l EXCEPT !.bare = ~@].name = l.name /\ \A f : [l EXCEPT !.form = f].name = l.name
      /\ [l EXCEPT !.level = "inner"].name = l.name /\ [l EXCEPT !.name = "commit_sha"].name = "commit_sha"
      /\ [l EXCEPT !.num = -1].name = l.name /\ \A w : [l EXCEPT !.word = w].name = l.name
  BY DEF Line
<1>2. \/ m = [l EXCEPT !.bare = ~@] \/ m = [l EXCEPT !.form = "loose"] \/ m = [l EXCEPT !.form = "item"]
      \/ m = [l EXCEPT !.level = "inner"] \/ m = [l EXCEPT !.name = "commit_sha"]
      \/ m = [l EXCEPT !.num = -1] \/ m = [l EXCEPT !.word = "other"]
  BY DEF Misspelt
<1> QED BY <1>1, <1>2

(* The first slip leaves the decisions of a text on one level.              *)
LEMMA SlipTogether ==
    ASSUME NEW t, Written(t.lines), Single(t.lines), NEW u \in Slips(t)
    PROVE  Together(u.lines)
<1> DEFINE ls == t.lines
<1>1. PICK n \in Nat : DOMAIN ls = 1 .. n /\ \A i \in 1 .. n : Line(ls[i])
  BY WrittenLines
<1>2. Written(ls) /\ Single(ls)
  OBVIOUS
<1>3. u \in Resaved(ls) \/ u \in LeftOut(ls) \/ u \in Mistyped(ls) \/ u \in Repeated(ls)
  BY DEF Slips
<1> HIDE DEF ls
<1>4. CASE u \in Resaved(ls)
  <2>1. PICK s \in {"not utf-8", "block rejected"} : u = [state |-> s, lines |-> ls]
    BY <1>4 DEF Resaved
  <2>2. u.lines = ls
    BY <2>1
  <2> QED BY <1>2, <2>2 DEF Single, Together
<1>5. CASE u \in LeftOut(ls)
  <2>1. PICK i \in DOMAIN ls : u = Text(Without(ls, i))
    BY <1>5 DEF LeftOut
  <2>2. \A k \in DOMAIN Without(ls, i) : \E j \in DOMAIN ls : Without(ls, i)[k] = ls[j]
    BY <1>2, LeftOutLines
  <2>3. \A k \in Decisions(Without(ls, i)) : Without(ls, i)[k].level = "top"
    BY <1>2, <2>2 DEF Single, Decisions
  <2> QED BY <2>1, <2>3 DEF Text, Together
<1>6. CASE u \in Mistyped(ls)
  <2>1. PICK i \in Tops(ls) : \E l \in Misspelt(ls[i]) : u = Text(With(ls, i, l))
    BY <1>6 DEF Mistyped
  <2>2. PICK l \in Misspelt(ls[i]) : u = Text(With(ls, i, l))
    BY <2>1
  <2>3. i \in DOMAIN ls /\ (l.name = "verdict" => ls[i].name = "verdict")
    <3>1. i \in DOMAIN ls
      BY DEF Tops
    <3> QED BY <1>1, <3>1, MisspeltNames
  <2>4. \A k \in Decisions(With(ls, i, l)) : k \in Decisions(ls)
    BY <2>3 DEF With, Decisions
  <2>5. \A k, j \in Decisions(With(ls, i, l)) : k = j
    BY <1>2, <2>4 DEF Single
  <2> QED BY <2>2, <2>5 DEF Text, Together
<1>7. CASE u \in Repeated(ls)
  <2>1. PICK d \in {"GO", "NO-GO"} : u = Text(Append(ls, Entry("verdict", d, 0)))
    BY <1>7 DEF Repeated
  <2>2. PICK S : ls \in Seq(S)
    BY <1>2 DEF Written
  <2> DEFINE e == Entry("verdict", d, 0)
  <2>3. e.level = "top"
    BY DEF Entry
  <2> HIDE DEF e
  <2>4. \A k \in DOMAIN Append(ls, e) :
           (k \in DOMAIN ls /\ Append(ls, e)[k] = ls[k]) \/ Append(ls, e)[k] = e
    <3>1. ls \in Seq(S \cup {e}) /\ e \in S \cup {e}
      BY <2>2
    <3> QED BY <3>1, AppendProperties
  <2>5. \A k \in Decisions(Append(ls, e)) : Append(ls, e)[k].level = "top"
    BY <1>2, <2>3, <2>4 DEF Single, Decisions
  <2>6. u.lines = Append(ls, e)
    BY <2>1 DEF Text, e
  <2> QED BY <2>5, <2>6 DEF Together
<1> QED BY <1>3, <1>4, <1>5, <1>6, <1>7

LEMMA TemplateSingle ==
    ASSUME NEW decision, NEW tool, NEW tree, NEW parent
    PROVE  Single(Template(decision, tool, tree, parent).lines)
<1> DEFINE ls == Template(decision, tool, tree, parent).lines
<1>1. DOMAIN ls = 1 .. 10
  BY DEF Template, Text
<1>2. ls[1].level = "top"
  BY DEF Template, Text, Entry
<1>3. \A i \in 2 .. 10 : ls[i].name # "verdict"
  <2>1. /\ ls[2].name = "release_tag" /\ ls[3].name = "parent_sha" /\ ls[4].name = "generated_at"
        /\ ls[5].name = "inputs_hash" /\ ls[6].name = "tool_versions" /\ ls[7].name = "codex_cli"
        /\ ls[8].name = "codex_target_triple" /\ ls[9].name = "codex_payload_sha256"
        /\ ls[10].name = "gpg_signature"
    BY DEF Template, Text, Entry, Heading, Inner
  <2> HIDE DEF ls
  <2> QED BY <2>1
<1> HIDE DEF ls
<1>4. \A i \in Decisions(ls) : i = 1
  BY <1>1, <1>3 DEF Decisions
<1>5. Single(ls)
  BY <1>2, <1>4 DEF Single
<1> QED BY <1>5 DEF ls

LEMMA SingleSlipped ==
    ASSUME NEW ls, Single(ls)
    PROVE  Slipped(ls)
BY DEF Slipped, Single, Together

LEMMA NoTextSingle == Single(NoText.lines)
<1>1. DOMAIN NoText.lines = {}
  BY DEF NoText
<1> QED BY <1>1 DEF Single, Decisions

LEMMA ReadersBegin == Init => ReaderInv
<1> SUFFICES ASSUME Init PROVE ReaderInv
  OBVIOUS
<1>1. draft = NoText /\ verdict = NoText
  BY DEF Init
<1>2. Slipped(draft.lines) /\ Slipped(verdict.lines)
  BY <1>1, NoTextSingle, SingleSlipped
<1>3. verdict.state # "ok"
  BY <1>1 DEF NoText
<1> QED BY <1>2, <1>3 DEF ReaderInv, Shaped

LEMMA QuietShaped ==
    ASSUME gate' = Quiet
    PROVE  Shaped'
BY DEF Quiet, Shaped

LEMMA ReadersStep == IInv /\ ReaderInv /\ [Next]_vars => ReaderInv'
<1> SUFFICES ASSUME IInv, ReaderInv, [Next]_vars PROVE ReaderInv'
  OBVIOUS
<1>1. ASSUME NEW d \in {"GO", "NO-GO"}, NEW tool \in Tools, Review(d, tool)
      PROVE  ReaderInv'
  <2>1. UNCHANGED <<verdict, slips>> /\ gate' = Quiet
        /\ draft' = Template(d, tool, trees[Len(trees)], Len(trees))
    BY <1>1 DEF Review
  <2>2. Single(draft'.lines)
    BY <2>1, TemplateSingle
  <2> QED BY <2>1, <2>2, QuietShaped DEF ReaderInv, Slipped, Single, Together, Decisions
<1>2. ASSUME Slip PROVE ReaderInv'
  <2>1. UNCHANGED verdict /\ gate' = Quiet /\ slips' = slips + 1 /\ draft' \in Slips(draft)
    BY <1>2 DEF Slip
  <2>2. slips \in Nat /\ Written(draft.lines)
    BY BoundsAssumption DEF IInv, Histories
  <2>3. slips' <= 1 => slips = 0
    BY <2>1, <2>2
  <2>4. slips = 0 => Together(draft'.lines)
    BY <2>1, <2>2, SlipTogether DEF ReaderInv, Slipped
  <2>5. slips' # 0 /\ (slips = 0 => Together(verdict.lines))
    BY <2>1, <2>2 DEF ReaderInv, Slipped
  <2> QED BY <2>1, <2>3, <2>4, <2>5, QuietShaped DEF ReaderInv, Slipped
<1>3. ASSUME CommitVerdict PROVE ReaderInv'
  <2>1. slips' = slips /\ gate' = Quiet /\ verdict' = draft /\ draft' = NoText
    BY <1>3 DEF CommitVerdict
  <2>2. Slipped(verdict.lines)'
    BY <2>1 DEF ReaderInv, Slipped
  <2>3. Slipped(draft.lines)'
    BY <2>1, NoTextSingle DEF Slipped, Single, Together
  <2> QED BY <2>1, <2>2, <2>3, QuietShaped DEF ReaderInv
<1>4. ASSUME UNCHANGED <<verdict, draft, slips>>, gate' = Quiet PROVE ReaderInv'
  BY <1>4, QuietShaped DEF ReaderInv, Slipped
<1>5. ASSUME NEW optional \in BOOLEAN, Release(optional) PROVE ReaderInv'
  <2> DEFINE c == Validate(verdict, Expected(optional), trees[Tip], clock)
  <2>1. UNCHANGED <<verdict, draft, slips>> /\ gate'.code = c
    BY <1>5 DEF Release
  <2>2. verdict.state = "ok" /\ c \in {0, 2} =>
           Code(DecisionGates(verdict.lines, Parse(verdict.lines))) = 0
    BY ShapePasses
  <2> HIDE DEF c
  <2>3. Shaped'
    BY <2>1, <2>2 DEF Shaped
  <2> QED BY <2>1, <2>3 DEF ReaderInv, Slipped
<1>6. CASE UNCHANGED vars
  BY <1>6 DEF vars, ReaderInv, Slipped, Shaped
<1> QED BY <1>1, <1>2, <1>3, <1>4, <1>5, <1>6 DEF Next, CommitWork, Tick

(* As long as the author has slipped at most once, whatever the bound, two   *)
(* readers that keep different rules read the same decision from every text *)
(* the validator lets past its shape gates (noncanonical_top_level_lines,    *)
(* count_top_level_key).  With two slips a decision may stand among the      *)
(* inner lines and another at the top.                                       *)
THEOREM OneSlipIsSeen == Spec => [](slips <= 1 => ReadersAgree)
<1>1. ASSUME IInv, ReaderInv PROVE slips <= 1 => ReadersAgree
  <2> DEFINE ls == verdict.lines
             strict == {i \in Declared(ls, "verdict") : ls[i].form = "canonical" /\ ~ls[i].bare}
             loose == {i \in DOMAIN ls : ls[i].name = "verdict"}
  <2> SUFFICES ASSUME slips <= 1, verdict.state = "ok", gate.code \in {0, 2}
               PROVE  strict = loose /\ Cardinality(loose) = 1
    BY DEF ReadersAgree
  <2>1. Written(ls) /\ Together(ls) /\ Code(DecisionGates(ls, Parse(ls))) = 0
    BY <1>1 DEF IInv, Histories, ReaderInv, Slipped, Shaped
  <2>2. PICK i \in DOMAIN ls : Declared(ls, "verdict") = {i} /\ ~ls[i].bare
    BY <2>1, OneDecision
  <2>3. Noncanonical(ls) = {}
    BY <2>1, DecisionPasses
  <2>4. \A j \in DOMAIN ls : ls[j].level = "top" => ls[j].form = "canonical"
    BY <2>3 DEF Noncanonical, Declares
  <2>5. i \in loose /\ ls[i].level = "top"
    BY <2>2 DEF Declared, Tops
  <2>6. \A j \in loose : ls[j].level = "top"
    BY <2>1, <2>5 DEF Together, Decisions
  <2>7. \A j \in loose : j \in Declared(ls, "verdict")
    BY <2>4, <2>6 DEF Declared, Tops
  <2>8. loose = {i}
    BY <2>2, <2>5, <2>7
  <2>9. strict = {i}
    BY <2>2, <2>4, <2>5
  <2> QED BY <2>8, <2>9, FS_Singleton
<1> QED BY <1>1, ReadersBegin, ReadersStep, Invariance, PTL DEF Spec
=============================================================================
