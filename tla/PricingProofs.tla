--------------------------- MODULE PricingProofs ---------------------------
(***************************************************************************)
(* Compatibility and Pricing, for every JSON object, model id, usage and   *)
(* cap: what the request shims do to a caller's object, which entry of the *)
(* price table the walk over it finds, and that the charge for a cost is   *)
(* fair.                                                                   *)
(***************************************************************************)
EXTENDS Pricing, WellFoundedInduction, TLAPS

-----------------------------------------------------------------------------
(* JSON objects *)

\* OrCopy fills a missing key from the other object, if that has a value for it.
LEMMA OrCopied ==
  ASSUME NEW object, NEW key, NEW from, NEW field
  PROVE  /\ DOMAIN OrCopy(object, key, from, field) =
              DOMAIN object \cup (IF Has(from, field) THEN {key} ELSE {})
         /\ \A k \in DOMAIN object : OrCopy(object, key, from, field)[k] = object[k]
         /\ key \notin DOMAIN object /\ Has(from, field) =>
              OrCopy(object, key, from, field)[key] = from[field]
<1>1. CASE Has(from, field)
  BY <1>1 DEF OrCopy, OrInsert
<1>2. CASE ~ Has(from, field)
  BY <1>2 DEF OrCopy
<1> QED BY <1>1, <1>2

\* Copy keeps the values of the known keys.
LEMMA Copied ==
  ASSUME NEW object, NEW keys
  PROVE  /\ DOMAIN Copy(object, keys) = keys \cap DOMAIN object
         /\ \A k \in keys \cap DOMAIN object : Copy(object, keys)[k] = object[k]
BY DEF Copy

\* Without drops one key.
LEMMA Dropped ==
  ASSUME NEW object, NEW key
  PROVE  /\ DOMAIN Without(object, key) = DOMAIN object \ {key}
         /\ \A k \in DOMAIN object \ {key} : Without(object, key)[k] = object[k]
BY DEF Without

-----------------------------------------------------------------------------
(* Requests *)

\* The messages are the caller's, or made of the caller's input.
LEMMA MessagesAdded ==
  ASSUME NEW clean, NEW object
  PROVE  /\ DOMAIN clean \subseteq DOMAIN WithMessages(clean, object)
         /\ DOMAIN WithMessages(clean, object) \subseteq DOMAIN clean \cup {"messages"}
         /\ \A k \in DOMAIN clean : k # "messages" => WithMessages(clean, object)[k] = clean[k]
         /\ Has(object, "messages") =>
              /\ Has(WithMessages(clean, object), "messages")
              /\ WithMessages(clean, object)["messages"] = object["messages"]
         /\ Has(object, "input") /\ ~ Has(object, "messages") =>
              /\ Has(WithMessages(clean, object), "messages")
              /\ WithMessages(clean, object)["messages"] = UserMessages(object["input"])
<1>1. CASE Has(object, "messages")
  <2>1. WithMessages(clean, object) = Insert(clean, "messages", object["messages"])
    BY <1>1 DEF WithMessages
  <2> QED BY <1>1, <2>1 DEF Has, Insert
<1>2. CASE ~ Has(object, "messages") /\ Has(object, "input")
  <2>1. WithMessages(clean, object) = Insert(clean, "messages", UserMessages(object["input"]))
    BY <1>2 DEF WithMessages
  <2> QED BY <1>2, <2>1 DEF Has, Insert
<1>3. CASE ~ Has(object, "messages") /\ ~ Has(object, "input")
  BY <1>3 DEF WithMessages
<1> QED BY <1>1, <1>2, <1>3

(***************************************************************************)
(* The keys of a clean request, and their values: the caller's known keys  *)
(* go first, and the Ollama options fill what the caller left out.         *)
(***************************************************************************)
LEMMA CleanObjectIs ==
  ASSUME NEW object, NEW keys, "messages" \notin keys
  PROVE  LET clean == CleanObject(object, keys) IN
         /\ DOMAIN clean \subseteq keys \cup {"messages", "temperature", "max_tokens"}
         /\ \A k \in keys \cap DOMAIN object : k \in DOMAIN clean /\ clean[k] = object[k]
         /\ \A k \in DOMAIN clean \ {"messages", "temperature", "max_tokens"} : k \in DOMAIN object
         /\ Has(object, "messages") =>
              Has(clean, "messages") /\ clean["messages"] = object["messages"]
         /\ Has(object, "input") /\ ~ Has(object, "messages") =>
              Has(clean, "messages") /\ clean["messages"] = UserMessages(object["input"])
         /\ "max_tokens" \in DOMAIN clean /\ "max_tokens" \notin keys \cap DOMAIN object =>
              /\ Has(Options(object), "num_predict")
              /\ clean["max_tokens"] = Options(object)["num_predict"]
         /\ Has(Options(object), "num_predict") => "max_tokens" \in DOMAIN clean
<1> DEFINE copy == Copy(object, keys)
           said == WithMessages(copy, object)
           warm == OrCopy(said, "temperature", Options(object), "temperature")
           clean == OrCopy(warm, "max_tokens", Options(object), "num_predict")
<1>1. CleanObject(object, keys) = clean
  BY DEF CleanObject
<1>2. /\ DOMAIN copy = keys \cap DOMAIN object
      /\ \A k \in keys \cap DOMAIN object : copy[k] = object[k]
  BY Copied
<1> HIDE DEF copy
<1>3. /\ DOMAIN copy \subseteq DOMAIN said
      /\ DOMAIN said \subseteq DOMAIN copy \cup {"messages"}
      /\ \A k \in DOMAIN copy : k # "messages" => said[k] = copy[k]
      /\ Has(object, "messages") => "messages" \in DOMAIN said /\ said["messages"] = object["messages"]
      /\ Has(object, "input") /\ ~ Has(object, "messages") =>
           "messages" \in DOMAIN said /\ said["messages"] = UserMessages(object["input"])
  BY MessagesAdded DEF Has
<1> HIDE DEF said
<1>4. /\ DOMAIN warm = DOMAIN said \cup (IF Has(Options(object), "temperature") THEN {"temperature"} ELSE {})
      /\ \A k \in DOMAIN said : warm[k] = said[k]
  BY DEF OrCopy, OrInsert
<1> HIDE DEF warm
<1>5. /\ DOMAIN clean = DOMAIN warm \cup (IF Has(Options(object), "num_predict") THEN {"max_tokens"} ELSE {})
      /\ \A k \in DOMAIN warm : clean[k] = warm[k]
      /\ "max_tokens" \notin DOMAIN warm /\ Has(Options(object), "num_predict") =>
           clean["max_tokens"] = Options(object)["num_predict"]
  BY OrCopied
<1> HIDE DEF clean
<1>6. /\ DOMAIN clean \subseteq keys \cup {"messages", "temperature", "max_tokens"}
      /\ \A k \in DOMAIN clean \ {"messages", "temperature", "max_tokens"} : k \in DOMAIN object
      /\ Has(Options(object), "num_predict") => "max_tokens" \in DOMAIN clean
  BY <1>2, <1>3, <1>4, <1>5
<1>7. \A k \in keys \cap DOMAIN object : k \in DOMAIN clean /\ clean[k] = object[k]
  BY <1>2, <1>3, <1>4, <1>5
<1>8. /\ Has(object, "messages") =>
           "messages" \in DOMAIN clean /\ clean["messages"] = object["messages"]
      /\ Has(object, "input") /\ ~ Has(object, "messages") =>
           "messages" \in DOMAIN clean /\ clean["messages"] = UserMessages(object["input"])
  BY <1>3, <1>4, <1>5
<1>9. "max_tokens" \in DOMAIN clean /\ "max_tokens" \notin keys \cap DOMAIN object =>
        /\ Has(Options(object), "num_predict")
        /\ clean["max_tokens"] = Options(object)["num_predict"]
  BY <1>2, <1>3, <1>4, <1>5
<1> QED BY <1>1, <1>6, <1>7, <1>8, <1>9 DEF Has

\* The limits that count for a request of an endpoint other than chat completions: the
\* caller's own, and the one of the Ollama options.
LEMMA CleanLimits ==
  ASSUME NEW object
  PROVE  LET body  == CleanRequest(object)
             named == LimitKeys \cup {"max_output_tokens"}
             own   == {object[k] : k \in named \cap DOMAIN object}
             given == IF Has(Options(object), "num_predict")
                      THEN own \cup {Options(object)["num_predict"]} ELSE own IN
         /\ HasLimit(body)
         /\ \A k \in LimitKeys \cap DOMAIN body :
              IF given = {} THEN body[k] = DIRECT_OPENROUTER_DEFAULT_MAX_TOKENS ELSE body[k] \in given
<1> DEFINE keys == LimitKeys \cup {"model", "temperature", "stream"}
           clean == CleanObject(object, keys)
           named == LimitKeys \cup {"max_output_tokens"}
           own == {object[k] : k \in named \cap DOMAIN object}
           given == IF Has(Options(object), "num_predict")
                    THEN own \cup {Options(object)["num_predict"]} ELSE own
           limit == IF Has(object, "max_output_tokens") THEN object["max_output_tokens"]
                    ELSE DIRECT_OPENROUTER_DEFAULT_MAX_TOKENS
<1>1. CleanRequest(object) = IF HasLimit(clean) THEN clean ELSE Insert(clean, "max_tokens", limit)
  BY DEF CleanRequest
<1>2. /\ \A k \in LimitKeys \cap DOMAIN object : k \in DOMAIN clean /\ clean[k] = object[k]
      /\ \A k \in LimitKeys \cap DOMAIN clean : k # "max_tokens" => k \in DOMAIN object
      /\ "max_tokens" \in DOMAIN clean /\ "max_tokens" \notin DOMAIN object =>
           /\ Has(Options(object), "num_predict")
           /\ clean["max_tokens"] = Options(object)["num_predict"]
      /\ Has(Options(object), "num_predict") => "max_tokens" \in DOMAIN clean
  BY CleanObjectIs DEF LimitKeys
<1> HIDE DEF clean
<1>3. CASE HasLimit(clean)
  <2>1. \A k \in LimitKeys \cap DOMAIN clean : clean[k] \in given
    <3> TAKE k \in LimitKeys \cap DOMAIN clean
    <3>1. CASE k \in DOMAIN object
      <4>1. object[k] \in own
        BY <3>1
      <4> QED BY <4>1, <3>1, <1>2
    <3>2. CASE k \notin DOMAIN object
      BY <3>2, <1>2
    <3> QED BY <3>1, <3>2
  <2> QED BY <1>1, <1>3, <2>1
<1>4. CASE ~ HasLimit(clean)
  <2> DEFINE body == Insert(clean, "max_tokens", limit)
  <2>1. DOMAIN body = DOMAIN clean \cup {"max_tokens"} /\ body["max_tokens"] = limit
    BY DEF Insert
  <2> HIDE DEF body
  <2>2. LimitKeys \cap DOMAIN body = {"max_tokens"}
    BY <1>4, <2>1 DEF HasLimit, Has, LimitKeys
  <2>3. LimitKeys \cap DOMAIN object = {} /\ ~ Has(Options(object), "num_predict")
    BY <1>2, <1>4 DEF HasLimit, Has, LimitKeys
  <2>4. own = IF Has(object, "max_output_tokens") THEN {object["max_output_tokens"]} ELSE {}
    BY <2>3 DEF Has
  <2>5. IF given = {} THEN limit = DIRECT_OPENROUTER_DEFAULT_MAX_TOKENS ELSE limit \in given
    BY <2>3, <2>4
  <2>6. HasLimit(body)
    BY <2>1 DEF HasLimit, Has, LimitKeys
  <2>7. CleanRequest(object) = body
    BY <1>1, <1>4 DEF body
  <2> HIDE DEF given, limit
  <2> QED BY <2>1, <2>2, <2>5, <2>6, <2>7 DEF given
<1> QED BY <1>3, <1>4

\* The limits of a chat completion: the caller's own keys only.
LEMMA ChatLimits ==
  ASSUME NEW object
  PROVE  LET body  == ensure_direct_completion_limit(object)
             named == LimitKeys \cup {"max_output_tokens"}
             given == {object[k] : k \in named \cap DOMAIN object} IN
         /\ HasLimit(body)
         /\ \A k \in LimitKeys \cap DOMAIN body :
              IF given = {} THEN body[k] = DIRECT_OPENROUTER_DEFAULT_MAX_TOKENS ELSE body[k] \in given
<1> DEFINE named == LimitKeys \cup {"max_output_tokens"}
           given == {object[k] : k \in named \cap DOMAIN object}
           limit == IF Has(object, "max_output_tokens") THEN object["max_output_tokens"]
                    ELSE DIRECT_OPENROUTER_DEFAULT_MAX_TOKENS
<1>1. CASE HasLimit(object)
  <2>1. \A k \in LimitKeys \cap DOMAIN object : object[k] \in given
    OBVIOUS
  <2> QED BY <1>1, <2>1 DEF ensure_direct_completion_limit
<1>2. CASE ~ HasLimit(object)
  <2> DEFINE rest == Without(object, "max_output_tokens")
             body == Insert(rest, "max_tokens", limit)
  <2>1. ensure_direct_completion_limit(object) = body
    BY <1>2 DEF ensure_direct_completion_limit
  <2>2. DOMAIN rest = DOMAIN object \ {"max_output_tokens"}
    BY Dropped
  <2> HIDE DEF rest
  <2>3. DOMAIN body = DOMAIN rest \cup {"max_tokens"} /\ body["max_tokens"] = limit
    BY DEF Insert
  <2> HIDE DEF body
  <2>4. LimitKeys \cap DOMAIN body = {"max_tokens"}
    BY <1>2, <2>2, <2>3 DEF HasLimit, Has, LimitKeys
  <2>5. given = IF Has(object, "max_output_tokens") THEN {object["max_output_tokens"]} ELSE {}
    BY <1>2 DEF HasLimit, Has, LimitKeys
  <2>6. IF given = {} THEN limit = DIRECT_OPENROUTER_DEFAULT_MAX_TOKENS ELSE limit \in given
    BY <2>5
  <2>7. HasLimit(body)
    BY <2>3 DEF HasLimit, Has, LimitKeys
  <2> HIDE DEF given, limit
  <2> QED BY <2>1, <2>3, <2>4, <2>6, <2>7 DEF given
<1> QED BY <1>1, <1>2

\* A chat completion keeps every key but the one that names its limit differently.
LEMMA ChatKeepsKeys ==
  ASSUME NEW object
  PROVE  \A k \in DOMAIN object \ {"max_output_tokens"} :
           /\ k \in DOMAIN ensure_direct_completion_limit(object)
           /\ ensure_direct_completion_limit(object)[k] = object[k]
<1>1. CASE HasLimit(object)
  BY <1>1 DEF ensure_direct_completion_limit
<1>2. CASE ~ HasLimit(object)
  <2> DEFINE rest == Without(object, "max_output_tokens")
             limit == IF Has(object, "max_output_tokens") THEN object["max_output_tokens"]
                      ELSE DIRECT_OPENROUTER_DEFAULT_MAX_TOKENS
  <2>1. ensure_direct_completion_limit(object) = Insert(rest, "max_tokens", limit)
    BY <1>2 DEF ensure_direct_completion_limit
  <2>2. /\ DOMAIN rest = DOMAIN object \ {"max_output_tokens"}
        /\ \A k \in DOMAIN object \ {"max_output_tokens"} : rest[k] = object[k]
    BY Dropped
  <2>3. "max_tokens" \notin DOMAIN object
    BY <1>2 DEF HasLimit, Has, LimitKeys
  <2> HIDE DEF rest, limit
  <2> QED BY <2>1, <2>2, <2>3 DEF Insert
<1> QED BY <1>1, <1>2

\* Another endpoint keeps the known keys and turns the prompt into messages.
LEMMA CleanKeepsKeys ==
  ASSUME NEW object
  PROVE  LET body == CleanRequest(object) IN
         /\ \A k \in (LimitKeys \cup {"model", "messages", "temperature", "stream"}) \cap DOMAIN object :
              k \in DOMAIN body /\ body[k] = object[k]
         /\ Has(object, "input") /\ ~ Has(object, "messages") =>
              "messages" \in DOMAIN body /\ body["messages"] = UserMessages(object["input"])
<1> DEFINE keys == LimitKeys \cup {"model", "temperature", "stream"}
           clean == CleanObject(object, keys)
           limit == IF Has(object, "max_output_tokens") THEN object["max_output_tokens"]
                    ELSE DIRECT_OPENROUTER_DEFAULT_MAX_TOKENS
<1>1. CleanRequest(object) = IF HasLimit(clean) THEN clean ELSE Insert(clean, "max_tokens", limit)
  BY DEF CleanRequest
<1>2. "messages" \notin keys
  BY DEF LimitKeys
<1>3. /\ \A k \in keys \cap DOMAIN object : k \in DOMAIN clean /\ clean[k] = object[k]
      /\ "messages" \in DOMAIN object =>
           "messages" \in DOMAIN clean /\ clean["messages"] = object["messages"]
      /\ Has(object, "input") /\ ~ Has(object, "messages") =>
           "messages" \in DOMAIN clean /\ clean["messages"] = UserMessages(object["input"])
  BY <1>2, CleanObjectIs DEF Has
<1>4. \A k \in (LimitKeys \cup {"model", "messages", "temperature", "stream"}) \cap DOMAIN object :
        k \in DOMAIN clean /\ clean[k] = object[k]
  BY <1>3
<1> HIDE DEF clean
<1>5. CASE HasLimit(clean)
  BY <1>1, <1>3, <1>4, <1>5
<1>6. CASE ~ HasLimit(clean)
  <2> DEFINE body == Insert(clean, "max_tokens", limit)
  <2>1. DOMAIN body = DOMAIN clean \cup {"max_tokens"}
    BY DEF Insert
  <2>2. \A k \in DOMAIN clean : k # "max_tokens" => body[k] = clean[k]
    BY DEF Insert
  <2>3. "max_tokens" \notin DOMAIN clean
    BY <1>6 DEF HasLimit, Has, LimitKeys
  <2>4. CleanRequest(object) = body
    BY <1>1, <1>6
  <2> HIDE DEF body
  <2> QED BY <1>3, <1>4, <2>1, <2>2, <2>3, <2>4
<1> QED BY <1>5, <1>6

-----------------------------------------------------------------------------
(* Prefixes of a model id *)

\* A set of naturals that is not empty has a least element.
LEMMA LeastNumber ==
  ASSUME NEW T, T \subseteq Nat, T # {}
  PROVE  \E k \in T : \A j \in T : k <= j
<1>1. PICK R : IsWellFoundedOn(R, Nat) /\ \A j, k \in Nat : j < k => <<j, k>> \in R
  <2>1. \A j, k \in Nat : j < k => <<j, k>> \in OpToRel(<, Nat)
    BY DEF OpToRel
  <2> QED BY <2>1, NatLessThanWellFounded, Zenon
<1>2. PICK k \in T : \A j \in T : ~(<<j, k>> \in R)
  <2>1. IsWellFoundedOn(R, Nat) /\ T \subseteq Nat /\ T # {}
    BY <1>1
  <2> QED BY ONLY <2>1, WFMin, Zenon
<1>3. ASSUME NEW j \in T PROVE k <= j
  <2>1. j \in Nat /\ k \in Nat
    OBVIOUS
  <2>2. ~(j < k)
    BY <1>1, <1>2, <2>1, Zenon
  <2> QED BY <2>1, <2>2
<1> QED BY <1>3

\* One id is a prefix of another when it agrees with it as far as it goes.
LEMMA PrefixAgrees ==
  ASSUME NEW S, NEW s \in Seq(S), NEW t \in Seq(S)
  PROVE  IsPrefix(s, t) <=> Len(s) <= Len(t) /\ \A i \in 1 .. Len(s) : s[i] = t[i]
BY DEF IsPrefix

\* Of two prefixes of a model id, the shorter is a prefix of the longer.
LEMMA PrefixesNest ==
  ASSUME NEW S, NEW s \in Seq(S), NEW t \in Seq(S), NEW model \in Seq(S),
         IsPrefix(s, model), IsPrefix(t, model), Len(s) <= Len(t)
  PROVE  IsPrefix(s, t)
BY PrefixAgrees

\* Two ids that are prefixes of each other are equal.
LEMMA MutualPrefixes ==
  ASSUME NEW S, NEW s \in Seq(S), NEW t \in Seq(S), IsPrefix(s, t), IsPrefix(t, s)
  PROVE  s = t
BY PrefixAgrees

-----------------------------------------------------------------------------
(* The table *)

\* The parts of the ids in the table.
TableParts == {"gpt-4", "o", "-mini", ".1", "-nano", "-turbo", "gpt-3.5", "o4", "o3", "o1"}

\* Every entry has an id of at least one part and prices that are whole numbers.
LEMMA EntriesAreTyped ==
  /\ Len(OPENAI_PRICES) = 13
  /\ DOMAIN OPENAI_PRICES = 1 .. 13
  /\ \A i \in 1 .. 13 :
       /\ OPENAI_PRICES[i] \in [id : Seq(TableParts), prompt : Nat, completion : Nat]
       /\ Len(OPENAI_PRICES[i].id) > 0
<1>1. Len(OPENAI_PRICES) = 13 /\ DOMAIN OPENAI_PRICES = 1 .. 13
  BY DEF OPENAI_PRICES
<1>2. ASSUME NEW i \in 1 .. 13
      PROVE  /\ OPENAI_PRICES[i] \in [id : {OPENAI_PRICES[i].id}, prompt : Nat, completion : Nat]
  BY DEF OPENAI_PRICES, ModelPrice
<1>3. ASSUME NEW i \in 1 .. 13
      PROVE  OPENAI_PRICES[i].id \in Seq(TableParts) /\ Len(OPENAI_PRICES[i].id) > 0
  <2>1. ASSUME NEW a \in TableParts
        PROVE  <<a>> \in Seq(TableParts) /\ Len(<<a>>) > 0
    OBVIOUS
  <2>2. ASSUME NEW a \in TableParts, NEW b \in TableParts
        PROVE  <<a, b>> \in Seq(TableParts) /\ Len(<<a, b>>) > 0
    OBVIOUS
  <2>3. ASSUME NEW a \in TableParts, NEW b \in TableParts, NEW c \in TableParts
        PROVE  <<a, b, c>> \in Seq(TableParts) /\ Len(<<a, b, c>>) > 0
    OBVIOUS
  <2> DEFINE one   == {<<"gpt-4">>, <<"o3">>, <<"o1">>}
             two   == {<<"gpt-4", "o">>, <<"gpt-4", ".1">>, <<"gpt-4", "-turbo">>, <<"gpt-3.5", "-turbo">>,
                       <<"o4", "-mini">>, <<"o3", "-mini">>, <<"o1", "-mini">>}
             three == {<<"gpt-4", "o", "-mini">>, <<"gpt-4", ".1", "-nano">>, <<"gpt-4", ".1", "-mini">>}
  <2>4. OPENAI_PRICES[i].id \in one \cup two \cup three
    BY DEF OPENAI_PRICES, ModelPrice
  <2>5. /\ one \subseteq {<<a>> : a \in TableParts}
        /\ two \subseteq {<<a, b>> : a, b \in TableParts}
        /\ three \subseteq {<<a, b, c>> : a, b, c \in TableParts}
    BY DEF TableParts
  <2> HIDE DEF one, two, three
  <2>6. CASE OPENAI_PRICES[i].id \in one
    <3>1. PICK a \in TableParts : OPENAI_PRICES[i].id = <<a>>
      BY <2>5, <2>6
    <3> QED BY <2>1, <3>1
  <2>7. CASE OPENAI_PRICES[i].id \in two
    <3>1. PICK a, b \in TableParts : OPENAI_PRICES[i].id = <<a, b>>
      BY <2>5, <2>7
    <3> QED BY <2>2, <3>1
  <2>8. CASE OPENAI_PRICES[i].id \in three
    <3>1. PICK a, b, c \in TableParts : OPENAI_PRICES[i].id = <<a, b, c>>
      BY <2>5, <2>8
    <3> QED BY <2>3, <3>1
  <2> QED BY <2>4, <2>6, <2>7, <2>8
<1> QED BY <1>1, <1>2, <1>3

\* No id is in the table twice.
LEMMA EntriesAreDistinct ==
  \A i, j \in 1 .. 13 : OPENAI_PRICES[i].id = OPENAI_PRICES[j].id => i = j
BY DEF OPENAI_PRICES, ModelPrice

-----------------------------------------------------------------------------
(* The walk over the table *)

\* best[i], as openai_price computes it, for every i up to n.
IsWalk(best, model, n) ==
  best = [i \in 0 .. n |-> IF i = 0 THEN FALLBACK_PRICE
                           ELSE Better(model, best[i - 1], OPENAI_PRICES[i])]

\* The walk can be taken to any length.
LEMMA WalkExists ==
  ASSUME NEW model, NEW n \in Nat
  PROVE  \E best : IsWalk(best, model, n)
<1> DEFINE stuck == {k \in Nat : ~ \E best : IsWalk(best, model, k)}
<1>1. SUFFICES ASSUME stuck # {} PROVE FALSE
  OBVIOUS
<1>2. PICK k \in stuck : \A j \in stuck : k <= j
  BY <1>1, LeastNumber
<1>3. CASE k = 0
  <2>1. IsWalk([i \in 0 .. 0 |-> FALLBACK_PRICE], model, 0)
    BY DEF IsWalk
  <2> QED BY <1>2, <1>3, <2>1
<1>4. CASE k > 0
  <2>1. k - 1 \in Nat /\ k - 1 \notin stuck
    BY <1>2, <1>4
  <2>2. PICK walk : IsWalk(walk, model, k - 1)
    BY <2>1
  <2> DEFINE longer == [i \in 0 .. k |-> IF i = k THEN Better(model, walk[k - 1], OPENAI_PRICES[k])
                                         ELSE walk[i]]
  <2>3. ASSUME NEW i \in 0 .. k
        PROVE  longer[i] = IF i = 0 THEN FALLBACK_PRICE
                           ELSE Better(model, longer[i - 1], OPENAI_PRICES[i])
    <3>1. CASE i = k
      BY <1>2, <1>4, <3>1
    <3>2. CASE i # k
      <4>1. i \in 0 .. k - 1 /\ longer[i] = walk[i]
        BY <1>2, <3>2
      <4>2. walk[i] = IF i = 0 THEN FALLBACK_PRICE
                      ELSE Better(model, walk[i - 1], OPENAI_PRICES[i])
        BY <2>2, <4>1 DEF IsWalk
      <4>3. i # 0 => longer[i - 1] = walk[i - 1]
        BY <1>2, <3>2
      <4> QED BY <4>1, <4>2, <4>3
    <3> QED BY <3>1, <3>2
  <2>4. IsWalk(longer, model, k)
    BY <2>3 DEF IsWalk
  <2> QED BY <1>2, <2>4
<1> QED BY <1>2, <1>3, <1>4

\* What openai_price returns is where a walk over the whole table ends.
LEMMA PriceIsWalked ==
  ASSUME NEW model
  PROVE  \E best : IsWalk(best, model, 13) /\ openai_price(model) = best[13]
<1>1. \E best : IsWalk(best, model, 13)
  BY WalkExists
<1> DEFINE best == CHOOSE g : g = [i \in 0 .. 13 |->
                     IF i = 0 THEN FALLBACK_PRICE ELSE Better(model, g[i - 1], OPENAI_PRICES[i])]
<1>2. IsWalk(best, model, 13)
  BY <1>1, Zenon DEF IsWalk
<1>3. openai_price(model) = best[13]
  BY EntriesAreTyped DEF openai_price
<1> QED BY <1>2, <1>3

\* What a walk has found after n entries: the fallback while none matched, and
\* otherwise a matching entry that no matching one is longer than.
LEMMA WalkKeepsLongest ==
  ASSUME NEW model, NEW best, IsWalk(best, model, 13), NEW n \in 0 .. 13
  PROVE  \/ best[n] = FALLBACK_PRICE /\ \A i \in 1 .. n : ~ IsPrefix(OPENAI_PRICES[i].id, model)
         \/ \E i \in 1 .. n :
              /\ best[n] = OPENAI_PRICES[i]
              /\ IsPrefix(OPENAI_PRICES[i].id, model)
              /\ \A j \in 1 .. n : IsPrefix(OPENAI_PRICES[j].id, model) =>
                                  Len(OPENAI_PRICES[j].id) <= Len(OPENAI_PRICES[i].id)
<1> DEFINE hit(i) == IsPrefix(OPENAI_PRICES[i].id, model)
           len(i) == Len(OPENAI_PRICES[i].id)
           none(k) == best[k] = FALLBACK_PRICE /\ \A i \in 1 .. k : ~ hit(i)
           some(k) == \E i \in 1 .. k : /\ best[k] = OPENAI_PRICES[i]
                                       /\ hit(i)
                                       /\ \A j \in 1 .. k : hit(j) => len(j) <= len(i)
           lost == {k \in 0 .. 13 : ~ none(k) /\ ~ some(k)}
<1>0. SUFFICES none(n) \/ some(n)
  OBVIOUS
<1>1. SUFFICES ASSUME lost # {} PROVE FALSE
  <2> HIDE DEF none, some
  <2> QED OBVIOUS
<1>2. PICK k \in lost : \A j \in lost : k <= j
  <2>1. lost \subseteq Nat
    OBVIOUS
  <2> HIDE DEF lost
  <2> QED BY <1>1, <2>1, LeastNumber
<1>3. \A i \in 1 .. 13 : len(i) \in Nat /\ len(i) > 0
  <2> TAKE i \in 1 .. 13
  <2>1. OPENAI_PRICES[i].id \in Seq(TableParts) /\ Len(OPENAI_PRICES[i].id) > 0
    BY EntriesAreTyped
  <2> HIDE DEF lost
  <2> QED BY <2>1
<1>4. Len(FALLBACK_PRICE.id) = 0
  BY DEF FALLBACK_PRICE, ModelPrice
<1>5. best[0] = FALLBACK_PRICE
  BY DEF IsWalk
<1>6. k # 0
  BY <1>2, <1>5
<1>7. k \in 1 .. 13 /\ k - 1 \in 0 .. 13 /\ k - 1 \notin lost
  BY <1>2, <1>6
<1>8. best[k] = Better(model, best[k - 1], OPENAI_PRICES[k])
  BY <1>7 DEF IsWalk
<1>9. best[k] = IF hit(k) /\ len(k) > Len(best[k - 1].id) THEN OPENAI_PRICES[k] ELSE best[k - 1]
  BY <1>8 DEF Better
<1>10. none(k - 1) \/ some(k - 1)
  BY <1>7
<1> HIDE DEF hit, len
<1>11. CASE none(k - 1)
  <2>1. CASE hit(k)
    <3>1. best[k] = OPENAI_PRICES[k]
      BY <1>3, <1>4, <1>7, <1>9, <1>11, <2>1
    <3>2. \A j \in 1 .. k : hit(j) => j = k
      BY <1>7, <1>11
    <3>3. some(k)
      BY <1>3, <1>7, <2>1, <3>1, <3>2
    <3> QED BY <1>2, <3>3
  <2>2. CASE ~ hit(k)
    <3>1. none(k)
      BY <1>7, <1>9, <1>11, <2>2
    <3> QED BY <1>2, <3>1
  <2> QED BY <2>1, <2>2
<1>12. CASE some(k - 1)
  <2>1. PICK i \in 1 .. k - 1 :
          best[k - 1] = OPENAI_PRICES[i] /\ hit(i) /\ \A j \in 1 .. k - 1 : hit(j) => len(j) <= len(i)
    BY <1>12
  <2>2. Len(best[k - 1].id) = len(i)
    BY <2>1 DEF len
  <2>3. CASE hit(k) /\ len(k) > len(i)
    <3>1. best[k] = OPENAI_PRICES[k]
      BY <1>9, <2>2, <2>3
    <3>2. ASSUME NEW j \in 1 .. k, hit(j) PROVE len(j) <= len(k)
      BY <1>3, <1>7, <2>1, <2>3, <3>2
    <3>3. some(k)
      BY <1>7, <2>3, <3>1, <3>2
    <3> QED BY <1>2, <3>3
  <2>4. CASE ~ (hit(k) /\ len(k) > len(i))
    <3>1. best[k] = OPENAI_PRICES[i]
      BY <1>9, <2>1, <2>2, <2>4
    <3>2. ASSUME NEW j \in 1 .. k, hit(j) PROVE len(j) <= len(i)
      BY <1>3, <1>7, <2>1, <2>4, <3>2
    <3>3. i \in 1 .. k
      BY <1>7
    <3>4. some(k)
      BY <2>1, <3>1, <3>2, <3>3
    <3> QED BY <1>2, <3>4
  <2> QED BY <2>3, <2>4
<1> QED BY <1>10, <1>11, <1>12

\* The price of a model is the most specific entry of the table, wherever in the
\* table it is: openai_price takes the longest matching id.
THEOREM PriceIsMostSpecific ==
  ASSUME NEW model \in Seq(STRING)
  PROVE  openai_price(model) = MostSpecific(model)
<1> DEFINE S == TableParts \cup STRING
           hits == {p \in ToSet(OPENAI_PRICES) : IsPrefix(p.id, model)}
<1>1. PICK best : IsWalk(best, model, 13) /\ openai_price(model) = best[13]
  BY PriceIsWalked
<1>2. ToSet(OPENAI_PRICES) = {OPENAI_PRICES[i] : i \in 1 .. 13}
  BY EntriesAreTyped DEF ToSet
<1>3. model \in Seq(S) /\ \A i \in 1 .. 13 : OPENAI_PRICES[i].id \in Seq(S)
  <2>1. \A T, U : T \subseteq U => Seq(T) \subseteq Seq(U)
    OBVIOUS
  <2>2. Seq(TableParts) \subseteq Seq(S) /\ Seq(STRING) \subseteq Seq(S)
    BY <2>1
  <2> HIDE DEF S
  <2> QED BY <2>2, EntriesAreTyped
<1> HIDE DEF S
<1>4. CASE best[13] = FALLBACK_PRICE /\ \A i \in 1 .. 13 : ~ IsPrefix(OPENAI_PRICES[i].id, model)
  <2>1. hits = {}
    BY <1>2, <1>4
  <2> QED BY <1>1, <1>4, <2>1 DEF MostSpecific
<1>5. ASSUME NEW i \in 1 .. 13,
             best[13] = OPENAI_PRICES[i], IsPrefix(OPENAI_PRICES[i].id, model),
             \A j \in 1 .. 13 : IsPrefix(OPENAI_PRICES[j].id, model) =>
                               Len(OPENAI_PRICES[j].id) <= Len(OPENAI_PRICES[i].id)
      PROVE  openai_price(model) = MostSpecific(model)
  <2> DEFINE p == OPENAI_PRICES[i]
  <2>1. p \in hits
    BY <1>2, <1>5
  <2>2. ASSUME NEW q \in hits PROVE IsPrefix(q.id, p.id)
    <3>1. PICK j \in 1 .. 13 : q = OPENAI_PRICES[j]
      BY <1>2
    <3>2. IsPrefix(OPENAI_PRICES[j].id, model) /\ Len(OPENAI_PRICES[j].id) <= Len(p.id)
      BY <1>5, <3>1
    <3> QED BY <1>3, <1>5, <3>1, <3>2, PrefixesNest
  <2>3. ASSUME NEW r \in hits, \A q \in hits : IsPrefix(q.id, r.id) PROVE r = p
    <3>1. PICK j \in 1 .. 13 : r = OPENAI_PRICES[j]
      BY <1>2
    <3>2. IsPrefix(r.id, p.id) /\ IsPrefix(p.id, r.id)
      BY <2>1, <2>2, <2>3
    <3>3. r.id = p.id
      BY <1>3, <3>1, <3>2, MutualPrefixes
    <3> QED BY <3>1, <3>3, EntriesAreDistinct
  <2>4. (CHOOSE r \in hits : \A q \in hits : IsPrefix(q.id, r.id)) = p
    <3> HIDE DEF hits, p
    <3> QED BY <2>1, <2>2, <2>3
  <2> QED BY <1>1, <1>5, <2>1, <2>4 DEF MostSpecific
<1> QED BY <1>1, <1>4, <1>5, WalkKeepsLongest

-----------------------------------------------------------------------------
(* Charges *)

\* Every model has a price of whole numbers.
LEMMA PriceIsTyped ==
  ASSUME NEW model
  PROVE  openai_price(model).prompt \in Nat /\ openai_price(model).completion \in Nat
<1>1. PICK best : IsWalk(best, model, 13) /\ openai_price(model) = best[13]
  BY PriceIsWalked
<1>2. best[13] = FALLBACK_PRICE \/ \E i \in 1 .. 13 : best[13] = OPENAI_PRICES[i]
  BY <1>1, WalkKeepsLongest
<1>3. FALLBACK_PRICE.prompt \in Nat /\ FALLBACK_PRICE.completion \in Nat
  BY DEF FALLBACK_PRICE, ModelPrice
<1> QED BY <1>1, <1>2, <1>3, EntriesAreTyped

\* A cost that is a whole number of hundredths is rounded up to credits, or is one
\* credit more than that; nothing costs nothing.
LEMMA CreditsAreFair ==
  ASSUME NEW cost \in Nat, NEW credits \in usd_to_credits(cost)
  PROVE  /\ credits \in Nat
         /\ cost = 0 => credits = 0
         /\ 100 * credits >= cost
         /\ cost > 0 => 100 * credits <= cost + 100
BY DEF usd_to_credits

\* The cap takes a charge down, never below the cost unless to the cap itself.
LEMMA ClampIsFair ==
  ASSUME NEW credits \in Nat
  PROVE  /\ clamp_charge(credits) \in Nat
         /\ clamp_charge(credits) <= Cap
         /\ clamp_charge(credits) <= credits
         /\ clamp_charge(credits) \in {Cap, credits}
BY PricingAssumption DEF clamp_charge

\* The answers and model ids of which costs are derived.
IsAnswer(answer) ==
  /\ answer.model \in Seq(STRING) \cup {None}
  /\ answer.usage \in [prompt : Nat, completion : Nat, cost : Int \cup {None}] \cup {None}

\* The usage that counts for an answer.
LEMMA UsageIsTyped ==
  ASSUME NEW answer, IsAnswer(answer)
  PROVE  UsageOf(answer) \in [prompt : Nat, completion : Nat, cost : Int \cup {None}]
BY DEF UsageOf, IsAnswer

\* The cost derive_cost finds is the real cost, or nothing if that is negative.
LEMMA DerivedCost ==
  ASSUME NEW answer, IsAnswer(answer), NEW request_model \in Seq(STRING) \cup {None}
  PROVE  LET model == IF answer.model # None THEN answer.model ELSE request_model
             cost  == derive_cost(UsageOf(answer), model, route_upstream(request_model))
             real  == RealCost(answer, request_model)
         IN  cost \in Nat /\ real \in Int /\ cost = IF real <= 0 THEN 0 ELSE real
<1> DEFINE model == IF answer.model # None THEN answer.model ELSE request_model
           usage == UsageOf(answer)
           upstream == route_upstream(request_model)
           cost == derive_cost(usage, model, upstream)
           vendor == request_model # None /\ "/" \in ToSet(request_model)
<1>1. usage \in [prompt : Nat, completion : Nat, cost : Int \cup {None}]
  BY UsageIsTyped
<1>2. upstream = IF vendor THEN "openrouter" ELSE "openai"
  <2>1. CASE request_model = None
    BY <2>1 DEF route_upstream
  <2>2. CASE request_model # None
    <3>1. request_model \in Seq(STRING)
      BY <2>2
    <3>2. Contains(request_model, "/") <=> "/" \in ToSet(request_model)
      BY <3>1 DEF Contains, ToSet
    <3> QED BY <2>2, <3>2 DEF route_upstream
  <2> QED BY <2>1, <2>2
<1>3. model \in Seq(STRING) \cup {None}
  BY DEF IsAnswer
<1> HIDE DEF model, usage, upstream, vendor
<1>4. CASE vendor
  <2>1. RealCost(answer, request_model) = IF usage.cost = None THEN 0 ELSE usage.cost
    BY <1>4 DEF RealCost, vendor, usage
  <2>2. cost = IF usage.cost = None \/ usage.cost < 0 THEN 0 ELSE usage.cost
    BY <1>2, <1>4 DEF derive_cost
  <2>3. usage.cost \in Int \cup {None}
    BY <1>1
  <2> HIDE DEF cost
  <2> QED BY <2>1, <2>2, <2>3 DEF model, usage, upstream, cost
<1>5. CASE ~ vendor /\ model = None
  <2>1. RealCost(answer, request_model) = 0
    BY <1>5 DEF RealCost, vendor, model
  <2>2. cost = 0
    BY <1>2, <1>5 DEF derive_cost
  <2> HIDE DEF cost
  <2> QED BY <2>1, <2>2 DEF model, usage, upstream, cost
<1>6. CASE ~ vendor /\ model # None
  <2> DEFINE price == openai_price(model)
             sum == usage.prompt * price.prompt + usage.completion * price.completion
  <2>1. price = MostSpecific(model)
    BY <1>3, <1>6, PriceIsMostSpecific
  <2>2. RealCost(answer, request_model) = sum
    BY <1>6, <2>1 DEF RealCost, vendor, model, usage
  <2>3. cost = sum
    BY <1>2, <1>6 DEF derive_cost, cost_usd
  <2>4. sum \in Nat
    <3>1. \A a, b, c, d \in Nat : a * b + c * d \in Nat
      OBVIOUS
    <3>2. usage.prompt \in Nat /\ usage.completion \in Nat
      BY <1>1
    <3>3. price.prompt \in Nat /\ price.completion \in Nat
      BY PriceIsTyped
    <3> HIDE DEF price
    <3> QED BY <3>1, <3>2, <3>3
  <2> HIDE DEF cost, sum
  <2> QED BY <2>2, <2>3, <2>4 DEF model, usage, upstream, cost
<1> QED BY <1>4, <1>5, <1>6

\* The charge the metered provider reports is fair: within the cap; nothing for a call
\* that costs nothing; otherwise at least the cost, unless the cap is reached, and at
\* most one credit more (derive_cost, usd_to_credits, clamp_charge).
THEOREM ChargeIsFair ==
  ASSUME NEW answer, IsAnswer(answer), NEW request_model \in Seq(STRING) \cup {None},
         NEW charge \in MeteredCharges(answer, request_model)
  PROVE  /\ charge \in Nat
         /\ charge <= Cap
         /\ IF RealCost(answer, request_model) <= 0 THEN charge = 0
            ELSE /\ charge = Cap \/ 100 * charge >= RealCost(answer, request_model)
                 /\ 100 * charge <= RealCost(answer, request_model) + 100
<1> DEFINE model == IF answer.model # None THEN answer.model ELSE request_model
           cost == derive_cost(UsageOf(answer), model, route_upstream(request_model))
           real == RealCost(answer, request_model)
<1>1. cost \in Nat /\ real \in Int /\ cost = IF real <= 0 THEN 0 ELSE real
  BY DerivedCost
<1>2. PICK credits \in usd_to_credits(cost) : charge = clamp_charge(credits)
  BY DEF MeteredCharges
<1> HIDE DEF cost, real
<1>3. /\ credits \in Nat
      /\ cost = 0 => credits = 0
      /\ 100 * credits >= cost
      /\ cost > 0 => 100 * credits <= cost + 100
  BY <1>1, <1>2, CreditsAreFair
<1>4. charge \in Nat /\ charge <= Cap /\ charge <= credits /\ charge \in {Cap, credits}
  BY <1>2, <1>3, ClampIsFair
<1>5. IF real <= 0 THEN charge = 0
      ELSE (charge = Cap \/ 100 * charge >= real) /\ 100 * charge <= real + 100
  BY <1>1, <1>3, <1>4
<1> QED BY <1>4, <1>5 DEF real

=============================================================================
