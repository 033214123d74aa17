------------------------------ MODULE ProbeProofs ------------------------------
(***************************************************************************)
(* The spend of a probe is capped, and its report covers what was billed,  *)
(* for every price, limit, payload and answer; a production server trusts  *)
(* the manifest of a probe that passed, for a bounded time.                *)
(*                                                                         *)
(* IInv follows the phases of a run.  T is the most an attempt of the tool *)
(* call can cost and S the most the stream can: before the answer n        *)
(* attempts cost at most n * T, the answered one costs what it reports,    *)
(* and the preflight has bounded (max_retries + 1) * T + S by the cap.     *)
(*                                                                         *)
(* EvidenceInv says what is behind a manifest: the files are those a run   *)
(* has checked, the answers are valid, and what is in the output when a    *)
(* digest is about to be printed is what the run has measured.  From it    *)
(* follow what a server may trust, that it accepts what a probe published, *)
(* and that it notices each claim of a manifest that is made false.        *)
(***************************************************************************)
EXTENDS Probe, FiniteSetTheorems, TLAPS

Requests == {"model_discovery", "tool_call", "streaming"}
Places == {"idle", "policy page", "source page", "discovery", "tool call", "stream", "report", "write", "print"}

Probes == [at : Places, attempts : [Requests -> Int], tool : Usages, stream : Usages,
           chunks : Int, marker : BOOLEAN, executed_at : Int]

TypeOK ==
  /\ \E c \in Cases : docs = c.docs
  /\ probe \in Probes
  /\ billed \in Int /\ runs \in Int /\ clock \in Int

\* Nothing is asked of a provider unless the budget has been checked.
BudgetIsChecked ==
  /\ runs >= 0 /\ (probe.at = "idle" => probe = Idle) /\ (probe.at # "idle" => runs > 0)
  /\ runs > 0 => LimitsAreSane(docs) /\ WithinBudget(docs)

Before == {"policy page", "source page", "discovery"}
After  == {"report", "write", "print"}
Tried  == probe.attempts.tool_call

\* The bill so far, by phase.
ToolBill   == Bill(probe.tool, ToolBytes, ToolTokens(docs))
StreamBill == Bill(probe.stream, StreamBytes, StreamTokens(docs))

SpendByPhase ==
  runs > 0 /\ CachedIsCheaper =>
    /\ billed <= AttemptBudget(docs) * ToolAttemptCost + StreamCost
    /\ probe.at \in Before => billed = 0 /\ Tried = 0
    /\ probe.at = "tool call" => Tried \in 0..Policy.max_retries /\ billed <= Tried * ToolAttemptCost
    /\ probe.at \in {"stream"} \cup After => Tried \in 1..AttemptBudget(docs) /\ UsageIsValid(probe.tool)
    /\ probe.at = "stream" => billed <= (Tried - 1) * ToolAttemptCost + ToolBill
    /\ probe.at \in After => UsageIsValid(probe.stream) /\ billed <= (Tried - 1) * ToolAttemptCost + ToolBill + StreamBill

StreamIsValid ==
  /\ probe.at \in Before \cup {"tool call"} => probe.stream = NoUsage
  /\ probe.at = "stream" => probe.stream = NoUsage \/ UsageIsValid(probe.stream)

IInv == TypeOK /\ BudgetIsChecked /\ SpendByPhase /\ StreamIsValid

-------------------------------------------------------------------------------
(* Arithmetic *)

LEMMA Product ==
  ASSUME NEW a \in Int, NEW b \in Int, a >= 0, b >= 0
  PROVE  a * b \in Int /\ a * b >= 0
  BY SMT

LEMMA ProductGrows ==
  ASSUME NEW a \in Int, NEW b \in Int, NEW c \in Int, a <= b, c >= 0
  PROVE  a * c \in Int /\ b * c \in Int /\ a * c <= b * c
<1>1. b - a \in Int /\ b - a >= 0
  OBVIOUS
<1>2. (b - a) * c >= 0
  BY <1>1, Product
<1>3. (b - a) * c = b * c - a * c
  BY SMT
<1> QED  BY <1>2, <1>3

LEMMA Distributes ==
  ASSUME NEW a \in Int, NEW b \in Int, NEW c \in Int
  PROVE  (a + b) * c = a * c + b * c
  BY SMT

\* Prices are numbers that are not negative.
Prices == [{"cache_hit_input", "cache_miss_input", "output"} -> Nat]

\* More uncached input, more cached input and more output never cost less.
LEMMA CostGrows ==
  ASSUME NEW r \in Prices, NEW i \in Int, NEW c \in Int, NEW o \in Int,
         NEW j \in Int, NEW d \in Int, NEW p \in Int,
         i - c <= j - d, c <= d, o <= p
  PROVE  Cost(r, i, c, o) \in Int /\ Cost(r, j, d, p) \in Int /\ Cost(r, i, c, o) <= Cost(r, j, d, p)
<1> DEFINE miss == r.cache_miss_input  hit == r.cache_hit_input  out == r.output
<1>1. miss \in Nat /\ hit \in Nat /\ out \in Nat
  BY DEF Prices
<1>2. i - c \in Int /\ j - d \in Int
  OBVIOUS
<1> HIDE DEF miss, hit, out
<1>3. (i - c) * miss \in Int /\ (j - d) * miss \in Int /\ (i - c) * miss <= (j - d) * miss
  BY <1>1, <1>2, ProductGrows
<1>4. c * hit \in Int /\ d * hit \in Int /\ c * hit <= d * hit
  BY <1>1, ProductGrows
<1>5. o * out \in Int /\ p * out \in Int /\ o * out <= p * out
  BY <1>1, ProductGrows
<1>6. (i - c) * miss + c * hit + o * out <= (j - d) * miss + d * hit + p * out
  BY <1>3, <1>4, <1>5
<1> QED  BY <1>3, <1>4, <1>5, <1>6 DEF Cost, miss, hit, out

\* With no token cached, cost is linear.
LEMMA CostIsLinear ==
  ASSUME NEW r \in Prices, NEW n \in Int, NEW i \in Int, NEW o \in Int, NEW j \in Int, NEW p \in Int
  PROVE  Cost(r, i * n + j, 0, o * n + p) = n * Cost(r, i, 0, o) + Cost(r, j, 0, p)
<1> DEFINE miss == r.cache_miss_input  hit == r.cache_hit_input  out == r.output
<1>1. miss \in Int /\ hit \in Int /\ out \in Int
  BY DEF Prices
<1> HIDE DEF miss, hit, out
<1>2. ((i * n + j) - 0) * miss = n * (i * miss) + j * miss
  BY <1>1, SMT
<1>3. (o * n + p) * out = n * (o * out) + p * out
  BY <1>1, SMT
<1>4. n * ((i - 0) * miss + 0 * hit + o * out) = n * (i * miss) + n * (o * out)
  BY <1>1, SMT
<1>5. ((i * n + j) - 0) * miss + 0 * hit + (o * n + p) * out
        = n * ((i - 0) * miss + 0 * hit + o * out) + ((j - 0) * miss + 0 * hit + p * out)
  <2>1. i * miss \in Int /\ j * miss \in Int /\ o * out \in Int /\ p * out \in Int
    BY <1>1
  <2>2. n * (i * miss) \in Int /\ n * (o * out) \in Int
    BY <2>1
  <2>3. 0 * hit = 0 /\ j - 0 = j
    BY <1>1
  <2> QED  BY <1>2, <1>3, <1>4, <2>1, <2>2, <2>3
<1> QED  BY <1>5 DEF Cost, miss, hit, out

-------------------------------------------------------------------------------
(* What the checks before the first request establish *)

Rates == Policy.rates

LEMMA PricesAreSane ==
  ASSUME TypeOK, LimitsAreSane(docs)
  PROVE  Rates \in Prices /\ Policy.max_retries \in Int /\ Policy.max_retries >= 0
         /\ Policy.max_output_tokens \in Int /\ Policy.max_output_tokens >= 1 /\ Policy.cost_cap_per_probe \in Int
<1>1. PICK c \in Cases : docs = c.docs
  BY DEF TypeOK
<1>2. Rates \in [{"cache_hit_input", "cache_miss_input", "output"} -> Int]
      /\ {Policy.max_retries, Policy.max_output_tokens, Policy.cost_cap_per_probe} \subseteq Int
  BY <1>1, InputsAssumption DEF Rates, Policy
<1>3. \A p \in DOMAIN Rates : Rates[p] >= 0
  BY DEF LimitsAreSane, Rates, Policy
<1>4. Rates \in Prices
  BY <1>2, <1>3 DEF Prices
<1> QED  BY <1>2, <1>4 DEF LimitsAreSane, Policy

LEMMA TokensAreSane ==
  ASSUME TypeOK, LimitsAreSane(docs)
  PROVE  ToolTokens(docs) \in Nat /\ StreamTokens(docs) \in Nat
  BY PricesAreSane, ProbeAssumption DEF ToolTokens, StreamTokens, Smaller, Policy

\* T, S and the number of attempts fit under the cap.
LEMMA BudgetFitsCap ==
  ASSUME TypeOK, LimitsAreSane(docs), WithinBudget(docs)
  PROVE  /\ ToolAttemptCost \in Int /\ ToolAttemptCost >= 0
         /\ StreamCost \in Int /\ StreamCost >= 0
         /\ AttemptBudget(docs) \in Int /\ AttemptBudget(docs) = Policy.max_retries + 1
         /\ AttemptBudget(docs) * ToolAttemptCost + StreamCost <= Policy.cost_cap_per_probe
<1>1. /\ Rates \in Prices /\ ToolTokens(docs) \in Nat /\ StreamTokens(docs) \in Nat
      /\ ToolBytes \in Nat /\ StreamBytes \in Nat /\ Policy.max_retries \in Int /\ Policy.cost_cap_per_probe \in Int
  BY PricesAreSane, TokensAreSane, ProbeAssumption
<1>2. AttemptBudget(docs) \in Int /\ AttemptBudget(docs) = Policy.max_retries + 1
  BY <1>1 DEF AttemptBudget, Policy
<1>3. /\ Cost(Rates, 0, 0, 0) <= ToolAttemptCost /\ ToolAttemptCost \in Int
      /\ Cost(Rates, 0, 0, 0) <= StreamCost /\ StreamCost \in Int
  BY <1>1, CostGrows DEF ToolAttemptCost, StreamCost, Rates
<1>4. Cost(Rates, 0, 0, 0) = 0
  BY <1>1, SMT DEF Cost, Prices
<1>5. PreflightCost(docs) = AttemptBudget(docs) * ToolAttemptCost + StreamCost
  <2> DEFINE n == AttemptBudget(docs)  o == ToolTokens(docs)  p == StreamTokens(docs)
  <2>1. n \in Int /\ o \in Int /\ p \in Int /\ ToolBytes \in Int /\ StreamBytes \in Int /\ Rates \in Prices
    BY <1>1, <1>2
  <2>2. /\ PreflightCost(docs) = Cost(Rates, ToolBytes * n + StreamBytes, 0, o * n + p)
        /\ ToolAttemptCost = Cost(Rates, ToolBytes, 0, o) /\ StreamCost = Cost(Rates, StreamBytes, 0, p)
    BY DEF PreflightCost, InputBound, ToolAttemptCost, StreamCost, Rates, Policy
  <2> HIDE DEF n, o, p
  <2>3. Cost(Rates, ToolBytes * n + StreamBytes, 0, o * n + p) = n * Cost(Rates, ToolBytes, 0, o) + Cost(Rates, StreamBytes, 0, p)
    BY <2>1, CostIsLinear
  <2> QED  BY <2>2, <2>3 DEF n
<1> QED  BY <1>2, <1>3, <1>4, <1>5 DEF WithinBudget, Policy

\* A bill is no more than the request could cost, and no more than what its answer reports.
LEMMA BillIsBounded ==
  ASSUME TypeOK, LimitsAreSane(docs), CachedIsCheaper,
         NEW u \in Usages, NEW bytes \in Nat, NEW reply \in Nat
  PROVE  /\ Bill(u, bytes, reply) \in Int
         /\ Bill(u, bytes, reply) <= Cost(Rates, bytes, 0, reply)
<1> DEFINE i == AtMost(u.prompt, bytes)  c == AtMost(u.cached, i)  o == AtMost(u.completion, reply)
<1>1. i \in Int /\ c \in Int /\ o \in Int /\ i <= bytes /\ 0 <= c /\ c <= i /\ o <= reply
  BY DEF Usages, AtMost, Smaller
<1>2. Rates \in Prices
  BY PricesAreSane
<1> HIDE DEF i, c, o
<1>3. Cost(Rates, i, c, o) \in Int /\ Cost(Rates, i, c, o) <= Cost(Rates, i, 0, o)
  <2> DEFINE miss == Rates.cache_miss_input  hit == Rates.cache_hit_input  out == Rates.output
  <2>1. miss \in Nat /\ hit \in Nat /\ out \in Nat /\ hit <= miss
    BY <1>2 DEF Prices, CachedIsCheaper, Rates
  <2> HIDE DEF miss, hit, out
  <2>2. hit * c <= miss * c /\ hit * c \in Int /\ miss * c \in Int
    BY <1>1, <2>1, ProductGrows
  <2>3. i * miss \in Int /\ o * out \in Int
    BY <1>1, <2>1
  <2>4. (i - c) * miss = i * miss - miss * c /\ c * hit = hit * c /\ (i - 0) * miss = i * miss /\ 0 * hit = 0
    BY <1>1, <2>1, SMT
  <2>5. (i - c) * miss + c * hit + o * out <= (i - 0) * miss + 0 * hit + o * out
    BY <2>2, <2>3, <2>4
  <2>6. (i - c) * miss + c * hit + o * out \in Int
    BY <2>2, <2>3, <2>4
  <2> QED  BY <2>5, <2>6 DEF Cost, miss, hit, out
<1>4. Cost(Rates, i, 0, o) <= Cost(Rates, bytes, 0, reply) /\ Cost(Rates, i, 0, o) \in Int
      /\ Cost(Rates, bytes, 0, reply) \in Int
  BY <1>1, <1>2, CostGrows
<1> QED  BY <1>3, <1>4 DEF Bill, i, c, o, Rates

LEMMA BillIsNumber ==
  ASSUME TypeOK, LimitsAreSane(docs), NEW u \in Usages, NEW bytes \in Nat, NEW reply \in Nat
  PROVE  Bill(u, bytes, reply) \in Int
<1> DEFINE i == AtMost(u.prompt, bytes)  c == AtMost(u.cached, i)  o == AtMost(u.completion, reply)
<1>1. i \in Int /\ c \in Int /\ o \in Int /\ i - c <= i - c /\ c <= c /\ o <= o
  BY DEF Usages, AtMost, Smaller
<1>2. Rates \in Prices
  BY PricesAreSane
<1> HIDE DEF i, c, o
<1>3. Cost(Rates, i, c, o) \in Int
  BY <1>1, <1>2, CostGrows
<1> QED  BY <1>3 DEF Bill, i, c, o, Rates

LEMMA BillIsReported ==
  ASSUME TypeOK, LimitsAreSane(docs), NEW u \in Usages, UsageIsValid(u), NEW bytes \in Nat, NEW reply \in Nat
  PROVE  /\ Bill(u, bytes, reply) <= Cost(Rates, u.prompt, u.cached, u.completion)
         /\ Cost(Rates, u.prompt, u.cached, u.completion) \in Int
<1> DEFINE i == AtMost(u.prompt, bytes)  c == AtMost(u.cached, i)  o == AtMost(u.completion, reply)
<1>1. /\ i \in Int /\ c \in Int /\ o \in Int /\ u.prompt \in Int /\ u.cached \in Int /\ u.completion \in Int
      /\ i - c <= u.prompt - u.cached /\ c <= u.cached /\ o <= u.completion
  BY DEF Usages, UsageIsValid, AtMost, Smaller
<1>2. Rates \in Prices
  BY PricesAreSane
<1> HIDE DEF i, c, o
<1>3. /\ Cost(Rates, i, c, o) <= Cost(Rates, u.prompt, u.cached, u.completion)
      /\ Cost(Rates, u.prompt, u.cached, u.completion) \in Int
  BY <1>1, <1>2, CostGrows
<1> QED  BY <1>3 DEF Bill, i, c, o, Rates

-------------------------------------------------------------------------------
(* The invariant *)

LEMMA InitIsSafe == Init => IInv
<1> SUFFICES ASSUME Init PROVE IInv
  OBVIOUS
<1>1. NoUsage \in Usages
  BY DEF NoUsage, Usages, Bad
<1>2. probe \in Probes
  <2>1. [model_discovery |-> 0, tool_call |-> 0, streaming |-> 0] \in [Requests -> Int]
    BY DEF Requests
  <2>2. Idle \in Probes
    BY <1>1, <2>1 DEF Idle, Probes, Places, NoTime
  <2> QED  BY <2>2 DEF Init
<1>3. TypeOK
  <2>1. PICK c \in Cases : docs = c.docs
    BY DEF Init
  <2>2. billed = 0 /\ runs = 0 /\ clock = 0
    BY DEF Init
  <2> QED  BY <1>2, <2>1, <2>2 DEF TypeOK
<1>4. runs = 0 /\ probe = Idle /\ probe.at = "idle"
  BY DEF Init, Idle
<1> QED  BY <1>3, <1>4 DEF IInv, BudgetIsChecked, SpendByPhase, StreamIsValid, Before, After

\* What a run may rely on: its budget, and bounds of the two bills.
LEMMA Running ==
  ASSUME IInv, runs > 0
  PROVE  /\ LimitsAreSane(docs) /\ WithinBudget(docs)
         /\ Policy.max_retries \in Int /\ Policy.max_retries >= 0 /\ Policy.cost_cap_per_probe \in Int
         /\ ToolAttemptCost \in Int /\ ToolAttemptCost >= 0
         /\ StreamCost \in Int /\ StreamCost >= 0
         /\ AttemptBudget(docs) = Policy.max_retries + 1
         /\ AttemptBudget(docs) * ToolAttemptCost + StreamCost <= Policy.cost_cap_per_probe
  BY PricesAreSane, BudgetFitsCap DEF IInv, BudgetIsChecked

\* The bound of a phase, at its start and as attempts are counted.
LEMMA Counts ==
  ASSUME NEW n, NEW m \in Int, m >= 0, n = m + 1
  PROVE  n \in Int /\ n > 0 /\ n >= 0 /\ 0 \in Int
  OBVIOUS

LEMMA NothingBilled ==
  ASSUME NEW b, NEW n, NEW t \in Int, NEW m \in Int, m >= 0, b = 0, n = 0
  PROVE  n \in 0..m /\ b <= n * t
  OBVIOUS

LEMMA AnswerCounts ==
  ASSUME NEW n, NEW k, NEW m \in Int, NEW b, NEW t \in Int, NEW x \in Int, NEW c \in Int,
         n \in 0..m, k = n + 1, b = m + 1, x <= n * t
  PROVE  k \in 1..b /\ x + c <= (k - 1) * t + c
<1>1. k - 1 = n /\ n \in Int
  OBVIOUS
<1>2. n * t \in Int
  BY <1>1
<1> QED  BY <1>1, <1>2

LEMMA Sums ==
  ASSUME NEW x \in Int, NEW y \in Int
  PROVE  x + y \in Int
  OBVIOUS

LEMMA WholeProduct ==
  ASSUME NEW x \in Int, NEW y \in Int
  PROVE  x * y \in Int
  OBVIOUS

LEMMA AtMostTransitive ==
  ASSUME NEW x \in Int, NEW y \in Int, NEW z \in Int, x <= y, y <= z
  PROVE  x <= z
  OBVIOUS

LEMMA InRange ==
  ASSUME NEW n, NEW m \in Int, n \in 0..m
  PROVE  n \in Int /\ 0 <= n /\ n <= m
  OBVIOUS

\* A request without an answer is billed, or it is not.
LEMMA NothingOrAll ==
  ASSUME NEW t \in Int, t >= 0, NEW c \in {0, t}
  PROVE  c \in Int /\ c <= t
  OBVIOUS

LEMMA OneMore ==
  ASSUME NEW n, NEW m \in Int, n \in 0..m, n < m
  PROVE  n + 1 \in 0..m
  OBVIOUS

LEMMA AttemptFits ==
  ASSUME NEW n \in Int, NEW m \in Int, NEW t \in Int, NEW s \in Int, NEW x \in Int, NEW c \in Int,
         n <= m, t >= 0, s >= 0, x <= n * t, c <= t
  PROVE  x + c <= (n + 1) * t /\ x + c <= (m + 1) * t + s
<1>1. (n + 1) * t \in Int /\ (m + 1) * t \in Int /\ (n + 1) * t <= (m + 1) * t
  BY ProductGrows
<1>2. (n + 1) * t = n * t + 1 * t /\ 1 * t = t /\ n * t \in Int
  BY Distributes
<1> QED  BY <1>1, <1>2

LEMMA StreamFits ==
  ASSUME NEW n \in Int, NEW m \in Int, NEW t \in Int, NEW s \in Int, NEW x \in Int, NEW y \in Int, NEW c \in Int,
         n <= m + 1, t >= 0, x <= (n - 1) * t + y, y <= t, c <= s
  PROVE  x + c <= (n - 1) * t + y + c /\ x + c <= (m + 1) * t + s
<1>1. (n - 1) * t \in Int /\ m * t \in Int /\ (n - 1) * t <= m * t
  BY ProductGrows
<1>2. (m + 1) * t = m * t + 1 * t /\ 1 * t = t
  BY Distributes
<1> QED  BY <1>1, <1>2

\* Only the operator changes the documents and the environment, and never during a run.
Given == <<env, docs>>

LEMMA GivenStays ==
  ASSUME Given' = Given
  PROVE  /\ docs' = docs /\ env' = env
         /\ CachedIsCheaper' = CachedIsCheaper /\ AttemptBudget(docs)' = AttemptBudget(docs)
         /\ ToolAttemptCost' = ToolAttemptCost /\ StreamCost' = StreamCost
         /\ LimitsAreSane(docs)' = LimitsAreSane(docs) /\ WithinBudget(docs)' = WithinBudget(docs)
         /\ Policy' = Policy
<1>1. docs' = docs /\ env' = env
  BY DEF Given
<1> QED  BY <1>1 DEF CachedIsCheaper, AttemptBudget, ToolAttemptCost, StreamCost, Policy, ToolTokens, StreamTokens

LEMMA BillsStay ==
  ASSUME Given' = Given
  PROVE  /\ probe'.tool = probe.tool => ToolBill' = ToolBill /\ UsageIsValid(probe.tool)' = UsageIsValid(probe.tool)
         /\ probe'.stream = probe.stream => StreamBill' = StreamBill /\ UsageIsValid(probe.stream)' = UsageIsValid(probe.stream)
<1>1. docs' = docs /\ env' = env
  BY DEF Given
<1> QED  BY <1>1 DEF ToolBill, StreamBill, Bill, ToolTokens, StreamTokens, Policy, UsageIsValid

LEMMA IdleIsTyped == Idle \in Probes
<1>1. NoUsage \in Usages
  BY DEF NoUsage, Usages, Bad
<1>2. [model_discovery |-> 0, tool_call |-> 0, streaming |-> 0] \in [Requests -> Int]
  BY DEF Requests
<1> QED  BY <1>1, <1>2 DEF Idle, Probes, Places, NoTime

\* A run that ends leaves a bill within its budget.
LEMMA Ends ==
  ASSUME IInv, Given' = Given, probe' = Idle, runs' = runs, clock' = clock, billed' \in Int,
         runs > 0 /\ CachedIsCheaper => billed' <= AttemptBudget(docs) * ToolAttemptCost + StreamCost
  PROVE  IInv'
<1>1. TypeOK'
  BY GivenStays, IdleIsTyped DEF IInv, TypeOK
<1>2. probe'.at = "idle"
  BY DEF Idle
<1>3. BudgetIsChecked'
  <2>1. Idle' = Idle
    BY DEF Idle, NoUsage
  <2> QED  BY <1>2, <2>1, GivenStays DEF IInv, BudgetIsChecked
<1>4. SpendByPhase'
  BY <1>2, GivenStays DEF SpendByPhase, Before, After
<1>5. StreamIsValid'
  BY <1>2 DEF StreamIsValid, Before
<1> QED  BY <1>1, <1>3, <1>4, <1>5 DEF IInv

LEMMA EndsUnbilled ==
  ASSUME IInv, Given' = Given, probe' = Idle, UNCHANGED <<runs, clock, billed>>
  PROVE  IInv'
<1>1. billed' \in Int
  BY DEF IInv, TypeOK
<1>2. runs > 0 /\ CachedIsCheaper => billed' <= AttemptBudget(docs) * ToolAttemptCost + StreamCost
  BY DEF IInv, SpendByPhase
<1> QED  BY <1>1, <1>2, Ends

\* A step that neither bills nor leaves its phase, and learns nothing about usage.
LEMMA SamePhase ==
  ASSUME IInv, Given' = Given, probe' \in Probes, UNCHANGED <<runs, billed>>, clock' \in Int,
         probe'.attempts.tool_call = probe.attempts.tool_call,
         probe'.tool = probe.tool, probe'.stream = probe.stream,
         \/ probe'.at = probe.at /\ (probe.at = "idle" => probe' = probe)
         \/ probe.at \in Before /\ probe'.at \in Before
         \/ probe.at \in After /\ probe'.at \in After
  PROVE  IInv'
<1>1. TypeOK'
  BY GivenStays DEF IInv, TypeOK
<1>2. BudgetIsChecked'
  <2>1. Idle' = Idle
    BY DEF Idle, NoUsage
  <2> QED  BY <2>1, GivenStays DEF IInv, BudgetIsChecked, Before, After
<1>3. SpendByPhase'
  BY GivenStays, BillsStay DEF IInv, SpendByPhase, Before, After, Tried
<1>4. StreamIsValid'
  BY GivenStays, BillsStay DEF IInv, StreamIsValid, Before, After, NoUsage
<1> QED  BY <1>1, <1>2, <1>3, <1>4 DEF IInv

\* The requests that are not billed lead to the tool call.
LEMMA Moves ==
  ASSUME IInv, Given' = Given, UNCHANGED <<runs, clock, billed>>, probe.at \in Before,
         probe' \in Probes, probe'.at \in Before \cup {"tool call"},
         probe'.attempts.tool_call = probe.attempts.tool_call,
         probe'.tool = probe.tool, probe'.stream = probe.stream
  PROVE  IInv'
<1>1. CASE probe'.at \in Before
  <2>1. clock' \in Int
    BY DEF IInv, TypeOK
  <2> QED  BY <1>1, <2>1, SamePhase
<1>2. CASE probe'.at = "tool call"
  <2>1. probe.at # "idle" /\ probe'.at # "idle" /\ runs > 0
    BY <1>2 DEF Before, IInv, BudgetIsChecked
  <2>2. TypeOK' /\ BudgetIsChecked'
    BY <2>1, GivenStays DEF IInv, TypeOK, BudgetIsChecked
  <2>3. Policy.max_retries \in Int /\ Policy.max_retries >= 0 /\ ToolAttemptCost \in Int
    BY <2>1, Running
  <2>4. CachedIsCheaper => billed = 0 /\ Tried = 0
    BY <2>1 DEF IInv, SpendByPhase
  <2>5. CachedIsCheaper => Tried \in 0..Policy.max_retries /\ billed <= Tried * ToolAttemptCost
    <3> SUFFICES ASSUME CachedIsCheaper PROVE Tried \in 0..Policy.max_retries /\ billed <= Tried * ToolAttemptCost
      OBVIOUS
    <3>1. billed = 0 /\ Tried = 0
      BY <2>4
    <3> QED  BY <2>3, <3>1, NothingBilled, Zenon
  <2>6. SpendByPhase'
    BY <1>2, <2>5, GivenStays DEF IInv, SpendByPhase, Before, After, Tried
  <2>7. StreamIsValid'
    BY <1>2 DEF IInv, StreamIsValid, Before, NoUsage
  <2> QED  BY <2>2, <2>6, <2>7 DEF IInv
<1> QED  BY <1>1, <1>2

LEMMA StartIsSafe ==
  ASSUME IInv, Start
  PROVE  IInv'
<1>1. /\ Given' = Given /\ clock' = clock /\ billed' = 0 /\ runs' = runs + 1
      /\ probe = Idle /\ probe' = [probe EXCEPT !.at = "policy page"]
  BY DEF Start, Goto, Given, IInv, BudgetIsChecked
<1>2. LimitsAreSane(docs) /\ WithinBudget(docs)
  BY DEF Start, LoadPolicy
<1>3. probe \in Probes /\ runs \in Int /\ runs >= 0 /\ clock \in Int
  BY DEF IInv, TypeOK, BudgetIsChecked
<1>4. probe' \in Probes /\ probe'.at = "policy page" /\ probe'.attempts.tool_call = 0
  BY <1>1, <1>3 DEF Probes, Places, Idle
<1>5. runs' \in Int /\ runs' > 0 /\ billed' \in Int /\ clock' \in Int
  <2>1. runs' = runs + 1 /\ billed' = 0 /\ clock' = clock
    BY <1>1, Zenon
  <2>2. runs \in Int /\ runs >= 0 /\ clock \in Int
    BY <1>3, Zenon
  <2> QED  BY <2>1, <2>2, Counts, Zenon
<1>6. TypeOK'
  <2>1. \E c \in Cases : docs' = c.docs
    BY <1>1, GivenStays DEF IInv, TypeOK
  <2> QED  BY <2>1, <1>4, <1>5 DEF TypeOK
<1>7. BudgetIsChecked'
  <2>1. LimitsAreSane(docs)' /\ WithinBudget(docs)'
    BY <1>1, <1>2, GivenStays
  <2>2. runs' >= 0 /\ runs' > 0
    BY <1>5
  <2> QED  BY <1>4, <2>1, <2>2 DEF BudgetIsChecked
<1>8. SpendByPhase'
  <2>1. ToolAttemptCost \in Int /\ ToolAttemptCost >= 0 /\ StreamCost \in Int /\ StreamCost >= 0
        /\ AttemptBudget(docs) = Policy.max_retries + 1
    BY <1>2, BudgetFitsCap DEF IInv
  <2>2. AttemptBudget(docs) \in Int /\ AttemptBudget(docs) >= 0
    BY <2>1, <1>2, PricesAreSane DEF IInv
  <2>3. AttemptBudget(docs) * ToolAttemptCost + StreamCost >= 0
    BY <2>1, <2>2, Product
  <2> QED  BY <1>1, <1>4, <2>3, GivenStays DEF SpendByPhase, Before, After, Tried
<1>9. StreamIsValid'
  <2>1. probe'.stream = NoUsage
    BY <1>1 DEF Idle
  <2> QED  BY <1>4, <2>1 DEF StreamIsValid, NoUsage
<1> QED  BY <1>6, <1>7, <1>8, <1>9 DEF IInv

LEMMA VerifyPageIsSafe ==
  ASSUME IInv, NEW place \in Before, NEW next \in Before \cup {"tool call"}, NEW url, NEW page, NEW expected,
         VerifyPage(place, url, page, expected, next)
  PROVE  IInv'
<1>1. Given' = Given /\ UNCHANGED <<runs, clock, billed>> /\ probe.at = place
  BY DEF VerifyPage, Given
<1>2. CASE probe' = Idle
  BY <1>1, <1>2, EndsUnbilled
<1>3. CASE probe' = [probe EXCEPT !.at = next]
  <2>1. probe \in Probes
    BY DEF IInv, TypeOK
  <2>2. probe' \in Probes /\ probe'.at = next /\ probe'.attempts = probe.attempts
        /\ probe'.tool = probe.tool /\ probe'.stream = probe.stream
    BY <1>3, <2>1 DEF Probes, Places, Before
  <2> QED  BY <1>1, <2>2, Moves
<1> QED  BY <1>2, <1>3 DEF VerifyPage, Fails, Goto

LEMMA AgainIsTyped ==
  ASSUME probe \in Probes, NEW request \in Requests
  PROVE  /\ Attempted(request) \in Probes
         /\ Attempted(request).at = probe.at /\ Attempted(request).tool = probe.tool /\ Attempted(request).stream = probe.stream
         /\ Attempted(request).attempts[request] = probe.attempts[request] + 1
         /\ \A r \in Requests \ {request} : Attempted(request).attempts[r] = probe.attempts[r]
<1> DEFINE more == [probe.attempts EXCEPT ![request] = @ + 1]
<1>1. probe.attempts \in [Requests -> Int]
  BY DEF Probes
<1>2. more \in [Requests -> Int] /\ more[request] = probe.attempts[request] + 1
      /\ \A r \in Requests \ {request} : more[r] = probe.attempts[r]
  BY <1>1
<1>3. Attempted(request) = [probe EXCEPT !.attempts = more]
  BY Zenon DEF Attempted
<1> HIDE DEF more
<1>4. [probe EXCEPT !.attempts = more] \in Probes
  BY <1>2 DEF Probes
<1> QED  BY <1>2, <1>3, <1>4 DEF Probes

LEMMA DiscoverIsSafe ==
  ASSUME IInv, Discover
  PROVE  IInv'
<1>1. Given' = Given /\ UNCHANGED <<runs, clock, billed>> /\ probe.at \in Before
  BY DEF Discover, Given, Before
<1>2. probe \in Probes /\ "model_discovery" \in Requests /\ "tool_call" \in Requests \ {"model_discovery"}
  BY DEF IInv, TypeOK, Requests
<1> DEFINE p == Attempted("model_discovery")
<1>3. p \in Probes /\ p.at = probe.at /\ p.tool = probe.tool /\ p.stream = probe.stream
      /\ p.attempts.tool_call = probe.attempts.tool_call
  BY <1>2, AgainIsTyped
<1> HIDE DEF p
<1>4. CASE probe' = Idle
  BY <1>1, <1>4, EndsUnbilled
<1>5. CASE probe' = p
  BY <1>1, <1>3, <1>5, Moves
<1>6. CASE probe' = [p EXCEPT !.at = "tool call"]
  <2>1. probe' \in Probes /\ probe'.at = "tool call" /\ probe'.attempts.tool_call = probe.attempts.tool_call
        /\ probe'.tool = probe.tool /\ probe'.stream = probe.stream
    BY <1>3, <1>6 DEF Probes, Places
  <2> QED  BY <1>1, <2>1, Moves
<1> QED  BY <1>4, <1>5, <1>6 DEF Discover, Again, Fails, p

\* While the tool is called: whatever an attempt costs fits under the budget.
LEMMA ToolCallFits ==
  ASSUME IInv, probe.at = "tool call", NEW c \in Int
  PROVE  /\ runs > 0 /\ billed \in Int /\ billed + c \in Int
         /\ CachedIsCheaper /\ c <= ToolAttemptCost =>
              /\ Tried \in 0..Policy.max_retries
              /\ billed <= Tried * ToolAttemptCost
              /\ billed + c <= (Tried + 1) * ToolAttemptCost
              /\ billed + c <= AttemptBudget(docs) * ToolAttemptCost + StreamCost
<1>1. runs > 0
  BY DEF IInv, BudgetIsChecked
<1>2. billed \in Int /\ billed + c \in Int
  <2>1. billed \in Int
    BY DEF IInv, TypeOK
  <2> QED  BY <2>1, Sums, Zenon
<1>3. ASSUME CachedIsCheaper, c <= ToolAttemptCost
      PROVE  /\ Tried \in 0..Policy.max_retries
             /\ billed <= Tried * ToolAttemptCost
             /\ billed + c <= (Tried + 1) * ToolAttemptCost
             /\ billed + c <= AttemptBudget(docs) * ToolAttemptCost + StreamCost
  <2>1. Tried \in 0..Policy.max_retries /\ billed <= Tried * ToolAttemptCost
    BY <1>1, <1>3 DEF IInv, SpendByPhase
  <2>2. /\ Policy.max_retries \in Int /\ ToolAttemptCost \in Int /\ ToolAttemptCost >= 0
        /\ StreamCost \in Int /\ StreamCost >= 0 /\ AttemptBudget(docs) = Policy.max_retries + 1
    BY <1>1, Running
  <2>3. Tried \in Int /\ Tried <= Policy.max_retries
    BY <2>1, <2>2, InRange, Zenon
  <2> QED  BY <1>2, <1>3, <2>1, <2>2, <2>3, AttemptFits, Zenon
<1> QED  BY <1>1, <1>2, <1>3

\* An answer that passes the checks.
LEMMA AnswerIsSafe ==
  ASSUME IInv, Given' = Given, UNCHANGED <<runs, clock>>, probe.at = "tool call",
         NEW u \in Usages, UsageIsValid(u),
         billed' = billed + Bill(u, ToolBytes, ToolTokens(docs)),
         probe' \in Probes, probe'.at = "stream", probe'.tool = u, probe'.stream = NoUsage,
         probe'.attempts.tool_call = probe.attempts.tool_call + 1
  PROVE  IInv'
<1> DEFINE c == Bill(u, ToolBytes, ToolTokens(docs))
<1>1. runs > 0 /\ runs' > 0 /\ LimitsAreSane(docs) /\ WithinBudget(docs) /\ TypeOK
  BY DEF IInv, BudgetIsChecked
<1>2. ToolBytes \in Nat /\ ToolTokens(docs) \in Nat
  BY <1>1, TokensAreSane, ProbeAssumption
<1>3. c \in Int
  BY <1>1, <1>2, BillIsNumber
<1>4. CachedIsCheaper => c <= ToolAttemptCost
  BY <1>1, <1>2, BillIsBounded DEF ToolAttemptCost, Rates
<1>5. ToolBill' = c
  BY GivenStays DEF ToolBill, Bill, ToolTokens, Policy
<1>6. UsageIsValid(probe.tool)'
  BY GivenStays DEF UsageIsValid
<1> HIDE DEF c
<1>7. TypeOK'
  <2>1. billed' \in Int
    BY <1>3, ToolCallFits DEF c
  <2>2. (\E d \in Cases : docs' = d.docs) /\ runs' \in Int /\ clock' \in Int
    BY GivenStays DEF IInv, TypeOK
  <2> QED  BY <2>1, <2>2 DEF TypeOK
<1>8. BudgetIsChecked'
  BY <1>1, GivenStays DEF IInv, BudgetIsChecked
<1>9. SpendByPhase'
  <2>1. SUFFICES ASSUME CachedIsCheaper
                 PROVE  /\ billed' <= AttemptBudget(docs) * ToolAttemptCost + StreamCost
                        /\ Tried' \in 1..AttemptBudget(docs)
                        /\ billed' <= (Tried' - 1) * ToolAttemptCost + c
    BY <1>5, <1>6, GivenStays DEF SpendByPhase, Before, After
  <2>2. /\ Tried \in 0..Policy.max_retries /\ billed <= Tried * ToolAttemptCost
        /\ billed + c <= AttemptBudget(docs) * ToolAttemptCost + StreamCost
    BY <1>3, <1>4, <2>1, ToolCallFits
  <2>3. Tried' = Tried + 1 /\ billed' = billed + c
    BY DEF Tried, c
  <2>4. /\ Policy.max_retries \in Int /\ ToolAttemptCost \in Int /\ billed \in Int
        /\ AttemptBudget(docs) = Policy.max_retries + 1
    BY <1>1, Running, ToolCallFits DEF IInv, TypeOK
  <2>5. Tried' \in 1..AttemptBudget(docs) /\ billed + c <= (Tried' - 1) * ToolAttemptCost + c
    BY <1>3, <2>2, <2>3, <2>4, AnswerCounts, Zenon
  <2> QED  BY <2>2, <2>3, <2>5, Zenon
<1>10. StreamIsValid'
  BY DEF StreamIsValid, NoUsage, Before
<1> QED  BY <1>7, <1>8, <1>9, <1>10 DEF IInv

\* An attempt without an answer, tried again.
LEMMA AgainIsSafe ==
  ASSUME IInv, Given' = Given, UNCHANGED <<runs, clock>>, probe.at = "tool call",
         NEW c \in {0, ToolAttemptCost}, billed' = billed + c,
         probe.attempts.tool_call < Policy.max_retries,
         probe' \in Probes, probe'.at = "tool call", probe'.tool = probe.tool, probe'.stream = probe.stream,
         probe'.attempts.tool_call = probe.attempts.tool_call + 1
  PROVE  IInv'
<1>1. runs > 0 /\ runs' > 0
  BY DEF IInv, BudgetIsChecked
<1>2. /\ Policy.max_retries \in Int /\ ToolAttemptCost \in Int /\ ToolAttemptCost >= 0
  BY <1>1, Running
<1>3. c \in Int /\ c <= ToolAttemptCost
  BY <1>2, NothingOrAll, Zenon
<1>4. TypeOK'
  <2>1. billed' \in Int
    BY <1>3, ToolCallFits
  <2>2. (\E d \in Cases : docs' = d.docs) /\ runs' \in Int /\ clock' \in Int
    BY GivenStays DEF IInv, TypeOK
  <2> QED  BY <2>1, <2>2 DEF TypeOK
<1>5. BudgetIsChecked'
  BY <1>1, GivenStays DEF IInv, BudgetIsChecked
<1>6. SpendByPhase'
  <2>1. SUFFICES ASSUME CachedIsCheaper
                 PROVE  /\ billed' <= AttemptBudget(docs) * ToolAttemptCost + StreamCost
                        /\ Tried' \in 0..Policy.max_retries
                        /\ billed' <= Tried' * ToolAttemptCost
    BY GivenStays DEF SpendByPhase, Before, After
  <2>2. /\ Tried \in 0..Policy.max_retries
        /\ billed + c <= (Tried + 1) * ToolAttemptCost
        /\ billed + c <= AttemptBudget(docs) * ToolAttemptCost + StreamCost
    BY <1>3, <2>1, ToolCallFits
  <2>3. Tried' = Tried + 1 /\ Tried < Policy.max_retries
    BY DEF Tried
  <2>4. Tried + 1 \in 0..Policy.max_retries
    BY <1>2, <2>2, <2>3, OneMore, Zenon
  <2> QED  BY <2>2, <2>3, <2>4, Zenon
<1>7. StreamIsValid'
  BY DEF IInv, StreamIsValid, NoUsage, Before
<1> QED  BY <1>4, <1>5, <1>6, <1>7 DEF IInv

LEMMA CallToolIsSafe ==
  ASSUME IInv, CallTool
  PROVE  IInv'
<1> DEFINE p == Attempted("tool_call")
<1>1. Given' = Given /\ UNCHANGED <<runs, clock>> /\ probe.at = "tool call"
  BY DEF CallTool, Given
<1>2. probe \in Probes /\ "tool_call" \in Requests
  BY DEF IInv, TypeOK, Requests
<1>3. p \in Probes /\ p.at = "tool call" /\ p.tool = probe.tool /\ p.stream = probe.stream
      /\ p.attempts.tool_call = probe.attempts.tool_call + 1
  BY <1>1, <1>2, AgainIsTyped
<1>4. runs > 0 /\ LimitsAreSane(docs) /\ WithinBudget(docs) /\ TypeOK
  BY <1>1 DEF IInv, BudgetIsChecked
<1>5. ToolAttemptCost \in Int /\ ToolAttemptCost >= 0
  BY <1>4, Running
<1>6. ASSUME NEW a \in Answers, ToolAnswered(a)
      PROVE  IInv'
  <2> DEFINE c == Bill(a.usage, ToolBytes, ToolTokens(docs))
  <2>1. a.usage \in Usages
    BY InputsAssumption
  <2>2. ToolBytes \in Nat /\ ToolTokens(docs) \in Nat
    BY <1>4, TokensAreSane, ProbeAssumption
  <2>3. c \in Int
    BY <1>4, <2>1, <2>2, BillIsNumber
  <2>4. CachedIsCheaper => c <= ToolAttemptCost
    BY <1>4, <2>1, <2>2, BillIsBounded DEF ToolAttemptCost, Rates
  <2>5. billed' = billed + c
    BY <1>6 DEF ToolAnswered
  <2>6. CASE AnswerIsValid(a)
    <3> DEFINE n == p.attempts.tool_call
               found == IF p.attempts.model_discovery = 0 THEN n ELSE p.attempts.model_discovery
               later == [p.attempts EXCEPT !.streaming = 1, !.model_discovery = found]
               q == [p EXCEPT !.at = "stream", !.tool = a.usage, !.attempts = later]
    <3>1. probe' = q
      BY <1>6, <2>6, Zenon DEF ToolAnswered
    <3>2. q \in Probes /\ q.at = "stream" /\ q.tool = a.usage /\ q.stream = probe.stream
          /\ q.attempts.tool_call = probe.attempts.tool_call + 1
      <4>1. p.attempts \in [Requests -> Int] /\ found \in Int
        BY <1>3 DEF Probes, Requests
      <4> HIDE DEF found
      <4>2. later \in [Requests -> Int] /\ later.tool_call = p.attempts.tool_call
        <5> DEFINE first == [p.attempts EXCEPT !["streaming"] = 1]
        <5>1. first \in [Requests -> Int] /\ first["tool_call"] = p.attempts["tool_call"]
          BY <4>1 DEF Requests
        <5>2. later = [first EXCEPT !["model_discovery"] = found]
          BY Zenon
        <5> HIDE DEF first
        <5>3. [first EXCEPT !["model_discovery"] = found] \in [Requests -> Int]
              /\ [first EXCEPT !["model_discovery"] = found]["tool_call"] = first["tool_call"]
          BY <4>1, <5>1 DEF Requests
        <5> QED  BY <5>1, <5>2, <5>3
      <4> HIDE DEF later
      <4>3. q \in Probes /\ q.attempts = later
        BY <1>3, <2>1, <4>2 DEF Probes, Places
      <4> QED  BY <1>3, <4>2, <4>3 DEF Probes
    <3>3. probe.stream = NoUsage
      BY <1>1 DEF IInv, StreamIsValid
    <3>4. UsageIsValid(a.usage)
      BY <2>6 DEF AnswerIsValid
    <3> QED  BY <1>1, <2>1, <2>5, <3>1, <3>2, <3>3, <3>4, AnswerIsSafe
  <2>7. CASE ~AnswerIsValid(a)
    <3>1. probe' = Idle
      BY <1>6, <2>7 DEF ToolAnswered
    <3>2. billed' \in Int /\ (CachedIsCheaper => billed' <= AttemptBudget(docs) * ToolAttemptCost + StreamCost)
      BY <1>1, <2>3, <2>4, <2>5, ToolCallFits
    <3> QED  BY <1>1, <3>1, <3>2, Ends
  <2> QED  BY <2>6, <2>7
<1>7. ASSUME NEW c \in {0, ToolAttemptCost}, Again("tool_call") \/ Fails, billed' = billed + c
      PROVE  IInv'
  <2>1. c \in Int /\ c <= ToolAttemptCost
    BY <1>5, NothingOrAll, Zenon
  <2>2. CASE probe' = Idle
    <3>1. billed' \in Int /\ (CachedIsCheaper => billed' <= AttemptBudget(docs) * ToolAttemptCost + StreamCost)
      BY <1>1, <1>7, <2>1, ToolCallFits
    <3> QED  BY <1>1, <2>2, <3>1, Ends
  <2>3. CASE probe' = p /\ probe.attempts.tool_call < Policy.max_retries
    BY <1>1, <1>3, <1>7, <2>3, AgainIsSafe
  <2> QED  BY <1>7, <2>2, <2>3 DEF Again, Fails
<1> QED  BY <1>6, <1>7 DEF CallTool

LEMMA StreamEventIsSafe ==
  ASSUME IInv, NEW e \in Events, StreamEvent(e)
  PROVE  IInv'
<1>1. Given' = Given /\ UNCHANGED <<runs, clock, billed>> /\ probe.at = "stream"
      /\ (e.usage = NoUsage \/ UsageIsValid(e.usage))
  BY DEF StreamEvent, Given
<1>2. probe \in Probes /\ e.usage \in Usages
  BY InputsAssumption DEF IInv, TypeOK
<1>3. /\ probe' \in Probes /\ probe'.at = "stream" /\ probe'.tool = probe.tool /\ probe'.attempts = probe.attempts
      /\ probe'.stream \in {probe.stream, e.usage}
  <2> DEFINE u == IF e.usage = NoUsage THEN probe.stream ELSE e.usage
             k == probe.chunks + 1
             b == probe.marker \/ e.marker
  <2>1. probe' = [probe EXCEPT !.chunks = k, !.marker = b, !.stream = u]
    BY DEF StreamEvent
  <2>2. u \in Usages /\ k \in Int /\ u \in {probe.stream, e.usage}
    BY <1>2 DEF Probes
  <2>3. b \in BOOLEAN
    BY <1>2, InputsAssumption DEF Probes
  <2> HIDE DEF u, k, b
  <2> QED  BY <1>1, <1>2, <2>1, <2>2, <2>3 DEF Probes, Places
<1>4. TypeOK' /\ BudgetIsChecked'
  BY <1>1, <1>3, GivenStays DEF IInv, TypeOK, BudgetIsChecked
<1>5. SpendByPhase'
  BY <1>1, <1>3, GivenStays, BillsStay DEF IInv, SpendByPhase, Before, After, Tried
<1>6. StreamIsValid'
  <2>1. CASE probe'.stream = probe.stream
    BY <1>1, <1>3, <2>1, BillsStay DEF IInv, StreamIsValid, Before, NoUsage
  <2>2. CASE probe'.stream = e.usage
    BY <1>1, <1>3, <2>2, GivenStays DEF StreamIsValid, Before, NoUsage, UsageIsValid
  <2> QED  BY <1>3, <2>1, <2>2
<1> QED  BY <1>4, <1>5, <1>6 DEF IInv

\* The stream is billed once, whole or broken.
LEMMA StreamFitsBudget ==
  ASSUME IInv, probe.at = "stream", NEW c \in Int
  PROVE  /\ runs > 0 /\ billed \in Int /\ billed + c \in Int
         /\ CachedIsCheaper /\ c <= StreamCost =>
              /\ billed + c <= (Tried - 1) * ToolAttemptCost + ToolBill + c
              /\ billed + c <= AttemptBudget(docs) * ToolAttemptCost + StreamCost
<1>1. runs > 0 /\ LimitsAreSane(docs) /\ TypeOK
  BY DEF IInv, BudgetIsChecked
<1>2. billed \in Int /\ billed + c \in Int
  <2>1. billed \in Int
    BY DEF IInv, TypeOK
  <2> QED  BY <2>1, Sums, Zenon
<1>3. ASSUME CachedIsCheaper, c <= StreamCost
      PROVE  /\ billed + c <= (Tried - 1) * ToolAttemptCost + ToolBill + c
             /\ billed + c <= AttemptBudget(docs) * ToolAttemptCost + StreamCost
  <2>1. Tried \in 1..AttemptBudget(docs) /\ billed <= (Tried - 1) * ToolAttemptCost + ToolBill
    BY <1>1, <1>3 DEF IInv, SpendByPhase
  <2>2. /\ Policy.max_retries \in Int /\ ToolAttemptCost \in Int /\ ToolAttemptCost >= 0
        /\ StreamCost \in Int /\ StreamCost >= 0 /\ AttemptBudget(docs) = Policy.max_retries + 1
    BY <1>1, Running
  <2>3. Tried \in Int /\ Tried <= Policy.max_retries + 1
    BY <2>1, <2>2, InRange, Sums
  <2>4. probe.tool \in Usages /\ ToolBytes \in Nat /\ ToolTokens(docs) \in Nat
    BY <1>1, TokensAreSane, ProbeAssumption DEF TypeOK, Probes
  <2>5. ToolBill \in Int /\ ToolBill <= ToolAttemptCost
    BY <1>1, <1>3, <2>4, BillIsBounded DEF ToolBill, ToolAttemptCost, Rates
  <2> QED  BY <1>2, <1>3, <2>1, <2>2, <2>3, <2>5, StreamFits, Zenon
<1> QED  BY <1>1, <1>2, <1>3

LEMMA StreamDoneIsSafe ==
  ASSUME IInv, StreamDone
  PROVE  IInv'
<1> DEFINE c == StreamBill
<1>1. /\ Given' = Given /\ UNCHANGED <<runs, clock>> /\ probe.at = "stream" /\ probe.stream # NoUsage
      /\ probe' = [probe EXCEPT !.at = "report"] /\ billed' = billed + c
  BY DEF StreamDone, Goto, Given, StreamBill
<1>2. probe \in Probes /\ UsageIsValid(probe.stream)
  BY <1>1 DEF IInv, TypeOK, StreamIsValid
<1>3. /\ probe' \in Probes /\ probe'.at = "report" /\ probe'.tool = probe.tool /\ probe'.stream = probe.stream
      /\ probe'.attempts = probe.attempts
  BY <1>1, <1>2 DEF Probes, Places
<1>4. runs > 0 /\ LimitsAreSane(docs) /\ TypeOK
  BY <1>1 DEF IInv, BudgetIsChecked
<1>5. probe.stream \in Usages /\ StreamBytes \in Nat /\ StreamTokens(docs) \in Nat
  BY <1>4, <1>2, TokensAreSane, ProbeAssumption DEF Probes
<1>6. c \in Int
  BY <1>4, <1>5, BillIsNumber DEF StreamBill
<1>7. CachedIsCheaper => c <= StreamCost
  BY <1>4, <1>5, BillIsBounded DEF StreamBill, StreamCost, Rates
<1> HIDE DEF c
<1>8. TypeOK'
  <2>1. billed' \in Int
    BY <1>1, <1>6, StreamFitsBudget
  <2>2. (\E d \in Cases : docs' = d.docs) /\ runs' \in Int /\ clock' \in Int
    BY <1>1, GivenStays DEF IInv, TypeOK
  <2> QED  BY <1>3, <2>1, <2>2 DEF TypeOK
<1>9. BudgetIsChecked'
  BY <1>1, <1>3, <1>4, GivenStays DEF IInv, BudgetIsChecked
<1>10. SpendByPhase'
  <2>1. ToolBill' = ToolBill /\ StreamBill' = c /\ Tried' = Tried
        /\ UsageIsValid(probe.tool)' = UsageIsValid(probe.tool) /\ UsageIsValid(probe.stream)'
    BY <1>1, <1>2, <1>3, BillsStay DEF c, Tried
  <2>2. SUFFICES ASSUME CachedIsCheaper
                 PROVE  /\ billed' <= AttemptBudget(docs) * ToolAttemptCost + StreamCost
                        /\ Tried \in 1..AttemptBudget(docs) /\ UsageIsValid(probe.tool)
                        /\ billed' <= (Tried - 1) * ToolAttemptCost + ToolBill + c
    BY <1>1, <1>3, <2>1, GivenStays DEF SpendByPhase, Before, After
  <2>3. Tried \in 1..AttemptBudget(docs) /\ UsageIsValid(probe.tool)
    BY <1>1, <1>4, <2>2 DEF IInv, SpendByPhase
  <2>4. /\ billed + c <= (Tried - 1) * ToolAttemptCost + ToolBill + c
        /\ billed + c <= AttemptBudget(docs) * ToolAttemptCost + StreamCost
    BY <1>1, <1>6, <1>7, <2>2, StreamFitsBudget
  <2> QED  BY <1>1, <2>3, <2>4, Zenon
<1>11. StreamIsValid'
  BY <1>3 DEF StreamIsValid, Before
<1> QED  BY <1>8, <1>9, <1>10, <1>11 DEF IInv

LEMMA StreamBreaksIsSafe ==
  ASSUME IInv, StreamBreaks
  PROVE  IInv'
<1>1. PICK c \in {0, StreamCost} : billed' = billed + c
  BY DEF StreamBreaks
<1>2. Given' = Given /\ UNCHANGED <<runs, clock>> /\ probe.at = "stream" /\ probe' = Idle
  BY DEF StreamBreaks, Fails, Given
<1>3. runs > 0
  BY <1>2 DEF IInv, BudgetIsChecked
<1>4. StreamCost \in Int /\ StreamCost >= 0
  BY <1>3, Running
<1>5. c \in Int /\ c <= StreamCost
  BY <1>4, NothingOrAll, Zenon
<1>6. billed' \in Int /\ (CachedIsCheaper => billed' <= AttemptBudget(docs) * ToolAttemptCost + StreamCost)
  BY <1>1, <1>2, <1>5, StreamFitsBudget
<1> QED  BY <1>2, <1>6, Ends

LEMMA ReportIsSafe ==
  ASSUME IInv, Report
  PROVE  IInv'
<1>1. Given' = Given /\ UNCHANGED <<runs, clock, billed>> /\ probe.at = "report"
  BY DEF Report, Given
<1>2. probe \in Probes /\ clock \in Int
  BY DEF IInv, TypeOK
<1>3. CASE probe' = Idle
  BY <1>1, <1>3, EndsUnbilled
<1>4. CASE probe' = [probe EXCEPT !.at = "write", !.executed_at = clock]
  <2>1. /\ probe' \in Probes /\ probe'.at = "write" /\ probe'.tool = probe.tool /\ probe'.stream = probe.stream
        /\ probe'.attempts = probe.attempts
    BY <1>2, <1>4 DEF Probes, Places
  <2> QED  BY <1>1, <1>2, <2>1, SamePhase DEF After
<1> QED  BY <1>3, <1>4 DEF Report

LEMMA PublishIsSafe ==
  ASSUME IInv, Publish
  PROVE  IInv'
<1>1. Given' = Given /\ UNCHANGED <<runs, clock, billed>> /\ probe.at = "write" /\ probe' = [probe EXCEPT !.at = "print"]
  BY DEF Publish, Given
<1>2. probe \in Probes /\ clock \in Int
  BY DEF IInv, TypeOK
<1>3. /\ probe' \in Probes /\ probe'.at = "print" /\ probe'.tool = probe.tool /\ probe'.stream = probe.stream
      /\ probe'.attempts = probe.attempts
  BY <1>1, <1>2 DEF Probes, Places
<1> QED  BY <1>1, <1>2, <1>3, SamePhase DEF After

LEMMA WorldIsSafe ==
  ASSUME IInv, Given' = Given, UNCHANGED <<probe, billed, runs>>, clock' \in Int
  PROVE  IInv'
  BY SamePhase DEF IInv, TypeOK

LEMMA TickIsSafe ==
  ASSUME IInv, Tick
  PROVE  IInv'
<1>1. clock \in Int /\ clock' = clock + 1
  BY DEF IInv, TypeOK, Tick
<1>2. clock' \in Int
  BY <1>1, Sums
<1>3. Given' = Given /\ UNCHANGED <<probe, billed, runs>>
  BY DEF Tick, Given
<1> QED  BY <1>2, <1>3, WorldIsSafe

LEMMA SourcePageLeads ==
  (IF ProveInvalidToolRejection THEN FirstRequest ELSE "idle") \in Before \cup {"tool call"}
<1>1. ProveInvalidToolRejection
  BY DEF ProveInvalidToolRejection, ValidToolCall
<1> QED  BY <1>1 DEF FirstRequest, Before

LEMMA StepIsSafe ==
  ASSUME IInv, [Next]_vars
  PROVE  IInv'
<1>1. CASE Start
  BY <1>1, StartIsSafe
<1>2. CASE VerifyPolicyPage
  <2>1. "policy page" \in Before /\ "source page" \in Before \cup {"tool call"}
    BY DEF Before
  <2> QED  BY <1>2, <2>1, VerifyPageIsSafe DEF VerifyPolicyPage
<1>3. CASE VerifySourcePage
  <2>1. "source page" \in Before
    BY DEF Before
  <2> QED  BY <1>3, <2>1, SourcePageLeads, VerifyPageIsSafe DEF VerifySourcePage
<1>4. CASE Discover
  BY <1>4, DiscoverIsSafe
<1>5. CASE CallTool
  BY <1>5, CallToolIsSafe
<1>6. CASE \E e \in Events : StreamEvent(e)
  BY <1>6, StreamEventIsSafe
<1>7. CASE StreamDone
  BY <1>7, StreamDoneIsSafe
<1>8. CASE StreamBreaks
  BY <1>8, StreamBreaksIsSafe
<1>9. CASE Report
  BY <1>9, ReportIsSafe
<1>10. CASE Publish
  BY <1>10, PublishIsSafe
<1>11. CASE PrintDigest
  <2>1. Given' = Given /\ probe' = Idle /\ UNCHANGED <<runs, clock, billed>>
    BY <1>11 DEF PrintDigest, Given
  <2> QED  BY <2>1, EndsUnbilled
<1>12. CASE Kill
  <2>1. Given' = Given /\ probe' = Idle /\ UNCHANGED <<runs, clock, billed>>
    BY <1>12 DEF Kill, Fails, Given
  <2> QED  BY <2>1, EndsUnbilled
<1>13. CASE Tick
  BY <1>13, TickIsSafe
<1>14. CASE PageChanges \/ EditOutput \/ UNCHANGED vars
  <2>1. Given' = Given /\ UNCHANGED <<probe, billed, runs>> /\ clock' = clock
    BY <1>14 DEF PageChanges, EditOutput, Given, vars
  <2>2. clock' \in Int
    BY <2>1 DEF IInv, TypeOK
  <2> QED  BY <2>1, <2>2, WorldIsSafe
<1> QED
  BY <1>1, <1>2, <1>3, <1>4, <1>5, <1>6, <1>7, <1>8, <1>9, <1>10, <1>11, <1>12, <1>13, <1>14
  DEF Next, ProbeStep

-------------------------------------------------------------------------------
(* The theorems *)

\* IInv is an invariant: what was billed follows the phases of the run.
THEOREM SpendFollowsPhases == Spec => []IInv
<1>1. Init => IInv
  BY InitIsSafe
<1>2. IInv /\ [Next]_vars => IInv'
  BY StepIsSafe
<1> QED  BY <1>1, <1>2, PTL DEF Spec

\* A run is never billed more than the approved cap, for any prices, limits, payloads and
\* answers: the preflight of run_probe bounds every attempt it allows.
THEOREM SpendIsCappedHolds == Spec => []SpendIsCapped
<1>1. IInv => SpendIsCapped
  <2> SUFFICES ASSUME IInv, runs > 0, CachedIsCheaper PROVE billed <= Policy.cost_cap_per_probe
    BY DEF SpendIsCapped
  <2>1. billed <= AttemptBudget(docs) * ToolAttemptCost + StreamCost
    BY DEF IInv, SpendByPhase
  <2>2. AttemptBudget(docs) * ToolAttemptCost + StreamCost <= Policy.cost_cap_per_probe
    BY Running
  <2>3. /\ billed \in Int /\ AttemptBudget(docs) \in Int /\ ToolAttemptCost \in Int /\ StreamCost \in Int
        /\ Policy.cost_cap_per_probe \in Int
    BY Running, BudgetFitsCap DEF IInv, TypeOK
  <2>4. AttemptBudget(docs) * ToolAttemptCost \in Int
    BY <2>3, WholeProduct, Zenon
  <2>5. AttemptBudget(docs) * ToolAttemptCost + StreamCost \in Int
    BY <2>3, <2>4, Sums, Zenon
  <2> QED  BY <2>1, <2>2, <2>3, <2>5, AtMostTransitive, Zenon
<1> QED  BY <1>1, SpendFollowsPhases, PTL

\* What two answers cost is what the sum of their tokens costs.
LEMMA CostsAdd ==
  ASSUME NEW r \in Prices, NEW i \in Int, NEW c \in Int, NEW o \in Int,
         NEW j \in Int, NEW d \in Int, NEW p \in Int
  PROVE  /\ Cost(r, i, c, o) + Cost(r, j, d, p) = Cost(r, i + j, c + d, o + p)
         /\ Cost(r, i, c, o) \in Int /\ Cost(r, j, d, p) \in Int
<1> DEFINE miss == r.cache_miss_input  hit == r.cache_hit_input  out == r.output
<1>1. miss \in Int /\ hit \in Int /\ out \in Int
  BY DEF Prices
<1>2. i - c \in Int /\ j - d \in Int /\ (i + j) - (c + d) = (i - c) + (j - d)
  OBVIOUS
<1> HIDE DEF miss, hit, out
<1>3. /\ ((i - c) + (j - d)) * miss = (i - c) * miss + (j - d) * miss
      /\ (c + d) * hit = c * hit + d * hit /\ (o + p) * out = o * out + p * out
  BY <1>1, <1>2, Distributes
<1>4. /\ (i - c) * miss \in Int /\ (j - d) * miss \in Int /\ c * hit \in Int /\ d * hit \in Int
      /\ o * out \in Int /\ p * out \in Int
  BY <1>1, <1>2, WholeProduct
<1>5. ((i - c) * miss + c * hit + o * out) + ((j - d) * miss + d * hit + p * out)
        = ((i + j) - (c + d)) * miss + (c + d) * hit + (o + p) * out
  BY <1>2, <1>3, <1>4
<1> QED  BY <1>4, <1>5 DEF Cost, miss, hit, out

\* The retries are reported at what they can cost.
LEMMA RetriesAreReported ==
  ASSUME TypeOK, LimitsAreSane(docs), PriorAttempts \in Int
  PROVE  RetryCost = PriorAttempts * ToolAttemptCost
<1> DEFINE n == PriorAttempts  i == ToolBytes  o == ToolTokens(docs)
<1>1. Rates \in Prices /\ i \in Int /\ o \in Int /\ n \in Int
  BY PricesAreSane, TokensAreSane, ProbeAssumption
<1>2. RetryCost = Cost(Rates, i * n, 0, o * n) /\ ToolAttemptCost = Cost(Rates, i, 0, o)
  BY DEF RetryCost, ToolAttemptCost, Rates
<1> HIDE DEF n, i, o
<1>3. i * n \in Int /\ o * n \in Int /\ 0 \in Int
  BY <1>1, WholeProduct
<1>4. Cost(Rates, i * n + 0, 0, o * n + 0) = n * Cost(Rates, i, 0, o) + Cost(Rates, 0, 0, 0)
  BY <1>1, <1>3, CostIsLinear
<1>5. Cost(Rates, 0, 0, 0) = 0
  BY <1>1, SMT DEF Cost, Prices
<1>6. i * n + 0 = i * n /\ o * n + 0 = o * n
  BY <1>3
<1>7. n * Cost(Rates, i, 0, o) \in Int
  BY <1>1, <1>3, CostsAdd, WholeProduct
<1> QED  BY <1>2, <1>4, <1>5, <1>6, <1>7 DEF n

LEMMA CostOfTwo ==
  ASSUME NEW r \in Prices, NEW u \in Usages, NEW v \in Usages
  PROVE  Cost(r, u.prompt, u.cached, u.completion) + Cost(r, v.prompt, v.cached, v.completion)
           = Cost(r, u.prompt + v.prompt, u.cached + v.cached, u.completion + v.completion)
<1> DEFINE i == u.prompt  c == u.cached  o == u.completion
           j == v.prompt  d == v.cached  p == v.completion
<1>1. i \in Int /\ c \in Int /\ o \in Int /\ j \in Int /\ d \in Int /\ p \in Int
  BY DEF Usages
<1> HIDE DEF i, c, o, j, d, p
<1>2. Cost(r, i, c, o) + Cost(r, j, d, p) = Cost(r, i + j, c + d, o + p)
  BY <1>1, CostsAdd
<1> QED  BY <1>2 DEF i, c, o, j, d, p

LEMMA SpendAdds ==
  ASSUME NEW x \in Int, NEW r \in Int, NEW a \in Int, NEW b \in Int, NEW t \in Int, NEW s \in Int,
         x <= r + a + b, a <= t, b <= s
  PROVE  x <= (t + s) + r
  OBVIOUS

\* The cost that a manifest reports covers what its run was billed, the attempts that brought no
\* answer included: run_probe's estimated_cost.
THEOREM ReportCoversSpendHolds == Spec => []ReportCoversSpend
<1>1. IInv => ReportCoversSpend
  <2> SUFFICES ASSUME IInv, probe.at = "write", CachedIsCheaper PROVE billed <= SuccessCost + RetryCost
    BY DEF ReportCoversSpend
  <2>1. runs > 0 /\ LimitsAreSane(docs) /\ TypeOK /\ billed \in Int
    BY DEF IInv, BudgetIsChecked, TypeOK
  <2>2. /\ Tried \in 1..AttemptBudget(docs) /\ UsageIsValid(probe.tool) /\ UsageIsValid(probe.stream)
        /\ billed <= (Tried - 1) * ToolAttemptCost + ToolBill + StreamBill
    BY <2>1 DEF IInv, SpendByPhase, After
  <2>3. /\ ToolAttemptCost \in Int /\ AttemptBudget(docs) = Policy.max_retries + 1 /\ Policy.max_retries \in Int
    BY <2>1, Running
  <2>4. Tried \in Int /\ PriorAttempts = Tried - 1 /\ PriorAttempts \in Int
    BY <2>2, <2>3 DEF PriorAttempts, Tried
  <2>5. RetryCost = (Tried - 1) * ToolAttemptCost /\ (Tried - 1) * ToolAttemptCost \in Int
    BY <2>1, <2>3, <2>4, RetriesAreReported, WholeProduct
  <2>6. /\ probe.tool \in Usages /\ probe.stream \in Usages /\ ToolBytes \in Nat /\ StreamBytes \in Nat
        /\ ToolTokens(docs) \in Nat /\ StreamTokens(docs) \in Nat
    BY <2>1, TokensAreSane, ProbeAssumption DEF TypeOK, Probes
  <2> DEFINE t == Cost(Rates, probe.tool.prompt, probe.tool.cached, probe.tool.completion)
             s == Cost(Rates, probe.stream.prompt, probe.stream.cached, probe.stream.completion)
  <2>7. ToolBill <= t /\ t \in Int /\ ToolBill \in Int
    BY <2>1, <2>2, <2>6, BillIsReported, BillIsNumber DEF ToolBill
  <2>8. StreamBill <= s /\ s \in Int /\ StreamBill \in Int
    BY <2>1, <2>2, <2>6, BillIsReported, BillIsNumber DEF StreamBill
  <2>9. SuccessCost = t + s
    <3>1. Rates \in Prices
      BY <2>1, PricesAreSane
    <3>2. t + s = Cost(Rates, InputTokens, CachedTokens, OutputTokens)
      BY <2>6, <3>1, CostOfTwo DEF InputTokens, CachedTokens, OutputTokens
    <3> QED  BY <3>2 DEF SuccessCost, Rates
  <2> HIDE DEF t, s
  <2> QED  BY <2>1, <2>2, <2>5, <2>7, <2>8, <2>9, SpendAdds, Zenon
<1> QED  BY <1>1, SpendFollowsPhases, PTL

-------------------------------------------------------------------------------
(* What a published manifest rests on *)

Reported == {"write", "print"}

\* What the probe has demanded of the environment and the documents, some time until then.
Checked(now) ==
  EnvironmentIsFit(env) /\ \E start \in 0..now : LoadPolicy(docs, env.AIOPS_LLM_MODE, start)

CheckedFirst ==
  /\ \E c \in Cases : env = c.env /\ docs = c.docs
  /\ clock \in Nat
  /\ probe.at # "idle" => Checked(clock)
  /\ probe.at \notin {"idle", "policy page"} => HttpsUrl(Policy.provider_policy_url)
  /\ probe.at \in Reported =>
       /\ probe.executed_at \in Nat /\ probe.executed_at <= clock
       /\ Checked(probe.executed_at)

AnswersAreValid ==
  /\ probe.chunks >= 0 /\ \A r \in Requests : probe.attempts[r] >= 0
  /\ probe.at \in {"stream"} \cup After => UsageIsValid(probe.tool) /\ \A r \in Requests : probe.attempts[r] > 0
  /\ probe.at \in After => UsageIsValid(probe.stream) /\ probe.chunks > 0 /\ probe.marker
  /\ probe.at \in Reported => InputTokens <= InputBound(docs) /\ SuccessCost + RetryCost <= Policy.cost_cap_per_probe

Output(hours, trusted) == [manifest |-> Manifest(hours), writable |-> FALSE, trusted_owner |-> trusted]

PublishedAsIs ==
  /\ probe.at = "print" => \E hours \in 1..MaxEvidenceValidity, trusted \in BOOLEAN : output = Output(hours, trusted)
  /\ \A m \in printed : {m.executed_at, m.expires_at, m.policy.reviewed_at, m.quota_pricing_evidence.reviewed_at}
                          \subseteq Int

EvidenceInv == CheckedFirst /\ AnswersAreValid /\ PublishedAsIs

-------------------------------------------------------------------------------
(* The evidence invariant is kept *)

Asked == {"stream"} \cup After

\* What no step changes: the files, and what was demanded of them.
LEMMA WhatWasCheckedStays ==
  ASSUME Given' = Given
  PROVE  /\ \A now : Checked(now)' = Checked(now)
         /\ HttpsUrl(Policy.provider_policy_url)' = HttpsUrl(Policy.provider_policy_url)
         /\ InputBound(docs)' = InputBound(docs) /\ Policy' = Policy
<1>1. docs' = docs /\ env' = env
  BY DEF Given
<1> QED  BY <1>1 DEF Checked, Policy

LEMMA CheckedLater ==
  ASSUME NEW now \in Nat, NEW then \in Nat, now <= then, Checked(now)
  PROVE  Checked(then)
<1>1. 0..now \subseteq 0..then
  OBVIOUS
<1> QED  BY <1>1 DEF Checked

\* A run that ends, or has just begun, owes nothing.
LEMMA EndsPublished ==
  ASSUME EvidenceInv, Given' = Given, probe' = Idle, clock' = clock, PublishedAsIs'
  PROVE  EvidenceInv'
<1>1. /\ Idle.at = "idle" /\ Idle.chunks = 0 /\ \A r \in Requests : Idle.attempts[r] = 0
  BY DEF Idle, Requests
<1>2. docs' = docs /\ env' = env
  BY DEF Given
<1>3. CheckedFirst'
  BY <1>1, <1>2 DEF EvidenceInv, CheckedFirst, Reported
<1>4. AnswersAreValid'
  BY <1>1 DEF AnswersAreValid, After, Reported
<1> QED  BY <1>3, <1>4 DEF EvidenceInv

LEMMA NothingPublished ==
  ASSUME EvidenceInv, printed' = printed, probe'.at # "print"
  PROVE  PublishedAsIs'
  BY DEF EvidenceInv, PublishedAsIs

LEMMA FailsPublished ==
  ASSUME EvidenceInv, Given' = Given, Fails, clock' = clock
  PROVE  EvidenceInv'
<1>1. probe' = Idle /\ printed' = printed /\ probe'.at = "idle"
  BY DEF Fails, Idle
<1> QED  BY <1>1, NothingPublished, EndsPublished

\* A step of a run before its report: what has to be shown of it.
LEMMA RunGoesOn ==
  ASSUME EvidenceInv, Given' = Given, clock' = clock, printed' = printed, probe.at # "idle",
         probe'.at \in {"source page", "discovery", "tool call", "stream", "report"},
         HttpsUrl(Policy.provider_policy_url), AnswersAreValid'
  PROVE  EvidenceInv'
<1>1. docs' = docs /\ env' = env
  BY DEF Given
<1>2. CheckedFirst'
  BY <1>1, WhatWasCheckedStays DEF EvidenceInv, CheckedFirst, Reported
<1>3. PublishedAsIs'
  BY NothingPublished
<1> QED  BY <1>2, <1>3 DEF EvidenceInv

LEMMA ValidStays ==
  ASSUME Given' = Given
  PROVE  \A u : UsageIsValid(u)' = UsageIsValid(u)
  BY DEF Given, UsageIsValid

LEMMA InitIsEvident ==
  ASSUME Init
  PROVE  EvidenceInv
<1>1. /\ Idle.at = "idle" /\ Idle.chunks = 0 /\ \A r \in Requests : Idle.attempts[r] = 0
  BY DEF Idle, Requests
<1>0. /\ probe = Idle /\ printed = {} /\ clock = 0
      /\ \E c \in Cases : env = c.env /\ docs = c.docs
  BY Zenon DEF Init
<1>2. CheckedFirst
  BY <1>0, <1>1 DEF CheckedFirst, Reported
<1>3. AnswersAreValid
  BY <1>0, <1>1 DEF AnswersAreValid, After, Reported
<1>4. PublishedAsIs
  BY <1>0, <1>1 DEF PublishedAsIs
<1> QED  BY <1>2, <1>3, <1>4 DEF EvidenceInv

LEMMA StartIsEvident ==
  ASSUME IInv, EvidenceInv, Start
  PROVE  EvidenceInv'
<1>1. /\ Given' = Given /\ clock' = clock /\ printed' = printed /\ probe' = [probe EXCEPT !.at = "policy page"]
      /\ EnvironmentIsFit(env) /\ LoadPolicy(docs, env.AIOPS_LLM_MODE, clock)
  BY DEF Start, Goto, Given
<1>2. probe = Idle /\ probe \in Probes
  BY DEF Start, IInv, BudgetIsChecked, TypeOK
<1>3. probe'.at = "policy page" /\ probe'.chunks = probe.chunks /\ probe'.attempts = probe.attempts
  BY <1>1, <1>2 DEF Probes
<1>4. docs' = docs /\ env' = env
  BY <1>1 DEF Given
<1>5. clock \in Nat /\ clock \in 0..clock
  <2>1. clock \in Nat
    BY DEF EvidenceInv, CheckedFirst
  <2> QED  BY <2>1
<1>6. Checked(clock)
  BY <1>1, <1>5 DEF Checked
<1>7. CheckedFirst'
  <2>1. Checked(clock)'
    BY <1>1, <1>4, <1>6 DEF Checked
  <2> QED  BY <1>1, <1>3, <1>4, <2>1 DEF EvidenceInv, CheckedFirst, Reported
<1>8. AnswersAreValid'
  BY <1>3 DEF EvidenceInv, AnswersAreValid, After, Reported
<1>9. PublishedAsIs'
  BY <1>1, <1>3, NothingPublished
<1> QED  BY <1>7, <1>8, <1>9 DEF EvidenceInv

LEMMA VerifyPageIsEvident ==
  ASSUME IInv, EvidenceInv, NEW place \in {"policy page", "source page"}, NEW url, NEW page, NEW expected,
         NEW next \in {"source page", "discovery", "tool call"}, VerifyPage(place, url, page, expected, next),
         place = "policy page" => url = Policy.provider_policy_url
  PROVE  EvidenceInv'
<1>1. Given' = Given /\ clock' = clock /\ probe.at = place
  BY DEF VerifyPage, Given
<1>2. CASE Fails
  BY <1>1, <1>2, FailsPublished
<1>3. CASE HttpsUrl(url) /\ Goto(next)
  <2>1. probe \in Probes
    BY DEF IInv, TypeOK
  <2>2. /\ probe'.at = next /\ probe'.chunks = probe.chunks /\ probe'.attempts = probe.attempts
        /\ printed' = printed
    BY <1>3, <2>1 DEF Goto, Probes
  <2>3. HttpsUrl(Policy.provider_policy_url)
    BY <1>1, <1>3 DEF EvidenceInv, CheckedFirst
  <2>4. AnswersAreValid'
    BY <2>2 DEF EvidenceInv, AnswersAreValid, After, Reported
  <2> QED  BY <1>1, <2>2, <2>3, <2>4, RunGoesOn
<1> QED  BY <1>2, <1>3 DEF VerifyPage

\* One attempt more leaves every count where it was, or higher.
LEMMA AttemptCounts ==
  ASSUME NEW r \in Requests, probe \in Probes, AnswersAreValid
  PROVE  /\ Attempted(r) \in Probes /\ Attempted(r).at = probe.at /\ Attempted(r).chunks = probe.chunks
         /\ \A s \in Requests : Attempted(r).attempts[s] >= 0
         /\ Attempted(r).attempts[r] > 0
<1> DEFINE n == probe.attempts[r] + 1  counts == [probe.attempts EXCEPT ![r] = n]
<1>1. probe.attempts \in [Requests -> Int] /\ \A s \in Requests : probe.attempts[s] >= 0
  BY DEF Probes, AnswersAreValid
<1>2. n \in Int /\ n > 0
  BY <1>1
<1> HIDE DEF n
<1>3. counts \in [Requests -> Int] /\ counts[r] = n /\ \A s \in Requests : s # r => counts[s] = probe.attempts[s]
  BY <1>1, <1>2
<1>4. Attempted(r) = [probe EXCEPT !.attempts = counts]
  BY DEF Attempted, n
<1> HIDE DEF counts
<1>5. Attempted(r) \in Probes /\ Attempted(r).at = probe.at /\ Attempted(r).chunks = probe.chunks
      /\ Attempted(r).attempts = counts
  BY <1>3, <1>4 DEF Probes
<1>6. ASSUME NEW s \in Requests PROVE counts[s] >= 0
  <2>1. CASE s = r
    BY <1>2, <1>3, <2>1
  <2>2. CASE s # r
    BY <1>1, <1>3, <2>2
  <2> QED  BY <2>1, <2>2
<1> QED  BY <1>2, <1>3, <1>5, <1>6

LEMMA AgainIsEvident ==
  ASSUME IInv, EvidenceInv, Given' = Given, clock' = clock, NEW r \in Requests, Again(r),
         probe.at \in {"discovery", "tool call"}
  PROVE  EvidenceInv'
<1>1. printed' = printed /\ (probe' = Idle \/ probe' = Attempted(r))
  BY DEF Again
<1>2. CASE probe' = Idle
  <2>1. PublishedAsIs'
    BY <1>1, <1>2, NothingPublished DEF Idle
  <2> QED  BY <1>2, <2>1, EndsPublished
<1>3. CASE probe' = Attempted(r)
  <2>1. probe \in Probes
    BY DEF IInv, TypeOK
  <2>2. /\ probe'.at = probe.at /\ probe'.chunks = probe.chunks
        /\ \A s \in Requests : probe'.attempts[s] >= 0
    BY <1>3, <2>1, AttemptCounts DEF EvidenceInv
  <2>3. AnswersAreValid'
    BY <2>2 DEF EvidenceInv, AnswersAreValid, After, Reported
  <2>4. HttpsUrl(Policy.provider_policy_url) /\ probe'.at \in {"discovery", "tool call"}
    BY <2>2 DEF EvidenceInv, CheckedFirst
  <2> QED  BY <1>1, <2>3, <2>4, RunGoesOn
<1> QED  BY <1>1, <1>2, <1>3

LEMMA DiscoverIsEvident ==
  ASSUME IInv, EvidenceInv, Discover
  PROVE  EvidenceInv'
<1>1. Given' = Given /\ clock' = clock /\ probe.at = "discovery" /\ "model_discovery" \in Requests
  BY DEF Discover, Given, Requests
<1>2. CASE probe' = [Attempted("model_discovery") EXCEPT !.at = "tool call"] /\ printed' = printed
  <2>1. probe \in Probes
    BY DEF IInv, TypeOK
  <2> DEFINE p == Attempted("model_discovery")
  <2>2. p \in Probes /\ p.chunks = probe.chunks /\ \A s \in Requests : p.attempts[s] >= 0
    BY <1>1, <2>1, AttemptCounts DEF EvidenceInv
  <2>3. probe' = [p EXCEPT !.at = "tool call"]
    BY <1>2
  <2> HIDE DEF p
  <2>4. probe'.at = "tool call" /\ probe'.chunks = p.chunks /\ probe'.attempts = p.attempts
    BY <2>2, <2>3 DEF Probes
  <2>6. AnswersAreValid'
    BY <2>2, <2>4 DEF EvidenceInv, AnswersAreValid, After, Reported
  <2>7. HttpsUrl(Policy.provider_policy_url)
    BY <1>1 DEF EvidenceInv, CheckedFirst
  <2> QED  BY <1>1, <1>2, <2>4, <2>6, <2>7, RunGoesOn
<1>3. CASE Again("model_discovery")
  BY <1>1, <1>3, AgainIsEvident
<1>4. CASE Fails
  BY <1>1, <1>4, FailsPublished
<1> QED  BY <1>2, <1>3, <1>4 DEF Discover

\* When the tool call has been answered every request has been tried: without a model list its
\* attempts count for the discovery, too.
LEMMA EveryRequestIsTried ==
  ASSUME NEW f \in [Requests -> Int], \A s \in Requests : f[s] >= 0, f["tool_call"] > 0,
         NEW first, first = [f EXCEPT !["streaming"] = 1],
         NEW found, found = IF f["model_discovery"] = 0 THEN f["tool_call"] ELSE f["model_discovery"],
         NEW g, g = [first EXCEPT !["model_discovery"] = found]
  PROVE  g \in [Requests -> Int] /\ \A s \in Requests : g[s] > 0 /\ g[s] >= 0
<1>1. f["tool_call"] \in Int /\ f["model_discovery"] \in Int /\ f["model_discovery"] >= 0
  <2>1. "tool_call" \in Requests /\ "model_discovery" \in Requests
    BY DEF Requests
  <2> QED  BY <2>1
<1>2. found \in Int /\ found > 0
  <2>1. CASE f["model_discovery"] = 0
    BY <1>1, <2>1
  <2>2. CASE f["model_discovery"] # 0
    BY <1>1, <2>2
  <2> QED  BY <2>1, <2>2
<1>3. first \in [Requests -> Int] /\ first["tool_call"] = f["tool_call"] /\ first["streaming"] = 1
  BY DEF Requests
<1>5. /\ g \in [Requests -> Int]
      /\ g["tool_call"] = f["tool_call"] /\ g["streaming"] = 1 /\ g["model_discovery"] = found
  BY <1>2, <1>3 DEF Requests
<1>6. ASSUME NEW s \in Requests PROVE g[s] > 0 /\ g[s] >= 0
  <2>1. s \in {"tool_call", "streaming", "model_discovery"}
    BY DEF Requests
  <2>2. g[s] \in Int /\ g[s] > 0
    <3>1. CASE s = "tool_call"
      BY <1>1, <1>5, <3>1
    <3>2. CASE s = "streaming"
      BY <1>5, <3>2
    <3>3. CASE s = "model_discovery"
      BY <1>2, <1>5, <3>3
    <3> QED  BY <2>1, <3>1, <3>2, <3>3
  <2> QED  BY <2>2
<1> QED  BY <1>5, <1>6

\* The tool call has been answered: its attempts count for the model list where there is none.
LEMMA AnswerIsEvident ==
  ASSUME IInv, EvidenceInv, Given' = Given, clock' = clock, probe.at = "tool call",
         NEW a \in Answers, ToolAnswered(a)
  PROVE  EvidenceInv'
<1>1. printed' = printed /\ a.usage \in Usages /\ "tool_call" \in Requests
  BY InputsAssumption DEF ToolAnswered, Requests
<1>2. CASE probe' = Idle
  <2>1. PublishedAsIs'
    BY <1>1, <1>2, NothingPublished DEF Idle
  <2> QED  BY <1>2, <2>1, EndsPublished
<1>3. CASE AnswerIsValid(a)
  <2> DEFINE p == Attempted("tool_call")
             n == p.attempts.tool_call
             found == IF p.attempts.model_discovery = 0 THEN n ELSE p.attempts.model_discovery
             counts == [p.attempts EXCEPT !.streaming = 1, !.model_discovery = found]
  <2>1. probe' = [p EXCEPT !.at = "stream", !.tool = a.usage, !.attempts = counts]
    BY <1>3, Zenon DEF ToolAnswered
  <2>2. probe \in Probes
    BY DEF IInv, TypeOK
  <2>3. /\ p \in Probes /\ p.chunks = probe.chunks
        /\ (\A s \in Requests : p.attempts[s] >= 0) /\ p.attempts["tool_call"] > 0
    BY <1>1, <2>2, AttemptCounts DEF EvidenceInv
  <2>4. probe.chunks >= 0
    BY DEF EvidenceInv, AnswersAreValid
  <2> HIDE DEF p
  <2>5. p.attempts \in [Requests -> Int] /\ p.attempts.tool_call > 0
    BY <2>3 DEF Probes
  <2>6. \A s \in Requests : counts[s] > 0 /\ counts[s] >= 0
    <3> DEFINE first == [p.attempts EXCEPT !["streaming"] = 1]
    <3>1. counts = [first EXCEPT !["model_discovery"] = found]
      BY Zenon
    <3>2. found = IF p.attempts["model_discovery"] = 0 THEN p.attempts["tool_call"] ELSE p.attempts["model_discovery"]
      OBVIOUS
    <3>3. first = [p.attempts EXCEPT !["streaming"] = 1]
      OBVIOUS
    <3>4. (\A s \in Requests : p.attempts[s] >= 0) /\ p.attempts["tool_call"] > 0 /\ p.attempts \in [Requests -> Int]
      BY <2>3, <2>5
    <3> HIDE DEF first, counts, found, n
    <3> QED  BY <3>1, <3>2, <3>3, <3>4, EveryRequestIsTried, Zenon
  <2> HIDE DEF counts, n
  <2>7. probe'.at = "stream" /\ probe'.tool = a.usage /\ probe'.attempts = counts /\ probe'.chunks = p.chunks
    BY <2>1, <2>3 DEF Probes
  <2>8. UsageIsValid(probe.tool)'
    <3>1. env' = env /\ UsageIsValid(a.usage)
      BY <1>3 DEF AnswerIsValid, Given
    <3> QED  BY <2>7, <3>1 DEF UsageIsValid
  <2>10. AnswersAreValid'
    BY <2>3, <2>4, <2>6, <2>7, <2>8 DEF AnswersAreValid, After, Reported
  <2>11. HttpsUrl(Policy.provider_policy_url)
    BY DEF EvidenceInv, CheckedFirst
  <2> QED  BY <1>1, <2>7, <2>10, <2>11, RunGoesOn
<1> QED  BY <1>2, <1>3 DEF ToolAnswered

LEMMA CallToolIsEvident ==
  ASSUME IInv, EvidenceInv, CallTool
  PROVE  EvidenceInv'
<1>1. Given' = Given /\ clock' = clock /\ probe.at = "tool call" /\ "tool_call" \in Requests
  BY DEF CallTool, Given, Requests
<1>2. CASE \E a \in Answers : ToolAnswered(a)
  BY <1>1, <1>2, AnswerIsEvident
<1>3. CASE Again("tool_call")
  BY <1>1, <1>3, AgainIsEvident
<1>4. CASE Fails
  BY <1>1, <1>4, FailsPublished
<1> QED  BY <1>2, <1>3, <1>4 DEF CallTool

LEMMA StreamEventIsEvident ==
  ASSUME IInv, EvidenceInv, NEW e \in Events, StreamEvent(e)
  PROVE  EvidenceInv'
<1>1. Given' = Given /\ clock' = clock /\ printed' = printed /\ probe.at = "stream"
  BY DEF StreamEvent, Given
<1>2. probe \in Probes /\ e.usage \in Usages /\ e.marker \in BOOLEAN
  BY InputsAssumption DEF IInv, TypeOK
<1> DEFINE u == IF e.usage = NoUsage THEN probe.stream ELSE e.usage
           k == probe.chunks + 1
           b == probe.marker \/ e.marker
<1>3. probe' = [probe EXCEPT !.chunks = k, !.marker = b, !.stream = u]
  BY DEF StreamEvent
<1>4. k >= 0
  <2>1. probe.chunks \in Int /\ probe.chunks >= 0
    BY <1>2 DEF Probes, EvidenceInv, AnswersAreValid
  <2> QED  BY <2>1
<1> HIDE DEF u, k, b
<1>5. probe'.at = "stream" /\ probe'.tool = probe.tool /\ probe'.attempts = probe.attempts /\ probe'.chunks = k
  BY <1>1, <1>2, <1>3 DEF Probes
<1>6. AnswersAreValid'
  <2>1. UsageIsValid(probe.tool)'
    BY <1>1, <1>5 DEF EvidenceInv, AnswersAreValid, UsageIsValid, Given
  <2> QED  BY <1>1, <1>4, <1>5, <2>1 DEF EvidenceInv, AnswersAreValid, After, Reported
<1>7. HttpsUrl(Policy.provider_policy_url)
  BY <1>1 DEF EvidenceInv, CheckedFirst
<1> QED  BY <1>1, <1>5, <1>6, <1>7, RunGoesOn

LEMMA StreamDoneIsEvident ==
  ASSUME IInv, EvidenceInv, StreamDone
  PROVE  EvidenceInv'
<1>1. /\ Given' = Given /\ clock' = clock /\ printed' = printed /\ probe.at = "stream"
      /\ probe.chunks > 0 /\ probe.marker /\ probe.stream # NoUsage
      /\ probe' = [probe EXCEPT !.at = "report"]
  BY DEF StreamDone, Goto, Given
<1>2. probe \in Probes /\ UsageIsValid(probe.stream)
  BY <1>1 DEF IInv, TypeOK, StreamIsValid
<1>3. /\ probe'.at = "report" /\ probe'.tool = probe.tool /\ probe'.stream = probe.stream
      /\ probe'.attempts = probe.attempts /\ probe'.chunks = probe.chunks /\ probe'.marker = probe.marker
  BY <1>1, <1>2 DEF Probes
<1>4. AnswersAreValid'
  <2>1. UsageIsValid(probe.tool)' /\ UsageIsValid(probe.stream)'
    BY <1>1, <1>2, <1>3 DEF EvidenceInv, AnswersAreValid, UsageIsValid, Given
  <2> QED  BY <1>1, <1>3, <2>1 DEF EvidenceInv, AnswersAreValid, After, Reported
<1>5. HttpsUrl(Policy.provider_policy_url)
  BY <1>1 DEF EvidenceInv, CheckedFirst
<1> QED  BY <1>1, <1>3, <1>4, <1>5, RunGoesOn

LEMMA ReportIsEvident ==
  ASSUME IInv, EvidenceInv, Report
  PROVE  EvidenceInv'
<1>1. Given' = Given /\ clock' = clock /\ printed' = printed /\ probe.at = "report" /\ probe \in Probes
  BY DEF Report, Given, IInv, TypeOK
<1>2. CASE probe' = Idle
  <2>1. PublishedAsIs'
    BY <1>1, <1>2, NothingPublished DEF Idle
  <2> QED  BY <1>1, <1>2, <2>1, EndsPublished
<1>3. CASE /\ InputTokens <= InputBound(docs) /\ SuccessCost + RetryCost <= Policy.cost_cap_per_probe
           /\ probe' = [probe EXCEPT !.at = "write", !.executed_at = clock]
  <2>1. /\ probe'.at = "write" /\ probe'.executed_at = clock
        /\ probe'.tool = probe.tool /\ probe'.stream = probe.stream
        /\ probe'.attempts = probe.attempts /\ probe'.chunks = probe.chunks /\ probe'.marker = probe.marker
    BY <1>1, <1>3 DEF Probes
  <2>2. docs' = docs /\ env' = env
    BY <1>1 DEF Given
  <2>3. /\ InputTokens' = InputTokens /\ SuccessCost' = SuccessCost /\ RetryCost' = RetryCost
        /\ Policy' = Policy /\ InputBound(docs)' = InputBound(docs)
        /\ UsageIsValid(probe.tool)' = UsageIsValid(probe.tool)
        /\ UsageIsValid(probe.stream)' = UsageIsValid(probe.stream)
    BY <2>1, <2>2 DEF InputTokens, CachedTokens, OutputTokens, SuccessCost, RetryCost, PriorAttempts, Policy,
                      UsageIsValid
  <2>4. AnswersAreValid'
    BY <1>1, <1>3, <2>1, <2>3 DEF EvidenceInv, AnswersAreValid, After, Reported
  <2>5. CheckedFirst'
    <3>1. clock \in Nat /\ Checked(clock) /\ HttpsUrl(Policy.provider_policy_url)
      BY <1>1 DEF EvidenceInv, CheckedFirst
    <3>2. Checked(clock)' /\ Checked(probe.executed_at)' /\ HttpsUrl(Policy.provider_policy_url)'
      BY <1>1, <2>1, <2>2, <2>3, <3>1 DEF Checked
    <3>3. clock <= clock
      BY <3>1
    <3> QED  BY <1>1, <2>1, <2>2, <3>1, <3>2, <3>3 DEF EvidenceInv, CheckedFirst, Reported
  <2>6. PublishedAsIs'
    BY <1>1, <2>1, NothingPublished
  <2> QED  BY <2>4, <2>5, <2>6 DEF EvidenceInv
<1> QED  BY <1>2, <1>3 DEF Report

\* The manifest is about the run, not about the instant it is read.
LEMMA ManifestStays ==
  ASSUME Given' = Given, probe'.attempts = probe.attempts, probe'.tool = probe.tool, probe'.stream = probe.stream,
         probe'.chunks = probe.chunks, probe'.marker = probe.marker, probe'.executed_at = probe.executed_at
  PROVE  \A hours : Manifest(hours)' = Manifest(hours)
<1>1. docs' = docs /\ env' = env
  BY DEF Given
<1>2. /\ InputTokens' = InputTokens /\ CachedTokens' = CachedTokens /\ OutputTokens' = OutputTokens
      /\ SuccessCost' = SuccessCost /\ RetryCost' = RetryCost /\ Policy' = Policy
  BY <1>1 DEF InputTokens, CachedTokens, OutputTokens, SuccessCost, RetryCost, PriorAttempts, Policy
<1>3. UsageCost' = UsageCost
  BY <1>1, <1>2, Zenon DEF UsageCost
<1>4. QuotaPricingEvidence' = QuotaPricingEvidence /\ PolicyEvidence' = PolicyEvidence
  BY <1>1, <1>2, Zenon DEF QuotaPricingEvidence, PolicyEvidence
<1> QED  BY <1>1, <1>2, <1>3, <1>4 DEF Manifest

\* A step in which neither the run nor what it has asked moves.
LEMMA RunStays ==
  ASSUME EvidenceInv, Given' = Given, probe' = probe, clock' \in Nat, clock <= clock', PublishedAsIs'
  PROVE  EvidenceInv'
<1>1. docs' = docs /\ env' = env
  BY DEF Given
<1>2. AnswersAreValid'
  BY <1>1 DEF EvidenceInv, AnswersAreValid, InputTokens, SuccessCost, RetryCost, CachedTokens, OutputTokens,
              PriorAttempts, Policy, UsageIsValid
<1>3. CheckedFirst'
  <2>1. clock \in Nat /\ (probe.at # "idle" => Checked(clock'))
    BY CheckedLater DEF EvidenceInv, CheckedFirst
  <2>2. probe.at \in Reported => probe.executed_at \in Nat /\ probe.executed_at <= clock'
    <3>1. clock \in Int /\ clock' \in Int
      BY <2>1
    <3>2. ASSUME probe.at \in Reported
          PROVE  probe.executed_at \in Nat /\ probe.executed_at <= clock
      BY <3>2 DEF EvidenceInv, CheckedFirst
    <3> QED  BY <3>1, <3>2, AtMostTransitive
  <2>3. (probe.at # "idle" => Checked(clock)') /\ Checked(probe.executed_at)' = Checked(probe.executed_at)
    BY <1>1, <2>1 DEF Checked
  <2>4. HttpsUrl(Policy.provider_policy_url)' = HttpsUrl(Policy.provider_policy_url)
    BY <1>1 DEF Policy
  <2> QED  BY <1>1, <2>1, <2>2, <2>3, <2>4 DEF EvidenceInv, CheckedFirst
<1> QED  BY <1>2, <1>3 DEF EvidenceInv

LEMMA PublicationStays ==
  ASSUME EvidenceInv, Given' = Given, UNCHANGED <<probe, output, printed>>
  PROVE  PublishedAsIs'
<1>1. \A hours : Manifest(hours)' = Manifest(hours)
  BY ManifestStays
<1>2. \A hours, trusted : Output(hours, trusted)' = Output(hours, trusted)
  BY <1>1 DEF Output
<1> QED  BY <1>2 DEF EvidenceInv, PublishedAsIs

\* What is written is the manifest of the run, read-only and in one step.
LEMMA PublishIsEvident ==
  ASSUME IInv, EvidenceInv, Publish
  PROVE  EvidenceInv'
<1>1. /\ Given' = Given /\ clock' = clock /\ printed' = printed /\ probe.at = "write" /\ probe \in Probes
      /\ probe' = [probe EXCEPT !.at = "print"]
  BY DEF Publish, Given, IInv, TypeOK
<1>2. PICK hours \in 1..MaxEvidenceValidity, trusted \in BOOLEAN :
        output' = [manifest |-> Manifest(hours), writable |-> FALSE, trusted_owner |-> trusted]
  BY DEF Publish
<1>3. /\ probe'.at = "print" /\ probe'.tool = probe.tool /\ probe'.stream = probe.stream
      /\ probe'.attempts = probe.attempts /\ probe'.chunks = probe.chunks /\ probe'.marker = probe.marker
      /\ probe'.executed_at = probe.executed_at
  BY <1>1 DEF Probes
<1>4. docs' = docs /\ env' = env
  BY <1>1 DEF Given
<1>5. AnswersAreValid'
  BY <1>1, <1>3, <1>4 DEF EvidenceInv, AnswersAreValid, After, Reported, InputTokens, SuccessCost, RetryCost,
                          CachedTokens, OutputTokens, PriorAttempts, Policy, UsageIsValid
<1>6. CheckedFirst'
  <2>1. /\ clock \in Nat /\ Checked(clock) /\ HttpsUrl(Policy.provider_policy_url)
        /\ probe.executed_at \in Nat /\ probe.executed_at <= clock /\ Checked(probe.executed_at)
    BY <1>1 DEF EvidenceInv, CheckedFirst, Reported
  <2>2. Checked(clock)' /\ Checked(probe.executed_at)' /\ HttpsUrl(Policy.provider_policy_url)'
    BY <1>1, <1>3, <1>4, <2>1 DEF Checked, Policy
  <2> QED  BY <1>1, <1>3, <1>4, <2>1, <2>2 DEF EvidenceInv, CheckedFirst
<1>7. PublishedAsIs'
  <2>1. Manifest(hours)' = Manifest(hours)
    BY <1>1, <1>3, ManifestStays
  <2>2. output' = Output(hours, trusted)'
    BY <1>2, <2>1 DEF Output
  <2> QED  BY <1>1, <2>2 DEF EvidenceInv, PublishedAsIs
<1> QED  BY <1>5, <1>6, <1>7 DEF EvidenceInv

\* The times of a manifest.
LEMMA ManifestTimes ==
  ASSUME NEW hours
  PROVE  /\ Manifest(hours).executed_at = probe.executed_at
         /\ Manifest(hours).expires_at = probe.executed_at + hours
         /\ Manifest(hours).policy.reviewed_at = Policy.reviewed_at
         /\ Manifest(hours).quota_pricing_evidence.reviewed_at = Policy.quota_pricing_reviewed_at
<1>1. /\ Manifest(hours).executed_at = probe.executed_at
      /\ Manifest(hours).expires_at = probe.executed_at + hours
      /\ Manifest(hours).policy = PolicyEvidence
      /\ Manifest(hours).quota_pricing_evidence = QuotaPricingEvidence
  BY DEF Manifest
<1>2. PolicyEvidence.reviewed_at = Policy.reviewed_at
  BY DEF PolicyEvidence
<1>3. QuotaPricingEvidence.reviewed_at = Policy.quota_pricing_reviewed_at
  BY DEF QuotaPricingEvidence
<1> QED  BY <1>1, <1>2, <1>3

LEMMA PrintDigestIsEvident ==
  ASSUME IInv, EvidenceInv, PrintDigest
  PROVE  EvidenceInv'
<1>1. /\ Given' = Given /\ clock' = clock /\ probe.at = "print" /\ probe' = Idle
      /\ printed' = printed \cup {output.manifest}
  BY DEF PrintDigest, Given
<1>2. PICK hours \in 1..MaxEvidenceValidity : output.manifest = Manifest(hours)
  BY <1>1 DEF EvidenceInv, PublishedAsIs, Output
<1>3. probe.executed_at \in Int /\ probe.executed_at + hours \in Int
  <2>1. probe.executed_at \in Nat
    BY <1>1 DEF EvidenceInv, CheckedFirst, Reported
  <2> QED  BY <1>2, <2>1, WindowsAssumption
<1>4. Policy.reviewed_at \in Int /\ Policy.quota_pricing_reviewed_at \in Int
  BY InputsAssumption DEF EvidenceInv, CheckedFirst, Policy
<1>5. {output.manifest.executed_at, output.manifest.expires_at, output.manifest.policy.reviewed_at,
       output.manifest.quota_pricing_evidence.reviewed_at} \subseteq Int
  BY <1>2, <1>3, <1>4, ManifestTimes
<1>6. probe'.at # "print"
  BY <1>1 DEF Idle
<1>7. PublishedAsIs'
  BY <1>1, <1>5, <1>6 DEF EvidenceInv, PublishedAsIs
<1> QED  BY <1>1, <1>7, EndsPublished

LEMMA WorldIsEvident ==
  ASSUME EvidenceInv, Tick \/ PageChanges \/ EditOutput \/ UNCHANGED vars
  PROVE  EvidenceInv'
<1>1. Given' = Given /\ probe' = probe /\ printed' = printed
  BY DEF Tick, PageChanges, EditOutput, vars, Given
<1>2. clock \in Nat
  BY DEF EvidenceInv, CheckedFirst
<1>3. clock' \in Nat /\ clock <= clock'
  <2>1. clock' = clock \/ clock' = clock + 1
    BY DEF Tick, PageChanges, EditOutput, vars
  <2> QED  BY <1>2, <2>1
<1>4. PublishedAsIs'
  <2>1. CASE output' = output
    BY <1>1, <2>1, PublicationStays
  <2>2. CASE probe.at = "idle"
    BY <1>1, <2>2, NothingPublished
  <2> QED  BY <2>1, <2>2 DEF Tick, PageChanges, EditOutput, vars
<1> QED  BY <1>1, <1>3, <1>4, RunStays

LEMMA StepIsEvident ==
  ASSUME IInv, EvidenceInv, [Next]_vars
  PROVE  EvidenceInv'
<1>1. CASE Start
  BY <1>1, StartIsEvident
<1>2. CASE VerifyPolicyPage
  BY <1>2, VerifyPageIsEvident DEF VerifyPolicyPage
<1>3. CASE VerifySourcePage
  <2>1. (IF ProveInvalidToolRejection THEN FirstRequest ELSE "idle") \in {"source page", "discovery", "tool call"}
    BY DEF ProveInvalidToolRejection, ValidToolCall, FirstRequest
  <2> QED  BY <1>3, <2>1, VerifyPageIsEvident DEF VerifySourcePage
<1>4. CASE Discover
  BY <1>4, DiscoverIsEvident
<1>5. CASE CallTool
  BY <1>5, CallToolIsEvident
<1>6. CASE \E e \in Events : StreamEvent(e)
  BY <1>6, StreamEventIsEvident
<1>7. CASE StreamDone
  BY <1>7, StreamDoneIsEvident
<1>8. CASE StreamBreaks
  <2>1. Given' = Given /\ clock' = clock /\ Fails
    BY <1>8 DEF StreamBreaks, Given
  <2> QED  BY <2>1, FailsPublished
<1>9. CASE Report
  BY <1>9, ReportIsEvident
<1>10. CASE Publish
  BY <1>10, PublishIsEvident
<1>11. CASE PrintDigest
  BY <1>11, PrintDigestIsEvident
<1>12. CASE Kill
  <2>1. Given' = Given /\ clock' = clock /\ Fails
    BY <1>12 DEF Kill, Given
  <2> QED  BY <2>1, FailsPublished
<1>13. CASE Tick \/ PageChanges \/ EditOutput \/ UNCHANGED vars
  BY <1>13, WorldIsEvident
<1> QED
  BY <1>1, <1>2, <1>3, <1>4, <1>5, <1>6, <1>7, <1>8, <1>9, <1>10, <1>11, <1>12, <1>13
  DEF Next, ProbeStep

\* EvidenceInv is an invariant: a manifest is what the run of a checked probe has measured.
THEOREM ManifestIsEarned == Spec => []EvidenceInv
<1>1. Init => EvidenceInv
  BY InitIsEvident
<1>2. IInv /\ EvidenceInv /\ [Next]_vars => EvidenceInv'
  BY StepIsEvident
<1> QED  BY <1>1, <1>2, SpendFollowsPhases, PTL DEF Spec

-------------------------------------------------------------------------------
(* The server looks at the evidence *)

\* A server is told of the evidence in two variables.
LEMMA DeployedIs ==
  ASSUME NEW e \in Servers \cup {c.env : c \in Cases}, NEW m
  PROVE  /\ DOMAIN Deployed(e, m) = DOMAIN e
         /\ Deployed(e, m).AIOPS_LLM_EVIDENCE_FILE = "output"
         /\ Deployed(e, m).AIOPS_LLM_EVIDENCE_SHA256 = Digest(m)
         /\ \A f \in Variables \ {"AIOPS_LLM_EVIDENCE_FILE", "AIOPS_LLM_EVIDENCE_SHA256"} : Deployed(e, m)[f] = e[f]
<1> DEFINE file == [e EXCEPT !["AIOPS_LLM_EVIDENCE_FILE"] = "output"]
<1>1. DOMAIN e = Variables
  BY EnvironmentsAssumption
<1>2. "AIOPS_LLM_EVIDENCE_FILE" \in Variables /\ "AIOPS_LLM_EVIDENCE_SHA256" \in Variables
  BY DEF Variables
<1>3. /\ DOMAIN file = Variables /\ file["AIOPS_LLM_EVIDENCE_FILE"] = "output"
      /\ \A f \in Variables : f # "AIOPS_LLM_EVIDENCE_FILE" => file[f] = e[f]
  BY <1>1, <1>2
<1>4. Deployed(e, m) = [file EXCEPT !["AIOPS_LLM_EVIDENCE_SHA256"] = Digest(m)]
  BY Zenon DEF Deployed
<1> HIDE DEF file
<1> DEFINE told == [file EXCEPT !["AIOPS_LLM_EVIDENCE_SHA256"] = Digest(m)]
<1>5. /\ DOMAIN told = Variables /\ told["AIOPS_LLM_EVIDENCE_SHA256"] = Digest(m)
      /\ \A f \in Variables : f # "AIOPS_LLM_EVIDENCE_SHA256" => told[f] = file[f]
  BY <1>2, <1>3
<1> HIDE DEF told
<1>6. Deployed(e, m) = told
  BY <1>4 DEF told
<1>7. told["AIOPS_LLM_EVIDENCE_FILE"] = "output"
  BY <1>2, <1>3, <1>5
<1> QED  BY <1>1, <1>3, <1>5, <1>6, <1>7

\* What validate_provider_evidence is given.
LEMMA SettingsAre ==
  ASSUME NEW e \in Servers \cup {c.env : c \in Cases}, NEW m
  PROVE  LET s == Settings(Deployed(e, m)) IN
         /\ s.is_production = (e.AIOPS_ENV = "prod")
         /\ s.release_digest = Identifier(e.AIOPS_RELEASE_DIGEST) /\ s.commit_sha = Identifier(e.AIOPS_COMMIT_SHA)
         /\ s.llm_mode = e.AIOPS_LLM_MODE /\ s.llm_base_url = e.AIOPS_LLM_BASE_URL.text
         /\ s.llm_model = e.AIOPS_LLM_MODEL /\ s.llm_enabled_providers = EnabledProviders(e)
         /\ s.llm_evidence_file = "output" /\ s.llm_evidence_sha256 = Digest(m)
<1> DEFINE d == Deployed(e, m)
<1>1. \A f \in {"AIOPS_ENV", "AIOPS_RELEASE_DIGEST", "AIOPS_COMMIT_SHA", "AIOPS_LLM_MODE", "AIOPS_LLM_BASE_URL",
                "AIOPS_LLM_MODEL", "AIOPS_LLM_ENABLED_PROVIDERS"} : d[f] = e[f]
  BY DeployedIs DEF Variables
<1>2. d.AIOPS_LLM_EVIDENCE_FILE = "output" /\ d.AIOPS_LLM_EVIDENCE_SHA256 = Digest(m)
  BY DeployedIs
<1> HIDE DEF d
<1>3. EnabledProviders(d) = EnabledProviders(e)
  BY <1>1 DEF EnabledProviders
<1>4. Identifier(d.AIOPS_LLM_EVIDENCE_SHA256) = Digest(m)
  <2>1. Digest(m).form = "lower"
    BY DEF Digest
  <2> QED  BY <1>2, <2>1 DEF Identifier
<1>5. /\ Settings(d).is_production = (e.AIOPS_ENV = "prod")
      /\ Settings(d).release_digest = Identifier(e.AIOPS_RELEASE_DIGEST)
      /\ Settings(d).commit_sha = Identifier(e.AIOPS_COMMIT_SHA)
      /\ Settings(d).llm_mode = e.AIOPS_LLM_MODE /\ Settings(d).llm_base_url = e.AIOPS_LLM_BASE_URL.text
      /\ Settings(d).llm_model = e.AIOPS_LLM_MODEL /\ Settings(d).llm_enabled_providers = EnabledProviders(e)
      /\ Settings(d).llm_evidence_file = "output" /\ Settings(d).llm_evidence_sha256 = Digest(m)
  BY <1>1, <1>2, <1>3, <1>4 DEF Settings
<1> QED  BY <1>5 DEF d

\* What an answer of provider_manifest_validation_error says.
LEMMA NoErrorMeans ==
  ASSUME NEW m, NEW now, NEW want
  PROVE  ProviderManifestValidationError(m, now, want) = "" <=>
           /\ m.schema_version = 2 /\ m.result = "pass" /\ ProviderManifestContractComplete(m)
           /\ m.provider_id = want.provider_id /\ m.provider_origin = want.provider_origin
           /\ m.model = want.model /\ m.release_digest = want.release_digest /\ m.commit_sha = want.commit_sha
           /\ EvidenceIsCurrent(m, now) /\ RequiredChecks \subseteq m.required_checks
  BY DEF ProviderManifestValidationError

\* Two digests are equal when they are of the same content.
LEMMA DigestIsOf ==
  ASSUME NEW x, NEW y, Digest(x) = Digest(y)
  PROVE  x = y
<1>1. Digest(x).of = x /\ Digest(y).of = y
  BY DEF Digest
<1> QED  BY <1>1

\* An identifier that is rewritten in lower case still is of the same content.
LEMMA SameContent ==
  ASSUME NEW x, x # Unset => IsDigest(x) \/ x = [of |-> x.of, form |-> x.form, length |-> x.length],
         Identifier(x) # Unset
  PROVE  Identifier(x).of = x.of
<1>1. x # Unset
  BY DEF Identifier
<1>2. CASE IsDigest(x)
  <2>1. x = [of |-> x.of, form |-> x.form]
    BY <1>2 DEF IsDigest
  <2>2. [x EXCEPT !.form = "lower"].of = x.of
    BY <2>1
  <2> QED  BY <2>2 DEF Identifier
<1>3. CASE x = [of |-> x.of, form |-> x.form, length |-> x.length]
  <2>1. [x EXCEPT !.form = "lower"].of = x.of
    BY <1>3
  <2> QED  BY <2>1 DEF Identifier
<1> QED  BY <1>1, <1>2, <1>3

\* A window that ends when the evidence expires, and one from a review before it.
LEMMA Windows ==
  ASSUME NEW now \in Int, NEW executed \in Int, NEW expires \in Int, NEW reviewed \in Int,
         NEW valid \in Int, NEW age \in Int,
         expires > now, expires - executed <= valid
  PROVE  now < executed + valid /\ (executed - reviewed <= age => now - reviewed < age + valid)
  OBVIOUS

\* A server trusts the manifest of a probe that has passed and nothing else, for no longer than
\* the windows allow: validate_provider_evidence of a production server, whatever the file, the
\* environments and the answers are.
THEOREM VerifiedByAProbeHolds == Spec => []VerifiedByAProbe
<1>1. EvidenceInv => VerifiedByAProbe
  <2> SUFFICES ASSUME EvidenceInv, NEW e \in Servers, NEW m \in printed, e.AIOPS_ENV = "prod", Verified(e, m)
               PROVE  /\ output.manifest = m /\ ~output.writable
                      /\ m.provider_id = e.AIOPS_LLM_MODE /\ m.provider_origin = e.AIOPS_LLM_BASE_URL.text
                      /\ m.model = e.AIOPS_LLM_MODEL
                      /\ m.release_digest.of = e.AIOPS_RELEASE_DIGEST.of /\ m.commit_sha.of = e.AIOPS_COMMIT_SHA.of
                      /\ clock < m.executed_at + MaxEvidenceValidity
                      /\ clock - m.policy.reviewed_at < PolicyReviewAge + MaxEvidenceValidity
                      /\ clock - m.quota_pricing_evidence.reviewed_at < PricingReviewAge + MaxEvidenceValidity
    BY DEF VerifiedByAProbe
  <2> DEFINE s == Settings(Deployed(e, m))
  <2>1. /\ s.is_production /\ s.release_digest = Identifier(e.AIOPS_RELEASE_DIGEST)
        /\ s.commit_sha = Identifier(e.AIOPS_COMMIT_SHA)
        /\ s.llm_mode = e.AIOPS_LLM_MODE /\ s.llm_base_url = e.AIOPS_LLM_BASE_URL.text
        /\ s.llm_model = e.AIOPS_LLM_MODEL /\ s.llm_evidence_sha256 = Digest(m)
    BY SettingsAre
  <2>2. ValidateProviderEvidence(s, clock)
    BY DEF Verified
  <2> HIDE DEF s
  <2>3. /\ s.release_digest # Unset /\ s.commit_sha # Unset /\ ~output.writable
        /\ Digest(output.manifest) = s.llm_evidence_sha256
        /\ ProviderManifestValidationError(output.manifest, clock, Want(s)) = ""
    BY <2>1, <2>2 DEF ValidateProviderEvidence
  <2>4. output.manifest = m
    <3>1. Digest(output.manifest) = Digest(m)
      BY <2>1, <2>3
    <3> QED  BY <3>1, DigestIsOf
  <2> DEFINE w == Want(s)
  <2>5. /\ m.provider_id = w.provider_id /\ m.provider_origin = w.provider_origin
        /\ m.model = w.model /\ m.release_digest = w.release_digest /\ m.commit_sha = w.commit_sha
        /\ EvidenceIsCurrent(m, clock)
    <3>1. ProviderManifestValidationError(m, clock, w) = ""
      BY <2>3, <2>4
    <3> HIDE DEF w
    <3>2. ProviderManifestValidationError(m, clock, w) = "" <=>
            /\ m.schema_version = 2 /\ m.result = "pass" /\ ProviderManifestContractComplete(m)
            /\ m.provider_id = w.provider_id /\ m.provider_origin = w.provider_origin
            /\ m.model = w.model /\ m.release_digest = w.release_digest /\ m.commit_sha = w.commit_sha
            /\ EvidenceIsCurrent(m, clock) /\ RequiredChecks \subseteq m.required_checks
      BY NoErrorMeans, Zenon
    <3> QED  BY <3>1, <3>2
  <2>6. /\ m.provider_id = e.AIOPS_LLM_MODE /\ m.provider_origin = e.AIOPS_LLM_BASE_URL.text
        /\ m.model = e.AIOPS_LLM_MODEL
        /\ m.release_digest = Identifier(e.AIOPS_RELEASE_DIGEST) /\ m.commit_sha = Identifier(e.AIOPS_COMMIT_SHA)
    BY <2>1, <2>5 DEF Want
  <2>7. m.release_digest.of = e.AIOPS_RELEASE_DIGEST.of /\ m.commit_sha.of = e.AIOPS_COMMIT_SHA.of
    <3>1. /\ Identifier(e.AIOPS_RELEASE_DIGEST) # Unset /\ Identifier(e.AIOPS_COMMIT_SHA) # Unset
          /\ e.AIOPS_RELEASE_DIGEST # Unset => IsDigest(e.AIOPS_RELEASE_DIGEST)
          /\ e.AIOPS_COMMIT_SHA # Unset =>
               e.AIOPS_COMMIT_SHA = [of |-> e.AIOPS_COMMIT_SHA.of, form |-> e.AIOPS_COMMIT_SHA.form,
                                     length |-> e.AIOPS_COMMIT_SHA.length]
      BY <2>1, <2>3, EnvironmentsAssumption
    <3> QED  BY <2>6, <3>1, SameContent
  <2>8. /\ m.executed_at \in Int /\ m.expires_at \in Int /\ m.policy.reviewed_at \in Int
        /\ m.quota_pricing_evidence.reviewed_at \in Int /\ clock \in Int
        /\ MaxEvidenceValidity \in Int /\ PolicyReviewAge \in Int /\ PricingReviewAge \in Int
    <3>1. clock \in Nat
      BY DEF EvidenceInv, CheckedFirst
    <3>2. {m.executed_at, m.expires_at, m.policy.reviewed_at, m.quota_pricing_evidence.reviewed_at} \subseteq Int
      BY DEF EvidenceInv, PublishedAsIs
    <3>3. MaxEvidenceValidity \in Int /\ PolicyReviewAge \in Int /\ PricingReviewAge \in Int
      BY WindowsAssumption
    <3>4. clock \in Int
      BY <3>1
    <3> QED  BY <3>2, <3>3, <3>4
  <2>9. /\ m.expires_at > clock /\ m.expires_at - m.executed_at <= MaxEvidenceValidity
        /\ m.executed_at - m.policy.reviewed_at <= PolicyReviewAge
        /\ m.executed_at - m.quota_pricing_evidence.reviewed_at <= PricingReviewAge
    BY <2>5 DEF EvidenceIsCurrent, ReviewedWithin
  <2> QED  BY <2>3, <2>4, <2>6, <2>7, <2>8, <2>9, Windows
<1> QED  BY <1>1, ManifestIsEarned, PTL

-------------------------------------------------------------------------------
(* The server accepts what the probe has published *)

\* A server reads the variables of its service as they are, wherever its evidence is.
LEMMA ServiceBootsDeployed ==
  ASSUME NEW e \in Servers \cup {c.env : c \in Cases}, NEW m, NEW now, ServiceBoots(e, now, TRUE)
  PROVE  ServiceBoots(Deployed(e, m), now, TRUE)
<1> DEFINE d == Deployed(e, m)
<1>1. \A f \in {"AIOPS_ENV", "AIOPS_SESSION_SECRET", "AIOPS_BOOTSTRAP_ADMIN_PASSWORD", "AIOPS_SETUP_TOKEN",
                "AIOPS_SETUP_TOKEN_EXPIRES_AT", "AIOPS_TRUSTED_ORIGINS", "AIOPS_COOKIE_SECURE", "AIOPS_TLS_ENABLED",
                "AIOPS_DEBUG_SKIP_PASSWORD_CHANGE"} : d[f] = e[f]
  BY DeployedIs DEF Variables
<1> HIDE DEF d
<1>2. ServiceLoads(d)
  BY <1>1 DEF ServiceBoots, ServiceLoads
<1>3. ASSUME d.AIOPS_ENV = "prod"
      PROVE  SessionIsSafe(d) /\ OriginsAreSafe(d) /\ CookiesAreSafe(d)
             /\ EnrollmentIsShort(d, now) /\ EnrollmentIsOver(d, TRUE)
  BY <1>1, <1>3 DEF ServiceBoots, SessionIsSafe, OriginsAreSafe, CookiesAreSafe, EnrollmentIsShort, EnrollmentIsOver
<1> QED  BY <1>2, <1>3 DEF ServiceBoots, d

LEMMA OneIsOne ==
  ASSUME NEW n, n = 1
  PROVE  n <= 1 /\ n # 0
  OBVIOUS

\* The one key file of an environment that has passed.
LEMMA OneKey ==
  ASSUME NEW e, ProbeSecret(e),
         \A k \in KeyNames : /\ e.keys[k].direct = Unset
                             /\ e.keys[k].file # Unset => e.keys[k].file.kind # "no path"
  PROVE  KeysLoad(e) /\ KeyIsFromFile(e)
<1> DEFINE files == {k \in KeyNames : e.keys[k].file # Unset /\ e.keys[k].file.kind # "no path"}
           sources == {k \in KeyNames : Configured(e.keys[k])}
<1>1. Cardinality(files) = 1 /\ \A k \in files : OwnerOfKey(k) \in {{}, {e.AIOPS_LLM_MODE}}
                                                  /\ ReadSecretFile(e.keys[k].file, TRUE)
  BY DEF ProbeSecret
<1>2. sources = files
  BY DEF Configured
<1>3. \A k \in KeyNames : e.keys[k].file # Unset => k \in files
  OBVIOUS
<1> HIDE DEF files, sources
<1>4. files # {}
  <2>1. Cardinality({}) = 0
    BY FS_EmptySet
  <2>2. Cardinality(files) # 0
    BY <1>1, OneIsOne
  <2> QED  BY <2>1, <2>2
<1>5. \A k \in KeyNames : SecretLoads(e.keys[k], e.AIOPS_ENV = "prod")
  <2> SUFFICES ASSUME NEW k \in KeyNames PROVE SecretLoads(e.keys[k], e.AIOPS_ENV = "prod")
    OBVIOUS
  <2>1. e.keys[k].direct = Unset
    OBVIOUS
  <2>2. e.keys[k].file # Unset => ReadSecretFile(e.keys[k].file, TRUE)
    BY <1>1, <1>3
  <2>3. e.keys[k].file # Unset => ReadSecretFile(e.keys[k].file, e.AIOPS_ENV = "prod")
    BY <2>2 DEF ReadSecretFile
  <2> QED  BY <2>1, <2>3 DEF SecretLoads
<1>6. Cardinality(sources) <= 1
  <2>1. Cardinality(sources) = 1
    BY <1>1, <1>2
  <2> QED  BY <2>1, OneIsOne
<1>7. KeysLoad(e)
  BY <1>1, <1>2, <1>5, <1>6 DEF KeysLoad, sources
<1>8. KeyIsFromFile(e)
  <2>1. PICK k \in KeyNames : e.keys[k].file # Unset
    BY <1>4 DEF files
  <2> QED  BY <2>1 DEF KeyIsFromFile
<1> QED  BY <1>7, <1>8

\* Release and commit in lower case, as the probe demands them, are of the form the server reads.
LEMMA ReleaseLoads ==
  ASSUME NEW d, d = Unset \/ IsDigest(d), d # Unset, DigestPattern(Identifier(d))
  PROVE  DigestLoads(d)
  BY DEF DigestLoads, DigestPattern, Identifier

LEMMA CommitLoadsToo ==
  ASSUME NEW x, x = [of |-> x.of, form |-> x.form, length |-> x.length], x # Unset, CommitPattern(Identifier(x))
  PROVE  CommitLoads(x)
<1>1. CASE x.form = "upper"
  <2>1. [x EXCEPT !.form = "lower"].length = x.length
    OBVIOUS
  <2> QED  BY <1>1, <2>1 DEF CommitLoads, CommitPattern, Identifier
<1>2. CASE x.form # "upper"
  BY <1>2 DEF CommitLoads, CommitPattern, Identifier
<1> QED  BY <1>1, <1>2

\* Nothing that is set is the mark of a variable that is not, or of a file that is not there.
MarksAreApart ==
  /\ Unset # "output"
  /\ \A x, form : Unset # [of |-> x, form |-> form]
  /\ \A x, form, length : Unset # [of |-> x, form |-> form, length |-> length]
  /\ \A m, writable, trusted : NoFile # [manifest |-> m, writable |-> writable, trusted_owner |-> trusted]

\* The environment of a probe that has published is one the server can start in.
LEMMA BootsDeployed ==
  ASSUME EvidenceInv, probe.at = "print", ReadAlike, MarksAreApart,
         NEW e \in Servers, SameProvider(e), ServiceBoots(e, clock, TRUE), NEW m
  PROVE  Boots(Deployed(e, m), clock, TRUE)
<1> DEFINE d == Deployed(e, m)
<1>1. EnvironmentIsFit(env) /\ env \in Servers \cup {c.env : c \in Cases}
  BY DEF EvidenceInv, CheckedFirst, Checked
<1>2. \A f \in {"AIOPS_LLM_MODE", "AIOPS_LLM_ENABLED_PROVIDERS", "AIOPS_LLM_BASE_URL", "AIOPS_LLM_MODEL",
                "AIOPS_RELEASE_DIGEST", "AIOPS_COMMIT_SHA", "keys"} : d[f] = env[f]
  BY DeployedIs DEF SameProvider, Variables
<1>3. ServiceBoots(d, clock, TRUE)
  BY ServiceBootsDeployed
<1>4. d.AIOPS_LLM_EVIDENCE_FILE = "output" /\ d.AIOPS_LLM_EVIDENCE_SHA256 = Digest(m)
  BY DeployedIs
<1> HIDE DEF d
<1>5. EnabledProviders(d) \subseteq LiveProviderIds
  BY <1>1, <1>2 DEF EnabledProviders, EnvironmentIsFit, FeatureFlagIsExclusive
<1>6. KeysLoad(d) /\ KeyIsFromFile(d)
  <2>1. ProbeSecret(d)
    BY <1>1, <1>2 DEF EnvironmentIsFit, ProbeSecret
  <2>2. \A k \in KeyNames : /\ d.keys[k].direct = Unset
                            /\ d.keys[k].file # Unset => d.keys[k].file.kind # "no path"
    BY <1>2 DEF ReadAlike
  <2> QED  BY <2>1, <2>2, OneKey
<1>7. DigestLoads(d.AIOPS_RELEASE_DIGEST) /\ CommitLoads(d.AIOPS_COMMIT_SHA)
  <2>1. d.AIOPS_RELEASE_DIGEST = env.AIOPS_RELEASE_DIGEST /\ d.AIOPS_COMMIT_SHA = env.AIOPS_COMMIT_SHA
    BY <1>2
  <2>2. DigestLoads(env.AIOPS_RELEASE_DIGEST)
    BY <1>1, EnvironmentsAssumption, ReleaseLoads DEF EnvironmentIsFit
  <2>3. CommitLoads(env.AIOPS_COMMIT_SHA)
    BY <1>1, EnvironmentsAssumption, CommitLoadsToo DEF EnvironmentIsFit
  <2> QED  BY <2>1, <2>2, <2>3
<1>8. DigestLoads(d.AIOPS_LLM_EVIDENCE_SHA256)
  BY <1>4 DEF DigestLoads, Digest
<1>9. ProviderIsLive(d)
  BY <1>1, <1>2 DEF ProviderIsLive, EnvironmentIsFit, FeatureFlagIsExclusive
<1>10. EvidenceIsPaired(d)
  BY <1>4 DEF EvidenceIsPaired, MarksAreApart, Digest
<1> QED  BY <1>3, <1>5, <1>6, <1>7, <1>8, <1>9, <1>10 DEF Boots, ModelLoads, d

\* A release or a commit that is set stays set when it is rewritten in lower case.
LEMMA IdentifierIsSet ==
  ASSUME MarksAreApart, NEW x, x # Unset,
         x = Unset \/ IsDigest(x) \/ x = [of |-> x.of, form |-> x.form, length |-> x.length]
  PROVE  Unset # Identifier(x)
<1>1. CASE x.form # "upper"
  BY <1>1 DEF Identifier
<1>2. CASE x.form = "upper"
  <2>1. Identifier(x) = [x EXCEPT !.form = "lower"]
    BY <1>2 DEF Identifier
  <2>2. CASE IsDigest(x)
    <3>1. x = [of |-> x.of, form |-> x.form]
      BY <2>2 DEF IsDigest
    <3>2. [x EXCEPT !.form = "lower"] = [of |-> x.of, form |-> "lower"]
      BY <3>1
    <3> QED  BY <2>1, <3>2 DEF MarksAreApart
  <2>3. CASE x = [of |-> x.of, form |-> x.form, length |-> x.length]
    <3>2. [x EXCEPT !.form = "lower"] = [of |-> x.of, form |-> "lower", length |-> x.length]
      BY <2>3
    <3> QED  BY <2>1, <3>2 DEF MarksAreApart
  <2> QED  BY <2>2, <2>3
<1> QED  BY <1>1, <1>2

\* What is known of a run whose digest is about to be printed: it has passed, and was accepted.
Passed(start) ==
  /\ IInv /\ EvidenceInv /\ probe.at = "print"
  /\ EnvironmentIsFit(env) /\ LoadPolicy(docs, env.AIOPS_LLM_MODE, start)

\* The fields of a manifest, part by part.
LEMMA IdentityOfManifest ==
  ASSUME NEW hours
  PROVE  LET m == Manifest(hours) IN
         /\ m.schema_version = 2 /\ m.result = "pass" /\ m.required_checks = RequiredChecks
         /\ m.runner_identity = env.AIOPS_EVIDENCE_RUNNER_IDENTITY /\ m.evidence_path = "output"
         /\ m.release_digest = Identifier(env.AIOPS_RELEASE_DIGEST) /\ m.commit_sha = Identifier(env.AIOPS_COMMIT_SHA)
         /\ m.provider_id = env.AIOPS_LLM_MODE /\ m.provider_origin = env.AIOPS_LLM_BASE_URL.text
         /\ m.model = [env.AIOPS_LLM_MODEL EXCEPT !.padded = FALSE]
         /\ m.feature_flag = [enabled_provider_id |-> env.AIOPS_LLM_MODE, exclusive |-> TRUE]
         /\ m.account_identifier = Policy.account_identifier /\ m.region = Policy.region
  BY DEF Manifest

LEMMA IdentityIsComplete ==
  ASSUME NEW start, Passed(start), ReadAlike, NEW hours
  PROVE  IdentityComplete(Manifest(hours))
<1> DEFINE m == Manifest(hours)
<1>1. /\ m.runner_identity = env.AIOPS_EVIDENCE_RUNNER_IDENTITY /\ m.evidence_path = "output"
      /\ m.commit_sha = Identifier(env.AIOPS_COMMIT_SHA) /\ m.provider_id = env.AIOPS_LLM_MODE
      /\ m.feature_flag = [enabled_provider_id |-> env.AIOPS_LLM_MODE, exclusive |-> TRUE]
      /\ m.account_identifier = Policy.account_identifier /\ m.region = Policy.region
  BY IdentityOfManifest
<1> HIDE DEF m
<1>2. EnvironmentIsFit(env) /\ env.AIOPS_EVIDENCE_RUNNER_IDENTITY # NotText
  BY EnvironmentsAssumption DEF Passed, EvidenceInv, CheckedFirst
<1>3. IsText(m.provider_id) /\ IsText(m.evidence_path)
  BY <1>1, <1>2 DEF EnvironmentIsFit, LiveProviderIds, IsText, Absent, NotText
<1>4. IsText(m.runner_identity)
  BY <1>1, <1>2 DEF EnvironmentIsFit, IsText, Filled
<1>5. IsText(m.account_identifier) /\ IsText(m.region)
  BY <1>1 DEF Passed, LoadPolicy, SnapshotIsBound, PolicyIsFilled, ReadAlike, IsText, Filled, Policy
<1>6. CommitPattern(m.commit_sha)
  BY <1>1, <1>2 DEF EnvironmentIsFit
<1> QED  BY <1>1, <1>3, <1>4, <1>5, <1>6 DEF IdentityComplete, m

LEMMA DiscoveryIsComplete ==
  ASSUME NEW hours
  PROVE  DiscoveryComplete(Manifest(hours))
<1> DEFINE lists == Profile(env.AIOPS_LLM_MODE).lists_models
           d == [method |-> IF lists THEN "authenticated_models_endpoint" ELSE "authenticated_chat_completion",
                 path |-> IF lists THEN "/models" ELSE "/chat/completions",
                 model_confirmed |-> TRUE, response_sha256 |-> Digest("models")]
<1>1. /\ Manifest(hours).model_discovery = d
      /\ Manifest(hours).provider_capabilities = {"streaming", "tool_calls", "usage_reporting"}
  BY DEF Manifest
<1>2. DigestPattern(Digest("models"))
  BY DEF DigestPattern, Digest
<1>3. /\ d.method \in {"authenticated_models_endpoint", "authenticated_chat_completion"}
      /\ d.path \in {"/models", "/chat/completions"} /\ d.model_confirmed /\ DigestPattern(d.response_sha256)
  BY <1>2
<1> HIDE DEF d
<1> QED  BY <1>1, <1>3 DEF DiscoveryComplete

LEMMA ToolAndStreamIsComplete ==
  ASSUME NEW start, Passed(start), NEW hours
  PROVE  ToolAndStreamComplete(Manifest(hours))
<1> DEFINE s == [json_chunks |-> probe.chunks, done_received |-> TRUE, contract_marker_received |-> probe.marker,
                 usage_reported |-> TRUE, content_type |-> "text/event-stream",
                 normalized_events_sha256 |-> Digest("events")]
<1>1. /\ Manifest(hours).stream = s
      /\ Manifest(hours).tool_call = [name |-> "probe_echo", arguments |-> "r0-live-contract-probe", schema_match |-> TRUE]
  BY DEF Manifest
<1>2. DigestPattern(Digest("events"))
  BY DEF DigestPattern, Digest
<1>3. probe.chunks > 0 /\ probe.marker
  BY DEF Passed, EvidenceInv, AnswersAreValid, After
<1>4. /\ s.done_received /\ s.contract_marker_received /\ s.usage_reported /\ s.content_type = "text/event-stream"
      /\ DigestPattern(s.normalized_events_sha256) /\ s.json_chunks > 0
  BY <1>2, <1>3
<1> HIDE DEF s
<1> QED  BY <1>1, <1>4 DEF ToolAndStreamComplete

LEMMA RetryIsComplete ==
  ASSUME NEW start, Passed(start), NEW hours
  PROVE  RetryComplete(Manifest(hours))
<1> DEFINE t == [connect_timeout_seconds |-> Policy.connect_timeout_seconds,
                 read_timeout_seconds |-> Policy.read_timeout_seconds,
                 max_retries |-> Policy.max_retries, attempts |-> probe.attempts]
           r == [seeded_secret_absent |-> TRUE, replacement_marker_present |-> TRUE, capture_sha256 |-> Digest("capture")]
           i == [unknown_tool_rejected |-> TRUE, extra_field_rejected |-> TRUE]
<1>1. /\ Manifest(hours).timeout_retry = t /\ Manifest(hours).redaction_capture = r
      /\ Manifest(hours).invalid_tool_rejection = i
  BY DEF Manifest
<1>2. DigestPattern(Digest("capture"))
  BY DEF DigestPattern, Digest
<1>3. DOMAIN probe.attempts = Requests /\ \A q \in Requests : probe.attempts[q] > 0
  BY DEF Passed, IInv, TypeOK, Probes, EvidenceInv, AnswersAreValid, After
<1>4. LimitsAreSane(docs)
  BY DEF Passed, LoadPolicy
<1>5. t.connect_timeout_seconds > 0 /\ t.read_timeout_seconds > 0 /\ t.max_retries \in 0..3
  BY <1>4 DEF LimitsAreSane, Policy
<1>6. DOMAIN t.attempts # {} /\ \A q \in DOMAIN t.attempts : t.attempts[q] > 0
  BY <1>3 DEF Requests
<1>7. /\ r.seeded_secret_absent /\ r.replacement_marker_present /\ DigestPattern(r.capture_sha256)
      /\ i.unknown_tool_rejected /\ i.extra_field_rejected
  BY <1>2
<1> HIDE DEF t, r, i
<1> QED  BY <1>1, <1>5, <1>6, <1>7 DEF RetryComplete

\* Nothing costs less than nothing.
LEMMA CostIsNotNegative ==
  ASSUME NEW r \in Prices, NEW i \in Int, NEW c \in Int, NEW o \in Int, c >= 0, i >= c, o >= 0
  PROVE  Cost(r, i, c, o) \in Int /\ Cost(r, i, c, o) >= 0
<1>1. 0 \in Int /\ 0 - 0 <= i - c /\ 0 <= c /\ 0 <= o
  OBVIOUS
<1>2. Cost(r, 0, 0, 0) \in Int /\ Cost(r, i, c, o) \in Int /\ Cost(r, 0, 0, 0) <= Cost(r, i, c, o)
  BY <1>1, CostGrows
<1>3. Cost(r, 0, 0, 0) = 0
  BY SMT DEF Cost, Prices
<1> QED  BY <1>2, <1>3

\* The numbers of a report: all of them are numbers, none is negative, and they add up.
LEMMA NumbersOfReport ==
  ASSUME NEW start, Passed(start)
  PROVE  /\ InputTokens \in Int /\ CachedTokens \in Int /\ OutputTokens \in Int
         /\ 0 <= CachedTokens /\ CachedTokens <= InputTokens /\ 0 <= OutputTokens
         /\ SuccessCost \in Int /\ SuccessCost >= 0 /\ RetryCost \in Int /\ RetryCost >= 0
         /\ PreflightCost(docs) \in Int /\ PreflightCost(docs) >= 0
         /\ InputBound(docs) \in Int /\ InputBound(docs) > 0
<1>1. /\ TypeOK /\ LimitsAreSane(docs) /\ probe.tool \in Usages /\ probe.stream \in Usages
      /\ UsageIsValid(probe.tool) /\ UsageIsValid(probe.stream)
  BY DEF Passed, LoadPolicy, IInv, TypeOK, Probes, EvidenceInv, AnswersAreValid, After
<1>2. /\ Rates \in Prices /\ Policy.max_retries \in Int /\ Policy.max_retries >= 0
      /\ ToolTokens(docs) \in Int /\ ToolTokens(docs) >= 0 /\ StreamTokens(docs) \in Int /\ StreamTokens(docs) >= 0
      /\ ToolBytes \in Int /\ ToolBytes > 0 /\ StreamBytes \in Int /\ StreamBytes > 0
  BY <1>1, PricesAreSane, TokensAreSane, ProbeAssumption
<1>3. /\ InputTokens \in Int /\ CachedTokens \in Int /\ OutputTokens \in Int
      /\ 0 <= CachedTokens /\ CachedTokens <= InputTokens /\ 0 <= OutputTokens
  BY <1>1 DEF Usages, UsageIsValid, InputTokens, CachedTokens, OutputTokens
<1>4. SuccessCost \in Int /\ SuccessCost >= 0
  BY <1>2, <1>3, CostIsNotNegative DEF SuccessCost, Rates
<1>5. PriorAttempts \in Int /\ PriorAttempts >= 0
  <2>1. probe.attempts["tool_call"] \in Int /\ probe.attempts["tool_call"] > 0
    BY DEF Passed, IInv, TypeOK, Probes, EvidenceInv, AnswersAreValid, After, Requests
  <2> QED  BY <2>1 DEF PriorAttempts
<1>6. RetryCost \in Int /\ RetryCost >= 0
  <2>1. /\ ToolBytes * PriorAttempts \in Int /\ ToolBytes * PriorAttempts >= 0
        /\ ToolTokens(docs) * PriorAttempts \in Int /\ ToolTokens(docs) * PriorAttempts >= 0
    BY <1>2, <1>5, Product
  <2> QED  BY <1>2, <2>1, CostIsNotNegative DEF RetryCost, Rates
<1>7. AttemptBudget(docs) \in Int /\ AttemptBudget(docs) >= 0
  BY <1>2 DEF AttemptBudget, Policy
<1>8. /\ ToolBytes * AttemptBudget(docs) \in Int /\ ToolBytes * AttemptBudget(docs) >= 0
      /\ ToolTokens(docs) * AttemptBudget(docs) \in Int /\ ToolTokens(docs) * AttemptBudget(docs) >= 0
  BY <1>2, <1>7, Product
<1>9. InputBound(docs) \in Int /\ InputBound(docs) > 0
  BY <1>2, <1>8 DEF InputBound
<1>10. PreflightCost(docs) \in Int /\ PreflightCost(docs) >= 0
  <2>1. /\ ToolTokens(docs) * AttemptBudget(docs) + StreamTokens(docs) \in Int
        /\ ToolTokens(docs) * AttemptBudget(docs) + StreamTokens(docs) >= 0
    BY <1>2, <1>8
  <2>2. Cost(Rates, InputBound(docs), 0, ToolTokens(docs) * AttemptBudget(docs) + StreamTokens(docs)) \in Int
        /\ Cost(Rates, InputBound(docs), 0, ToolTokens(docs) * AttemptBudget(docs) + StreamTokens(docs)) >= 0
    BY <1>2, <1>9, <2>1, CostIsNotNegative
  <2> QED  BY <2>2 DEF PreflightCost, Rates, Policy
<1> QED  BY <1>3, <1>4, <1>6, <1>9, <1>10

LEMMA UsageIsComplete ==
  ASSUME NEW start, Passed(start), NEW hours
  PROVE  UsageComplete(Manifest(hours))
<1> DEFINE u == UsageCost
<1>1. /\ Manifest(hours).usage_cost = u
      /\ Manifest(hours).timeout_retry.max_retries = Policy.max_retries
  BY DEF Manifest
<1>2. /\ u.input_tokens = InputTokens /\ u.cached_input_tokens = CachedTokens
      /\ u.cache_miss_input_tokens = InputTokens - CachedTokens /\ u.output_tokens = OutputTokens
      /\ u.estimated_cost = SuccessCost + RetryCost /\ u.successful_responses_estimated_cost = SuccessCost
      /\ u.retry_cost_upper_bound = RetryCost /\ u.preflight_worst_case_cost = PreflightCost(docs)
      /\ u.max_input_tokens_per_probe = Policy.max_input_tokens_per_probe
      /\ u.input_payload_byte_upper_bound = InputBound(docs) /\ u.tool_attempt_budget = AttemptBudget(docs)
      /\ u.currency = Policy.currency /\ u.approved_cap = Policy.cost_cap_per_probe
      /\ u.rates_per_million_tokens = Rates
  BY DEF UsageCost, Rates
<1> HIDE DEF u
<1>3. /\ InputTokens \in Int /\ CachedTokens \in Int /\ OutputTokens \in Int
      /\ 0 <= CachedTokens /\ CachedTokens <= InputTokens /\ 0 <= OutputTokens
      /\ SuccessCost \in Int /\ SuccessCost >= 0 /\ RetryCost \in Int /\ RetryCost >= 0
      /\ PreflightCost(docs) \in Int /\ PreflightCost(docs) >= 0
      /\ InputBound(docs) \in Int /\ InputBound(docs) > 0
  BY NumbersOfReport
<1>4. WithinBudget(docs) /\ LimitsAreSane(docs) /\ TypeOK
  BY DEF Passed, LoadPolicy, IInv, BudgetIsChecked
<1>5. Rates \in Prices /\ Policy.cost_cap_per_probe \in Int /\ Policy.cost_cap_per_probe >= 0
  BY <1>4, PricesAreSane DEF LimitsAreSane, Policy
<1>6. InputTokens <= InputBound(docs) /\ SuccessCost + RetryCost <= Policy.cost_cap_per_probe
  BY DEF Passed, EvidenceInv, AnswersAreValid, Reported
<1>7. InputBound(docs) <= Policy.max_input_tokens_per_probe /\ PreflightCost(docs) <= Policy.cost_cap_per_probe
      /\ AttemptBudget(docs) = Policy.max_retries + 1
  BY <1>4 DEF WithinBudget, AttemptBudget, Policy
<1>8. /\ 0 <= u.input_tokens /\ 0 <= u.cached_input_tokens /\ 0 <= u.cache_miss_input_tokens /\ 0 <= u.output_tokens
      /\ 0 <= u.estimated_cost /\ 0 <= u.successful_responses_estimated_cost /\ 0 <= u.retry_cost_upper_bound
      /\ 0 <= u.preflight_worst_case_cost /\ 0 <= u.approved_cap
  BY <1>2, <1>3, <1>5
<1>9. \A f \in {"input_tokens", "output_tokens", "cached_input_tokens", "cache_miss_input_tokens",
                "estimated_cost", "successful_responses_estimated_cost", "retry_cost_upper_bound",
                "approved_cap", "preflight_worst_case_cost"} : u[f] >= 0
  BY <1>8
<1>10. u.cached_input_tokens + u.cache_miss_input_tokens = u.input_tokens
  BY <1>2, <1>3
<1>11. IsText(u.currency)
  BY <1>2 DEF Passed, LoadPolicy, SnapshotIsBound, Policy
<1>12. \A q \in {"cache_hit_input", "cache_miss_input", "output"} : u.rates_per_million_tokens[q] >= 0
  BY <1>2, <1>5 DEF Prices
<1>13. /\ 0 < u.input_payload_byte_upper_bound
       /\ u.input_payload_byte_upper_bound <= u.max_input_tokens_per_probe
       /\ u.tool_attempt_budget = Manifest(hours).timeout_retry.max_retries + 1
       /\ u.input_tokens <= u.input_payload_byte_upper_bound
       /\ u.estimated_cost = u.successful_responses_estimated_cost + u.retry_cost_upper_bound
       /\ u.estimated_cost <= u.approved_cap /\ u.preflight_worst_case_cost <= u.approved_cap
  BY <1>1, <1>2, <1>3, <1>6, <1>7
<1> QED  BY <1>1, <1>9, <1>10, <1>11, <1>12, <1>13 DEF UsageComplete

\* A digest that has the form and one that is compared in lower case are the same.
LEMMA LowerIsKept ==
  ASSUME NEW d, DigestPattern(d)
  PROVE  Lower(d) = d
  BY DEF DigestPattern, Lower

LEMMA QuotaIsComplete ==
  ASSUME NEW start, Passed(start), ReadAlike, NEW hours
  PROVE  QuotaComplete(Manifest(hours)) /\ QuotaPricingComplete(Manifest(hours))
<1> DEFINE q == QuotaPricingEvidence
<1>1. /\ Manifest(hours).quota = Policy.quota /\ Manifest(hours).quota_pricing_evidence = q
      /\ Manifest(hours).usage_cost = UsageCost
  BY DEF Manifest
<1>2. UsageCost.currency = Policy.currency /\ UsageCost.rates_per_million_tokens = Policy.rates
  BY DEF UsageCost
<1>3. /\ q.account_tier = Policy.account_tier /\ q.source_url = Policy.quota_pricing_source_url
      /\ q.source_content_sha256 = docs.snapshot.source_content_sha256
      /\ q.snapshot_sha256 = Policy.quota_pricing_snapshot_sha256
      /\ q.snapshot_schema_version = docs.snapshot.schema_version
      /\ q.reviewed_at = Policy.quota_pricing_reviewed_at /\ q.currency = docs.snapshot.currency
      /\ q.prices_per_million_tokens = docs.snapshot.prices /\ q.quota = docs.snapshot.quota
  BY DEF QuotaPricingEvidence
<1> HIDE DEF q
<1>4. /\ LimitsAreSane(docs) /\ SnapshotIsBound(docs) /\ PricesAreBound(docs) /\ QuotaIsBound(docs)
      /\ SnapshotsMatch(docs) /\ ReviewsAreCurrent(docs, start) /\ ReadAlike
  BY DEF Passed, LoadPolicy
<1>5. DOMAIN Policy.quota = DOMAIN docs.snapshot.quota
      /\ DOMAIN docs.snapshot.quota = {"limits", "balance_alert_threshold"}
  BY <1>4 DEF ReadAlike, QuotaIsBound
<1>6. QuotaComplete(Manifest(hours))
  BY <1>1, <1>4, <1>5 DEF QuotaComplete, LimitsAreSane, Policy
<1>7. IsText(q.account_tier) /\ IsText(q.currency) /\ q.currency = UsageCost.currency /\ q.snapshot_schema_version = 1
  BY <1>2, <1>3, <1>4 DEF SnapshotIsBound, Policy
<1>8. HttpsUrl(q.source_url) /\ DigestPattern(q.snapshot_sha256) /\ DigestPattern(q.source_content_sha256)
  BY <1>3, <1>4 DEF SnapshotsMatch, ReadAlike, Policy
<1>9. \A r \in {"cache_hit_input", "cache_miss_input", "output"} :
        q.prices_per_million_tokens[r] = UsageCost.rates_per_million_tokens[r]
  BY <1>2, <1>3, <1>4 DEF PricesAreBound, Policy
<1>10. DOMAIN q.quota = DOMAIN Policy.quota /\ \A f \in DOMAIN q.quota : q.quota[f] = Policy.quota[f]
  BY <1>3, <1>4, <1>5 DEF QuotaIsBound, Policy
<1>11. q.reviewed_at # NoTime
  BY <1>3, <1>4 DEF ReviewsAreCurrent, ReviewedWithin, Policy
<1> QED  BY <1>1, <1>6, <1>7, <1>8, <1>9, <1>10, <1>11 DEF QuotaPricingComplete

LEMMA PolicyIsComplete ==
  ASSUME NEW start, Passed(start), ReadAlike, NEW hours
  PROVE  PolicyComplete(Manifest(hours))
<1> DEFINE p == PolicyEvidence
           a == Policy.owner_approvals
<1>1. Manifest(hours).policy = p /\ Manifest(hours).quota_pricing_evidence = QuotaPricingEvidence
  BY DEF Manifest
<1>2. /\ QuotaPricingEvidence.snapshot_sha256 = Policy.quota_pricing_snapshot_sha256
      /\ QuotaPricingEvidence.reviewed_at = Policy.quota_pricing_reviewed_at
  BY DEF QuotaPricingEvidence
<1>3. /\ p.training_opt_out_confirmed /\ p.redacted_operational_data_only
      /\ p.ai_owner = Policy.ai_owner /\ p.security_owner = Policy.security_owner
      /\ p.privacy_owner = Policy.privacy_owner /\ p.owner_approvals = a
      /\ p.provider_policy_url = Policy.provider_policy_url /\ p.provider_policy_sha256 = Digest(docs.page)
      /\ p.reviewed_at = Policy.reviewed_at
  BY DEF PolicyEvidence
<1> HIDE DEF p
<1>4. /\ PolicyIsFilled(docs, env.AIOPS_LLM_MODE) /\ ReviewsAreCurrent(docs, start)
      /\ SnapshotsMatch(docs) /\ ApprovalsAreBound(docs, start) /\ ReadAlike
  BY DEF Passed, LoadPolicy
<1>5. DigestPattern(p.provider_policy_sha256)
  BY <1>3 DEF DigestPattern, Digest
<1>6. HttpsUrl(p.provider_policy_url)
  BY <1>3 DEF Passed, EvidenceInv, CheckedFirst
<1>7. p.reviewed_at # NoTime
  BY <1>3, <1>4 DEF ReviewsAreCurrent, ReviewedWithin, Policy
<1>8. \A r \in Roles : p[OwnerOf[r]] = Policy[OwnerOf[r]]
  BY <1>3 DEF Roles, OwnerOf
<1>9. \A r \in Roles :
        /\ r \in DOMAIN a /\ a[r].approved /\ a[r].role = r /\ Filled(a[r].approver_identity)
        /\ Policy[OwnerOf[r]] # NotText /\ a[r].approver_identity = Policy[OwnerOf[r]]
        /\ a[r].approved_at >= Later(Policy.reviewed_at, Policy.quota_pricing_reviewed_at)
        /\ Lower(a[r].provider_policy_sha256) = Digest(docs.page)
        /\ Lower(a[r].quota_pricing_snapshot_sha256) = Digest(docs.snapshot.bytes)
        /\ \A s \in Roles \ {r} : Casefold(a[s].approver_identity) # Casefold(a[r].approver_identity)
  BY <1>4 DEF ApprovalsAreBound, ApprovalsAreGiven, Policy
<1>10. \A r \in Roles : IsText(p[OwnerOf[r]])
  BY <1>8, <1>9 DEF IsText, Filled
<1>11. \A r \in Roles : a[r].provider_policy_sha256 = Digest(docs.page)
                        /\ a[r].quota_pricing_snapshot_sha256 = Policy.quota_pricing_snapshot_sha256
  <2>1. \A r \in Roles : DigestPattern(a[r].provider_policy_sha256) /\ DigestPattern(a[r].quota_pricing_snapshot_sha256)
    BY <1>4 DEF ReadAlike
  <2>2. /\ DigestPattern(Policy.quota_pricing_snapshot_sha256)
        /\ Lower(Policy.quota_pricing_snapshot_sha256) = Digest(docs.snapshot.bytes)
    BY <1>4 DEF ReadAlike, SnapshotsMatch, Policy
  <2> QED  BY <1>9, <2>1, <2>2, LowerIsKept
<1> HIDE DEF a
<1>12. \A r \in Roles : ApprovalComplete(Manifest(hours), r)
  BY <1>1, <1>2, <1>3, <1>8, <1>9, <1>11 DEF ApprovalComplete
<1>13. DistinctApprovers(Manifest(hours))
  BY <1>1, <1>3, <1>9 DEF DistinctApprovers
<1> QED  BY <1>1, <1>3, <1>5, <1>6, <1>7, <1>10, <1>12, <1>13 DEF PolicyComplete

LEMMA RolesAreThree == Cardinality(Roles) = 3
<1>1. IsFiniteSet({"ai"}) /\ Cardinality({"ai"}) = 1
  BY FS_Singleton
<1>2. IsFiniteSet({"ai"} \cup {"security"}) /\ Cardinality({"ai"} \cup {"security"}) = 2
  BY <1>1, FS_AddElement
<1>3. Cardinality(({"ai"} \cup {"security"}) \cup {"privacy"}) = 3
  BY <1>2, FS_AddElement
<1>4. Roles = ({"ai"} \cup {"security"}) \cup {"privacy"}
  BY DEF Roles
<1> QED  BY <1>3, <1>4

\* What was not from the future when the run started is not when it ends.
LEMMA NoLater ==
  ASSUME NEW t \in Int, NEW start \in Int, NEW executed \in Int, t <= start + Skew, start <= executed
  PROVE  t <= executed + Skew
  BY WindowsAssumption

\* The manifest is current when it is printed, unless a review has become too old since the start.
LEMMA ManifestIsCurrent ==
  ASSUME NEW start \in Int, Passed(start), ReadAlike, start <= probe.executed_at, NEW hours \in 1..MaxEvidenceValidity,
         clock < probe.executed_at + hours,
         probe.executed_at - Policy.reviewed_at <= PolicyReviewAge,
         probe.executed_at - Policy.quota_pricing_reviewed_at <= PricingReviewAge
  PROVE  EvidenceIsCurrent(Manifest(hours), clock)
<1> DEFINE m == Manifest(hours)  x == probe.executed_at  a == Policy.owner_approvals
<1>1. /\ m.executed_at = x /\ m.expires_at = x + hours /\ m.policy.reviewed_at = Policy.reviewed_at
      /\ m.quota_pricing_evidence.reviewed_at = Policy.quota_pricing_reviewed_at
  BY ManifestTimes
<1>2. m.policy.owner_approvals = a
  <2>1. Manifest(hours).policy = PolicyEvidence
    BY DEF Manifest
  <2>2. PolicyEvidence.owner_approvals = a
    BY DEF PolicyEvidence
  <2> QED  BY <2>1, <2>2
<1>3. x \in Nat /\ clock \in Nat /\ x <= clock
  BY DEF Passed, EvidenceInv, CheckedFirst, Reported
<1>4. hours \in Int /\ 1 <= hours /\ hours <= MaxEvidenceValidity /\ Skew \in Nat /\ MaxEvidenceValidity \in Nat
  BY WindowsAssumption
<1>5. PICK c \in Cases : docs = c.docs
  BY DEF Passed, EvidenceInv, CheckedFirst
<1>6. /\ Policy.reviewed_at \in Int /\ Policy.quota_pricing_reviewed_at \in Int
      /\ \A r \in DOMAIN a : a[r].approved_at \in Int
  BY <1>5, InputsAssumption DEF Policy
<1>7. ReviewsAreCurrent(docs, start) /\ ApprovalsAreGiven(docs, start) /\ DOMAIN a = Roles
  BY DEF Passed, LoadPolicy, ApprovalsAreBound, ReadAlike
<1>8. /\ Policy.reviewed_at # NoTime /\ Policy.reviewed_at <= start + Skew
      /\ Policy.quota_pricing_reviewed_at # NoTime /\ Policy.quota_pricing_reviewed_at <= start + Skew
  BY <1>7 DEF ReviewsAreCurrent, ReviewedWithin, Policy
<1>9. \A r \in Roles : a[r].approved_at # NoTime /\ a[r].approved_at <= start + Skew
  BY <1>7 DEF ApprovalsAreGiven, Policy
<1>10. ReviewedWithin(Policy.reviewed_at, x, PolicyReviewAge)
       /\ ReviewedWithin(Policy.quota_pricing_reviewed_at, x, PricingReviewAge)
  BY <1>3, <1>6, <1>8, NoLater DEF ReviewedWithin
<1>11. \A t \in {a[r].approved_at : r \in DOMAIN a} : t # NoTime /\ t <= x + Skew
  BY <1>3, <1>6, <1>7, <1>9, NoLater
<1>12. Cardinality(DOMAIN a) = 3
  BY <1>7, RolesAreThree
<1>13. /\ x # NoTime /\ x <= clock + Skew /\ x + hours # NoTime /\ x + hours > clock /\ x + hours > x
       /\ x + hours - x <= MaxEvidenceValidity
  BY <1>3, <1>4 DEF NoTime
<1> HIDE DEF a, x, m
<1>14. /\ m.executed_at # NoTime /\ m.executed_at <= clock + Skew
       /\ m.expires_at # NoTime /\ m.expires_at > clock
       /\ m.expires_at > m.executed_at /\ m.expires_at - m.executed_at <= MaxEvidenceValidity
  BY <1>1, <1>3, <1>4, <1>13
<1>15. /\ ReviewedWithin(m.quota_pricing_evidence.reviewed_at, m.executed_at, PricingReviewAge)
       /\ ReviewedWithin(m.policy.reviewed_at, m.executed_at, PolicyReviewAge)
  BY <1>1, <1>10
<1>16. /\ Cardinality(DOMAIN m.policy.owner_approvals) = 3
       /\ \A t \in {m.policy.owner_approvals[r].approved_at : r \in DOMAIN m.policy.owner_approvals} :
            t # NoTime /\ t <= m.executed_at + Skew
  BY <1>1, <1>2, <1>11, <1>12
<1>17. EvidenceIsCurrent(m, clock)
  BY <1>14, <1>15, <1>16 DEF EvidenceIsCurrent
<1> QED  BY <1>17 DEF m

\* A server with the settings of the probe finds nothing wrong.
LEMMA NothingIsWrong ==
  ASSUME NEW start \in Int, Passed(start), ReadAlike, start <= probe.executed_at, NEW hours \in 1..MaxEvidenceValidity,
         clock < probe.executed_at + hours,
         probe.executed_at - Policy.reviewed_at <= PolicyReviewAge,
         probe.executed_at - Policy.quota_pricing_reviewed_at <= PricingReviewAge,
         NEW want, want.provider_id = env.AIOPS_LLM_MODE, want.provider_origin = env.AIOPS_LLM_BASE_URL.text,
         want.model = env.AIOPS_LLM_MODEL, want.release_digest = Identifier(env.AIOPS_RELEASE_DIGEST),
         want.commit_sha = Identifier(env.AIOPS_COMMIT_SHA)
  PROVE  ProviderManifestValidationError(Manifest(hours), clock, want) = ""
<1> DEFINE m == Manifest(hours)
<1>1. ProviderManifestContractComplete(m)
  BY IdentityIsComplete, DiscoveryIsComplete, ToolAndStreamIsComplete, RetryIsComplete, UsageIsComplete,
     QuotaIsComplete, PolicyIsComplete DEF ProviderManifestContractComplete
<1>2. EvidenceIsCurrent(m, clock)
  BY ManifestIsCurrent
<1>3. /\ m.schema_version = 2 /\ m.result = "pass" /\ m.required_checks = RequiredChecks
      /\ m.provider_id = want.provider_id /\ m.provider_origin = want.provider_origin
      /\ m.model = [env.AIOPS_LLM_MODEL EXCEPT !.padded = FALSE]
      /\ m.release_digest = want.release_digest /\ m.commit_sha = want.commit_sha
  BY IdentityOfManifest
<1>4. [env.AIOPS_LLM_MODEL EXCEPT !.padded = FALSE] = env.AIOPS_LLM_MODEL
  <2>1. env.AIOPS_LLM_MODEL \in [text : STRING, padded : BOOLEAN] /\ ~env.AIOPS_LLM_MODEL.padded
    BY EnvironmentsAssumption DEF Passed, EvidenceInv, CheckedFirst, ReadAlike
  <2> QED  BY <2>1
<1> HIDE DEF m
<1>5. ProviderManifestValidationError(m, clock, want) = "" <=>
        /\ m.schema_version = 2 /\ m.result = "pass" /\ ProviderManifestContractComplete(m)
        /\ m.provider_id = want.provider_id /\ m.provider_origin = want.provider_origin
        /\ m.model = want.model /\ m.release_digest = want.release_digest /\ m.commit_sha = want.commit_sha
        /\ EvidenceIsCurrent(m, clock) /\ RequiredChecks \subseteq m.required_checks
  BY NoErrorMeans, Zenon
<1>6. m.model = want.model /\ RequiredChecks \subseteq m.required_checks
  BY <1>3, <1>4
<1>7. ProviderManifestValidationError(m, clock, want) = ""
  BY <1>1, <1>2, <1>3, <1>5, <1>6
<1> QED  BY <1>7 DEF m

\* The two programs agree on what evidence is: a server that boots in the environment a probe has
\* passed in verifies the manifest it has just published (_load_policy and run_probe on one side,
\* provider_manifest_validation_error on the other), whatever the files and the answers are.
THEOREM PassedProbeIsAcceptedHolds ==
  ASSUME MarksAreApart
  PROVE  Spec => []PassedProbeIsAccepted
<1>1. IInv /\ EvidenceInv => PassedProbeIsAccepted
  <2> SUFFICES ASSUME IInv, EvidenceInv, probe.at = "print", ReadAlike, output.trusted_owner,
                      clock < output.manifest.expires_at,
                      probe.executed_at - Policy.reviewed_at <= PolicyReviewAge,
                      probe.executed_at - Policy.quota_pricing_reviewed_at <= PricingReviewAge,
                      NEW e \in Servers, SameProvider(e), ServiceBoots(e, clock, TRUE)
               PROVE  Verified(e, output.manifest)
    BY DEF PassedProbeIsAccepted
  <2> DEFINE s == Settings(Deployed(e, output.manifest))
  <2>1. PICK hours \in 1..MaxEvidenceValidity, trusted \in BOOLEAN : output = Output(hours, trusted)
    BY DEF EvidenceInv, PublishedAsIs
  <2>2. output.manifest = Manifest(hours) /\ ~output.writable /\ output # NoFile
    BY <2>1 DEF Output, MarksAreApart
  <2>3. PICK start \in 0..probe.executed_at : LoadPolicy(docs, env.AIOPS_LLM_MODE, start)
    BY DEF EvidenceInv, CheckedFirst, Reported, Checked
  <2>4. Passed(start) /\ EnvironmentIsFit(env)
    BY <2>3 DEF Passed, EvidenceInv, CheckedFirst, Reported, Checked
  <2>5. start \in Int /\ start <= probe.executed_at
    BY <2>3 DEF EvidenceInv, CheckedFirst, Reported
  <2>6. clock < probe.executed_at + hours
    BY <2>2, ManifestTimes
  <2>7. /\ s.is_production = (e.AIOPS_ENV = "prod")
        /\ s.release_digest = Identifier(env.AIOPS_RELEASE_DIGEST) /\ s.commit_sha = Identifier(env.AIOPS_COMMIT_SHA)
        /\ s.llm_mode = env.AIOPS_LLM_MODE /\ s.llm_base_url = env.AIOPS_LLM_BASE_URL.text
        /\ s.llm_model = env.AIOPS_LLM_MODEL /\ s.llm_enabled_providers = EnabledProviders(e)
        /\ s.llm_evidence_file = "output" /\ s.llm_evidence_sha256 = Digest(output.manifest)
    BY SettingsAre DEF SameProvider
  <2> HIDE DEF s
  <2>8. env.AIOPS_LLM_MODE \in EnabledProviders(e)
    BY <2>4 DEF SameProvider, EnabledProviders, EnvironmentIsFit, FeatureFlagIsExclusive
  <2>9. Unset \notin {s.release_digest, s.commit_sha, s.llm_evidence_file, s.llm_evidence_sha256}
    <3>1. /\ env.AIOPS_RELEASE_DIGEST # Unset /\ env.AIOPS_COMMIT_SHA # Unset
          /\ env.AIOPS_RELEASE_DIGEST = Unset \/ IsDigest(env.AIOPS_RELEASE_DIGEST)
          /\ LET x == env.AIOPS_COMMIT_SHA IN x = Unset \/ x = [of |-> x.of, form |-> x.form, length |-> x.length]
      BY <2>4, EnvironmentsAssumption DEF EnvironmentIsFit, EvidenceInv, CheckedFirst
    <3>2. Unset # Identifier(env.AIOPS_RELEASE_DIGEST) /\ Unset # Identifier(env.AIOPS_COMMIT_SHA)
      BY <3>1, IdentifierIsSet
    <3>3. Unset # Digest(output.manifest) /\ Unset # "output"
      BY DEF Digest, MarksAreApart
    <3> QED  BY <2>7, <3>2, <3>3
  <2>10. ProviderManifestValidationError(output.manifest, clock, Want(s)) = ""
    <3> DEFINE w == Want(s)
    <3>1. /\ w.provider_id = env.AIOPS_LLM_MODE /\ w.provider_origin = env.AIOPS_LLM_BASE_URL.text
          /\ w.model = env.AIOPS_LLM_MODEL /\ w.release_digest = Identifier(env.AIOPS_RELEASE_DIGEST)
          /\ w.commit_sha = Identifier(env.AIOPS_COMMIT_SHA)
      BY <2>7 DEF Want
    <3> HIDE DEF w
    <3>2. ProviderManifestValidationError(Manifest(hours), clock, w) = ""
      BY <2>4, <2>5, <2>6, <3>1, NothingIsWrong
    <3> QED  BY <2>2, <3>2 DEF w
  <2>11. output.manifest.feature_flag.enabled_provider_id \in s.llm_enabled_providers
    <3>1. Manifest(hours).feature_flag = [enabled_provider_id |-> env.AIOPS_LLM_MODE, exclusive |-> TRUE]
      BY IdentityOfManifest
    <3>2. output.manifest.feature_flag.enabled_provider_id = env.AIOPS_LLM_MODE
      BY <2>2, <3>1
    <3> QED  BY <2>7, <2>8, <3>2
  <2>12. ValidateProviderEvidence(s, clock)
    BY <2>2, <2>7, <2>9, <2>10, <2>11 DEF ValidateProviderEvidence
  <2>13. Boots(Deployed(e, output.manifest), clock, TRUE)
    BY BootsDeployed
  <2> QED  BY <2>12, <2>13 DEF Verified, s
<1> QED  BY <1>1, SpendFollowsPhases, ManifestIsEarned, PTL

-------------------------------------------------------------------------------
(* A claim made false is noticed *)

\* What a server in the environment of the probe demands of a manifest, as far as edits can fail it.
Demanded(n) ==
  /\ n.schema_version = 2 /\ n.result = "pass" /\ ProviderManifestContractComplete(n)
  /\ n.provider_origin = env.AIOPS_LLM_BASE_URL.text /\ n.model = env.AIOPS_LLM_MODEL
  /\ n.release_digest = Identifier(env.AIOPS_RELEASE_DIGEST)
  /\ EvidenceIsCurrent(n, clock) /\ RequiredChecks \subseteq n.required_checks

\* A manifest without an error is what is demanded, whatever else it says.
LEMMA WhatIsDemanded ==
  ASSUME EvidenceInv, NEW n, ProviderManifestValidationError(n, clock, Want(Settings(Deployed(env, n)))) = ""
  PROVE  Demanded(n)
<1> DEFINE s == Settings(Deployed(env, n))  w == Want(s)
<1>1. env \in Servers \cup {c.env : c \in Cases}
  BY DEF EvidenceInv, CheckedFirst
<1>2. /\ s.release_digest = Identifier(env.AIOPS_RELEASE_DIGEST) /\ s.llm_base_url = env.AIOPS_LLM_BASE_URL.text
      /\ s.llm_model = env.AIOPS_LLM_MODEL
  BY <1>1, SettingsAre
<1> HIDE DEF s
<1>3. /\ w.provider_origin = env.AIOPS_LLM_BASE_URL.text /\ w.model = env.AIOPS_LLM_MODEL
      /\ w.release_digest = Identifier(env.AIOPS_RELEASE_DIGEST)
  BY <1>2 DEF Want
<1>4. ProviderManifestValidationError(n, clock, w) = ""
  BY DEF s
<1> HIDE DEF w
<1>5. ProviderManifestValidationError(n, clock, w) = "" <=>
        /\ n.schema_version = 2 /\ n.result = "pass" /\ ProviderManifestContractComplete(n)
        /\ n.provider_id = w.provider_id /\ n.provider_origin = w.provider_origin
        /\ n.model = w.model /\ n.release_digest = w.release_digest /\ n.commit_sha = w.commit_sha
        /\ EvidenceIsCurrent(n, clock) /\ RequiredChecks \subseteq n.required_checks
  BY NoErrorMeans, Zenon
<1> QED  BY <1>3, <1>4, <1>5 DEF Demanded

\* A record in which one field is written.
LEMMA OneField ==
  ASSUME NEW m, m = [x \in DOMAIN m |-> m[x]], NEW f \in DOMAIN m, NEW v, NEW n, n = [m EXCEPT ![f] = v]
  PROVE  /\ n[f] = v /\ (\A g \in DOMAIN m : g # f => n[g] = m[g])
         /\ (v = m[f] => n = m)
         /\ n = [x \in DOMAIN n |-> n[x]] /\ DOMAIN n = DOMAIN m
  OBVIOUS

\* The fields of a manifest.
Fields ==
  {"schema_version", "result", "executed_at", "expires_at", "runner_identity", "evidence_path", "release_digest",
   "commit_sha", "provider_id", "feature_flag", "provider_origin", "model", "provider_capabilities",
   "account_identifier", "region", "model_discovery", "tool_call", "invalid_tool_rejection", "stream",
   "timeout_retry", "redaction_capture", "usage_cost", "quota", "quota_pricing_evidence", "policy", "required_checks"}

LEMMA ManifestIsRecord ==
  ASSUME NEW hours
  PROVE  LET m == Manifest(hours) IN m = [x \in DOMAIN m |-> m[x]] /\ DOMAIN m = Fields
<1> DEFINE lists    == Profile(env.AIOPS_LLM_MODE).lists_models
           flag     == [enabled_provider_id |-> env.AIOPS_LLM_MODE, exclusive |-> TRUE]
           known    == [env.AIOPS_LLM_MODEL EXCEPT !.padded = FALSE]
           able     == {"streaming", "tool_calls", "usage_reporting"}
           found    == [method |-> IF lists THEN "authenticated_models_endpoint" ELSE "authenticated_chat_completion",
                        path |-> IF lists THEN "/models" ELSE "/chat/completions",
                        model_confirmed |-> TRUE, response_sha256 |-> Digest("models")]
           called   == [name |-> "probe_echo", arguments |-> "r0-live-contract-probe", schema_match |-> TRUE]
           refused  == [unknown_tool_rejected |-> TRUE, extra_field_rejected |-> TRUE]
           streamed == [json_chunks |-> probe.chunks, done_received |-> TRUE, contract_marker_received |-> probe.marker,
                        usage_reported |-> TRUE, content_type |-> "text/event-stream",
                        normalized_events_sha256 |-> Digest("events")]
           tried    == [connect_timeout_seconds |-> Policy.connect_timeout_seconds,
                        read_timeout_seconds |-> Policy.read_timeout_seconds,
                        max_retries |-> Policy.max_retries, attempts |-> probe.attempts]
           captured == [seeded_secret_absent |-> TRUE, replacement_marker_present |-> TRUE,
                        capture_sha256 |-> Digest("capture")]
           expires  == probe.executed_at + hours
           release  == Identifier(env.AIOPS_RELEASE_DIGEST)
           commit   == Identifier(env.AIOPS_COMMIT_SHA)
           r == [schema_version |-> 2, result |-> "pass", executed_at |-> probe.executed_at, expires_at |-> expires,
                 runner_identity |-> env.AIOPS_EVIDENCE_RUNNER_IDENTITY, evidence_path |-> "output",
                 release_digest |-> release, commit_sha |-> commit, provider_id |-> env.AIOPS_LLM_MODE,
                 feature_flag |-> flag, provider_origin |-> env.AIOPS_LLM_BASE_URL.text, model |-> known,
                 provider_capabilities |-> able, account_identifier |-> Policy.account_identifier,
                 region |-> Policy.region, model_discovery |-> found, tool_call |-> called,
                 invalid_tool_rejection |-> refused, stream |-> streamed, timeout_retry |-> tried,
                 redaction_capture |-> captured, usage_cost |-> UsageCost, quota |-> Policy.quota,
                 quota_pricing_evidence |-> QuotaPricingEvidence, policy |-> PolicyEvidence,
                 required_checks |-> RequiredChecks]
<1>1. Manifest(hours) = r
  BY Zenon DEF Manifest
<1> HIDE DEF flag, known, able, found, called, refused, streamed, tried, captured, expires, release, commit
<1>2. DOMAIN r = Fields
  BY DEF Fields
<1>3. r = [x \in DOMAIN r |-> r[x]]
  BY <1>2 DEF Fields
<1> HIDE DEF r
<1> QED  BY <1>1, <1>2, <1>3

\* The fields of the parts that do not depend on the files.
LEMMA RunOfManifest ==
  ASSUME NEW hours
  PROVE  LET m == Manifest(hours) IN
         /\ DOMAIN m.feature_flag = {"enabled_provider_id", "exclusive"}
         /\ DOMAIN m.model_discovery = {"method", "path", "model_confirmed", "response_sha256"}
         /\ DOMAIN m.tool_call = {"name", "arguments", "schema_match"}
         /\ {"json_chunks", "done_received", "contract_marker_received", "content_type"} \subseteq DOMAIN m.stream
         /\ "extra_field_rejected" \in DOMAIN m.invalid_tool_rejection
         /\ "seeded_secret_absent" \in DOMAIN m.redaction_capture
  BY DEF Manifest

\* Every edit of what the run has found is one the server demands otherwise.
LEMMA RunEditsAreNoticed ==
  ASSUME NEW hours, NEW n \in RunEdits(Manifest(hours)), Demanded(n)
  PROVE  FALSE
<1> DEFINE m == Manifest(hours)
<1>1. /\ DOMAIN m = Fields
      /\ DOMAIN m.model_discovery = {"method", "path", "model_confirmed", "response_sha256"}
      /\ DOMAIN m.tool_call = {"name", "arguments", "schema_match"}
      /\ {"json_chunks", "done_received", "contract_marker_received", "content_type"} \subseteq DOMAIN m.stream
      /\ "extra_field_rejected" \in DOMAIN m.invalid_tool_rejection
      /\ "seeded_secret_absent" \in DOMAIN m.redaction_capture
  BY ManifestIsRecord, RunOfManifest
<1>2. DiscoveryComplete(n) /\ ToolAndStreamComplete(n) /\ RetryComplete(n)
  BY DEF Demanded, ProviderManifestContractComplete
<1>3. n \in RunEdits(m)
  OBVIOUS
<1> HIDE DEF m
<1>4. CASE n = [m EXCEPT !.model_discovery.method = "unauthenticated"]
  BY <1>1, <1>2, <1>4 DEF DiscoveryComplete, Fields
<1>5. CASE n = [m EXCEPT !.model_discovery.model_confirmed = FALSE]
  BY <1>1, <1>2, <1>5 DEF DiscoveryComplete, Fields
<1>6. CASE n = [m EXCEPT !.model_discovery.response_sha256 = Malformed]
  BY <1>1, <1>2, <1>6 DEF DiscoveryComplete, Fields, Malformed, DigestPattern
<1>7. CASE n = [m EXCEPT !.tool_call.schema_match = FALSE]
  BY <1>1, <1>2, <1>7 DEF ToolAndStreamComplete, Fields
<1>8. CASE n = [m EXCEPT !.tool_call.name = "other"]
  BY <1>1, <1>2, <1>8 DEF ToolAndStreamComplete, Fields
<1>9. CASE n = [m EXCEPT !.stream.done_received = FALSE]
  BY <1>1, <1>2, <1>9 DEF ToolAndStreamComplete, Fields
<1>10. CASE n = [m EXCEPT !.stream.contract_marker_received = FALSE]
  BY <1>1, <1>2, <1>10 DEF ToolAndStreamComplete, Fields
<1>11. CASE n = [m EXCEPT !.stream.content_type = "text/html"]
  BY <1>1, <1>2, <1>11 DEF ToolAndStreamComplete, Fields
<1>12. CASE n = [m EXCEPT !.stream.json_chunks = 0]
  BY <1>1, <1>2, <1>12 DEF ToolAndStreamComplete, Fields
<1>13. CASE n = [m EXCEPT !.invalid_tool_rejection.extra_field_rejected = FALSE]
  BY <1>1, <1>2, <1>13 DEF RetryComplete, Fields
<1>14. CASE n = [m EXCEPT !.redaction_capture.seeded_secret_absent = FALSE]
  BY <1>1, <1>2, <1>14 DEF RetryComplete, Fields
<1> QED
  BY <1>3, <1>4, <1>5, <1>6, <1>7, <1>8, <1>9, <1>10, <1>11, <1>12, <1>13, <1>14 DEF RunEdits

LEMMA IdentityEditsAreNoticed ==
  ASSUME EvidenceInv, probe.at # "idle", NEW hours, NEW n \in IdentityEdits(Manifest(hours)),
         n # Manifest(hours), Demanded(n)
  PROVE  FALSE
<1> DEFINE m == Manifest(hours)
<1>1. /\ m = [x \in DOMAIN m |-> m[x]] /\ DOMAIN m = Fields
      /\ DOMAIN m.feature_flag = {"enabled_provider_id", "exclusive"}
  BY ManifestIsRecord, RunOfManifest
<1>2. IdentityComplete(n) /\ DiscoveryComplete(n) /\ EvidenceIsCurrent(n, clock) /\ Demanded(n)
  BY DEF Demanded, ProviderManifestContractComplete
<1>3. n \in IdentityEdits(m) /\ n # m
  OBVIOUS
<1>4. /\ m.provider_id = env.AIOPS_LLM_MODE /\ m.provider_origin = env.AIOPS_LLM_BASE_URL.text
      /\ m.model = [env.AIOPS_LLM_MODEL EXCEPT !.padded = FALSE]
      /\ m.release_digest = Identifier(env.AIOPS_RELEASE_DIGEST) /\ m.commit_sha = Identifier(env.AIOPS_COMMIT_SHA)
  BY IdentityOfManifest
<1>5. EnvironmentIsFit(env) /\ env.AIOPS_LLM_MODEL \in [text : STRING, padded : BOOLEAN]
      /\ (env.AIOPS_RELEASE_DIGEST = Unset \/ IsDigest(env.AIOPS_RELEASE_DIGEST))
      /\ LET c == env.AIOPS_COMMIT_SHA IN c = Unset \/ c = [of |-> c.of, form |-> c.form, length |-> c.length]
  BY EnvironmentsAssumption DEF EvidenceInv, CheckedFirst, Checked
<1> HIDE DEF m
<1>6. CASE n = [m EXCEPT !.schema_version = 1]
  BY <1>1, <1>2, <1>6 DEF Demanded, Fields
<1>7. CASE n = [m EXCEPT !.result = "fail"]
  BY <1>1, <1>2, <1>7 DEF Demanded, Fields
<1>8. CASE n = [m EXCEPT !.runner_identity = Absent]
  BY <1>1, <1>2, <1>8 DEF IdentityComplete, IsText, Fields
<1>9. CASE n = [m EXCEPT !.evidence_path = Absent]
  BY <1>1, <1>2, <1>9 DEF IdentityComplete, IsText, Fields
<1>10. CASE n = [m EXCEPT !.account_identifier = NotText]
  BY <1>1, <1>2, <1>10 DEF IdentityComplete, IsText, Fields
<1>11. CASE n = [m EXCEPT !.region = Absent]
  BY <1>1, <1>2, <1>11 DEF IdentityComplete, IsText, Fields
<1>12. CASE n = [m EXCEPT !.feature_flag.enabled_provider_id = "other"]
  <2>1. n.feature_flag.enabled_provider_id = "other" /\ n.provider_id = m.provider_id
    BY <1>1, <1>12 DEF Fields
  <2>2. m.provider_id # "other"
    BY <1>4, <1>5 DEF EnvironmentIsFit, LiveProviderIds
  <2> QED  BY <1>2, <2>1, <2>2 DEF IdentityComplete
<1>13. CASE n = [m EXCEPT !.feature_flag.exclusive = FALSE]
  BY <1>1, <1>2, <1>13 DEF IdentityComplete, Fields
<1>14. CASE n = [m EXCEPT !.commit_sha.length = 12]
  <2>1. "length" \in DOMAIN m.commit_sha
    <3>1. env.AIOPS_COMMIT_SHA = [of |-> env.AIOPS_COMMIT_SHA.of, form |-> env.AIOPS_COMMIT_SHA.form,
                                  length |-> env.AIOPS_COMMIT_SHA.length]
      BY <1>5 DEF EnvironmentIsFit
    <3>2. DOMAIN Identifier(env.AIOPS_COMMIT_SHA) = DOMAIN env.AIOPS_COMMIT_SHA
      BY DEF Identifier
    <3> QED  BY <1>4, <3>1, <3>2
  <2>2. n.commit_sha.length = 12
    BY <1>1, <1>14, <2>1 DEF Fields
  <2> QED  BY <1>2, <2>2 DEF IdentityComplete, CommitPattern
<1>15. CASE n = [m EXCEPT !.provider_origin = "https://other"]
  <2>1. n.provider_origin = "https://other" /\ n.provider_origin = m.provider_origin
    BY <1>1, <1>2, <1>4, <1>15 DEF Demanded, Fields
  <2> QED  BY <1>1, <1>3, <1>15, <2>1, OneField DEF Fields
<1>16. CASE n = [m EXCEPT !.model.text = "other"]
  <2> DEFINE e == env.AIOPS_LLM_MODEL
  <2>1. n.model = e /\ n.model = [m.model EXCEPT !.text = "other"]
    BY <1>1, <1>2, <1>16 DEF Demanded, Fields
  <2>2. m.model \in [text : STRING, padded : BOOLEAN] /\ m.model.text = e.text /\ m.model.padded = FALSE
    BY <1>4, <1>5
  <2>3. n.model.text = "other" /\ n.model.padded = FALSE /\ n.model \in [text : STRING, padded : BOOLEAN]
    BY <2>1, <2>2
  <2>4. n.model = m.model
    BY <2>1, <2>2, <2>3
  <2> QED  BY <1>1, <1>3, <1>16, <2>1, <2>4, OneField DEF Fields
<1>17. CASE n = [m EXCEPT !.release_digest.of = "other"]
  <2>1. n.release_digest = m.release_digest /\ n.release_digest = [m.release_digest EXCEPT !.of = "other"]
    BY <1>1, <1>2, <1>4, <1>17 DEF Demanded, Fields
  <2> DEFINE v == [m.release_digest EXCEPT !.of = "other"]
  <2>2. n = [m EXCEPT !["release_digest"] = v] /\ v = m["release_digest"] /\ "release_digest" \in DOMAIN m
    BY <1>1, <1>17, <2>1 DEF Fields
  <2> HIDE DEF v
  <2> QED  BY <1>1, <1>3, <2>2, OneField
<1>18. CASE n = [m EXCEPT !.provider_capabilities = @ \ {"streaming"}]
  BY <1>1, <1>2, <1>18 DEF DiscoveryComplete, Fields
<1> QED
  BY <1>3, <1>6, <1>7, <1>8, <1>9, <1>10, <1>11, <1>12, <1>13, <1>14, <1>15, <1>16, <1>17, <1>18 DEF IdentityEdits

LEMMA BudgetEditsAreNoticed ==
  ASSUME NEW start, Passed(start), NEW hours, NEW n \in BudgetEdits(Manifest(hours)),
         n # Manifest(hours), Demanded(n)
  PROVE  FALSE
<1> DEFINE m == Manifest(hours)
<1>1. /\ m = [x \in DOMAIN m |-> m[x]] /\ DOMAIN m = Fields
      /\ m.usage_cost = UsageCost /\ m.quota = Policy.quota /\ m.quota_pricing_evidence = QuotaPricingEvidence
      /\ m.timeout_retry = [connect_timeout_seconds |-> Policy.connect_timeout_seconds,
                            read_timeout_seconds |-> Policy.read_timeout_seconds,
                            max_retries |-> Policy.max_retries, attempts |-> probe.attempts]
  <2>1. m = [x \in DOMAIN m |-> m[x]] /\ DOMAIN m = Fields
    BY ManifestIsRecord
  <2>2. /\ m.usage_cost = UsageCost /\ m.quota = Policy.quota /\ m.quota_pricing_evidence = QuotaPricingEvidence
        /\ m.timeout_retry = [connect_timeout_seconds |-> Policy.connect_timeout_seconds,
                              read_timeout_seconds |-> Policy.read_timeout_seconds,
                              max_retries |-> Policy.max_retries, attempts |-> probe.attempts]
    BY DEF Manifest
  <2> QED  BY <2>1, <2>2
<1>2. RetryComplete(n) /\ UsageComplete(n) /\ QuotaComplete(n) /\ QuotaPricingComplete(n)
  BY DEF Demanded, ProviderManifestContractComplete
<1>3. n \in BudgetEdits(m) /\ n # m
  OBVIOUS
<1> DEFINE u == m.usage_cost  t == m.timeout_retry
<1>4. /\ {"max_retries", "read_timeout_seconds", "attempts"} \subseteq DOMAIN t
      /\ t.max_retries = Policy.max_retries /\ t.attempts = probe.attempts
  BY <1>1
<1>5. /\ u = [x \in DOMAIN u |-> u[x]]
      /\ {"input_tokens", "cached_input_tokens", "cache_miss_input_tokens", "estimated_cost", "approved_cap",
          "retry_cost_upper_bound", "preflight_worst_case_cost", "max_input_tokens_per_probe", "currency",
          "successful_responses_estimated_cost", "input_payload_byte_upper_bound", "tool_attempt_budget",
          "rates_per_million_tokens"} \subseteq DOMAIN u
      /\ u.input_tokens = InputTokens /\ u.cached_input_tokens = CachedTokens
      /\ u.cache_miss_input_tokens = InputTokens - CachedTokens
      /\ u.estimated_cost = SuccessCost + RetryCost /\ u.successful_responses_estimated_cost = SuccessCost
      /\ u.retry_cost_upper_bound = RetryCost /\ u.preflight_worst_case_cost = PreflightCost(docs)
      /\ u.input_payload_byte_upper_bound = InputBound(docs) /\ u.tool_attempt_budget = AttemptBudget(docs)
      /\ u.currency = Policy.currency /\ u.rates_per_million_tokens = Rates
  BY <1>1 DEF UsageCost, Rates
<1>6. /\ QuotaPricingEvidence.currency = docs.snapshot.currency /\ QuotaPricingEvidence.quota = docs.snapshot.quota
      /\ QuotaPricingEvidence.prices_per_million_tokens = docs.snapshot.prices
  BY DEF QuotaPricingEvidence
<1> HIDE DEF m, u, t
<1>7. /\ InputTokens \in Int /\ CachedTokens \in Int /\ SuccessCost \in Int /\ RetryCost \in Int
      /\ PreflightCost(docs) \in Int /\ InputBound(docs) \in Int /\ Policy.max_retries \in Int
      /\ Policy.quota.limits \in Int /\ Policy.quota.balance_alert_threshold \in Int /\ Rates \in Prices
  <2>1. PICK c \in Cases : docs = c.docs
    BY DEF Passed, EvidenceInv, CheckedFirst
  <2>2. Policy.quota.limits \in Int /\ Policy.quota.balance_alert_threshold \in Int
    BY <2>1, InputsAssumption DEF Policy
  <2>3. TypeOK /\ LimitsAreSane(docs)
    BY DEF Passed, IInv, LoadPolicy
  <2> QED  BY <2>2, <2>3, NumbersOfReport, PricesAreSane
<1>8. /\ SnapshotIsBound(docs) /\ PricesAreBound(docs) /\ QuotaIsBound(docs)
  BY DEF Passed, LoadPolicy
<1>9. CASE n = [m EXCEPT !.timeout_retry.max_retries = @ + 1]
  <2>1. n.timeout_retry.max_retries = t.max_retries + 1 /\ n.usage_cost = u
    BY <1>1, <1>4, <1>9 DEF Fields, t, u
  <2>2. u.tool_attempt_budget = t.max_retries + 1 + 1 /\ u.tool_attempt_budget = t.max_retries + 1
    BY <1>2, <1>4, <1>5, <2>1 DEF UsageComplete, AttemptBudget, Policy
  <2> QED  BY <1>4, <1>7, <2>2
<1>10. CASE n = [m EXCEPT !.timeout_retry.read_timeout_seconds = 0]
  <2>1. n.timeout_retry.read_timeout_seconds = 0
    BY <1>1, <1>4, <1>10 DEF Fields, t
  <2> QED  BY <1>2, <2>1 DEF RetryComplete
<1>11. CASE n = [m EXCEPT !.timeout_retry.attempts.tool_call = 0]
  <2>1. DOMAIN t.attempts = Requests /\ "tool_call" \in Requests
    BY <1>4 DEF Passed, IInv, TypeOK, Probes, Requests
  <2>2. n.timeout_retry.attempts["tool_call"] = 0 /\ "tool_call" \in DOMAIN n.timeout_retry.attempts
    BY <1>1, <1>4, <1>11, <2>1 DEF Fields, t
  <2> QED  BY <1>2, <2>2 DEF RetryComplete
<1>12. CASE n = [m EXCEPT !.usage_cost.input_tokens = @ + 1]
  <2>1. /\ n.usage_cost.input_tokens = InputTokens + 1 /\ n.usage_cost.cached_input_tokens = CachedTokens
        /\ n.usage_cost.cache_miss_input_tokens = InputTokens - CachedTokens
    BY <1>1, <1>5, <1>12 DEF Fields, u
  <2>2. CachedTokens + (InputTokens - CachedTokens) = InputTokens + 1
    BY <1>2, <2>1 DEF UsageComplete
  <2> QED  BY <1>7, <2>2
<1>13. CASE n = [m EXCEPT !.usage_cost.estimated_cost = @ + 1]
  <2>1. /\ n.usage_cost.estimated_cost = SuccessCost + RetryCost + 1 /\ n.usage_cost.retry_cost_upper_bound = RetryCost
        /\ n.usage_cost.successful_responses_estimated_cost = SuccessCost
    BY <1>1, <1>5, <1>13 DEF Fields, u
  <2>2. SuccessCost + RetryCost + 1 = SuccessCost + RetryCost
    BY <1>2, <2>1 DEF UsageComplete
  <2> QED  BY <1>7, <2>2
<1>14. CASE n = [m EXCEPT !.usage_cost.retry_cost_upper_bound = @ + 1]
  <2>1. /\ n.usage_cost.estimated_cost = SuccessCost + RetryCost /\ n.usage_cost.retry_cost_upper_bound = RetryCost + 1
        /\ n.usage_cost.successful_responses_estimated_cost = SuccessCost
    BY <1>1, <1>5, <1>14 DEF Fields, u
  <2>2. SuccessCost + RetryCost = SuccessCost + (RetryCost + 1)
    BY <1>2, <2>1 DEF UsageComplete
  <2> QED  BY <1>7, <2>2
<1>15. CASE n = [m EXCEPT !.usage_cost.approved_cap = m.usage_cost.preflight_worst_case_cost - 1]
  <2>1. n.usage_cost.approved_cap = PreflightCost(docs) - 1 /\ n.usage_cost.preflight_worst_case_cost = PreflightCost(docs)
    BY <1>1, <1>5, <1>15 DEF Fields, u
  <2>2. PreflightCost(docs) <= PreflightCost(docs) - 1
    BY <1>2, <2>1 DEF UsageComplete
  <2> QED  BY <1>7, <2>2
<1>16. CASE n = [m EXCEPT !.usage_cost.max_input_tokens_per_probe = 0]
  <2>1. n.usage_cost.max_input_tokens_per_probe = 0 /\ n.usage_cost.input_payload_byte_upper_bound = InputBound(docs)
    BY <1>1, <1>5, <1>16 DEF Fields, u
  <2>2. 0 < InputBound(docs) /\ InputBound(docs) <= 0
    BY <1>2, <2>1 DEF UsageComplete
  <2> QED  BY <1>7, <2>2
<1>17. CASE n = [m EXCEPT !.usage_cost.currency = "other"]
  <2> DEFINE v == [m.usage_cost EXCEPT !.currency = "other"]
  <2>1. n.usage_cost = v /\ v.currency = "other" /\ n.quota_pricing_evidence = QuotaPricingEvidence
    BY <1>1, <1>5, <1>17 DEF Fields, u
  <2>2. u.currency = "other"
    BY <1>2, <1>5, <1>6, <1>8, <2>1 DEF QuotaPricingComplete, SnapshotIsBound, Policy
  <2>3. v = m["usage_cost"]
    <3>1. v = [u EXCEPT !["currency"] = "other"]
      BY DEF u
    <3> QED  BY <1>5, <2>2, <3>1, OneField DEF u
  <2>4. n = [m EXCEPT !["usage_cost"] = v] /\ "usage_cost" \in DOMAIN m
    BY <1>1, <1>17 DEF Fields
  <2> HIDE DEF v
  <2> QED  BY <1>1, <1>3, <2>3, <2>4, OneField
<1>18. CASE n = [m EXCEPT !.usage_cost.rates_per_million_tokens.output = @ + 1]
  <2>1. "output" \in DOMAIN u.rates_per_million_tokens /\ Rates["output"] \in Int
    BY <1>5, <1>7 DEF Prices
  <2>2. /\ n.usage_cost.rates_per_million_tokens["output"] = Rates["output"] + 1
        /\ n.quota_pricing_evidence = QuotaPricingEvidence
    BY <1>1, <1>5, <1>18, <2>1 DEF Fields, u
  <2>3. docs.snapshot.prices["output"] = Rates["output"] + 1
    BY <1>2, <1>6, <2>2 DEF QuotaPricingComplete
  <2>4. docs.snapshot.prices["output"] = Rates["output"]
    BY <1>8 DEF PricesAreBound, Rates, Policy
  <2> QED  BY <2>1, <2>3, <2>4
<1>19. docs.snapshot.quota["limits"] = m.quota["limits"]
       /\ docs.snapshot.quota["balance_alert_threshold"] = m.quota["balance_alert_threshold"]
       /\ DOMAIN docs.snapshot.quota = {"limits", "balance_alert_threshold"}
       /\ m.quota["limits"] \in Int /\ m.quota["balance_alert_threshold"] \in Int
  BY <1>1, <1>7, <1>8 DEF QuotaIsBound, Policy
<1>20. CASE n = [m EXCEPT !.quota.limits = Bad]
  <2>1. n.quota = [m.quota EXCEPT !["limits"] = Bad]
    BY <1>1, <1>20 DEF Fields
  <2>2. "limits" \in DOMAIN m.quota
    BY <1>2, <2>1 DEF QuotaComplete
  <2>3. n.quota["limits"] = Bad
    BY <2>1, <2>2
  <2> QED  BY <1>2, <2>3 DEF QuotaComplete, Bad
<1>21. CASE n = [m EXCEPT !.quota.limits = @ + 1]
  <2>1. n.quota = [m.quota EXCEPT !["limits"] = m.quota["limits"] + 1]
        /\ n.quota_pricing_evidence.quota = docs.snapshot.quota
    BY <1>1, <1>6, <1>21 DEF Fields
  <2>2. "limits" \in DOMAIN m.quota
    BY <1>2, <2>1 DEF QuotaComplete
  <2>3. n.quota["limits"] = m.quota["limits"] + 1
    BY <2>1, <2>2
  <2>4. docs.snapshot.quota["limits"] = m.quota["limits"] + 1
    BY <1>2, <1>19, <2>1, <2>3 DEF QuotaPricingComplete
  <2> QED  BY <1>19, <2>4
<1>22. CASE n = [m EXCEPT !.quota.balance_alert_threshold = @ + 1]
  <2>1. n.quota = [m.quota EXCEPT !["balance_alert_threshold"] = m.quota["balance_alert_threshold"] + 1]
        /\ n.quota_pricing_evidence.quota = docs.snapshot.quota
    BY <1>1, <1>6, <1>22 DEF Fields
  <2>2. "balance_alert_threshold" \in DOMAIN m.quota
    BY <1>2, <2>1 DEF QuotaComplete
  <2>3. n.quota["balance_alert_threshold"] = m.quota["balance_alert_threshold"] + 1
    BY <2>1, <2>2
  <2>4. docs.snapshot.quota["balance_alert_threshold"] = m.quota["balance_alert_threshold"] + 1
    BY <1>2, <1>19, <2>1, <2>3 DEF QuotaPricingComplete
  <2> QED  BY <1>19, <2>4
<1> QED
  BY <1>3, <1>9, <1>10, <1>11, <1>12, <1>13, <1>14, <1>15, <1>16, <1>17, <1>18, <1>20, <1>21, <1>22 DEF BudgetEdits

LEMMA RespeltIsOne ==
  ASSUME NEW identity
  PROVE  Casefold(Respelt(identity)) = Casefold(identity)
  BY DEF Casefold, Respelt

LEMMA PolicyEditsAreNoticed ==
  ASSUME NEW start, Passed(start), NEW hours, NEW n \in PolicyEdits(Manifest(hours)),
         n # Manifest(hours), Demanded(n)
  PROVE  FALSE
<1> DEFINE m == Manifest(hours)  q == QuotaPricingEvidence  p == PolicyEvidence  a == Policy.owner_approvals
<1>1. /\ m = [x \in DOMAIN m |-> m[x]] /\ DOMAIN m = Fields
      /\ m.quota_pricing_evidence = q /\ m.policy = p /\ m.executed_at = probe.executed_at
  <2>1. m = [x \in DOMAIN m |-> m[x]] /\ DOMAIN m = Fields
    BY ManifestIsRecord
  <2>2. m.quota_pricing_evidence = q /\ m.policy = p /\ m.executed_at = probe.executed_at
    BY DEF Manifest
  <2> QED  BY <2>1, <2>2
<1>2. /\ PolicyComplete(n) /\ QuotaPricingComplete(n) /\ EvidenceIsCurrent(n, clock)
      /\ RequiredChecks \subseteq n.required_checks
  BY DEF Demanded, ProviderManifestContractComplete
<1>3. n \in PolicyEdits(m) /\ n # m
  OBVIOUS
<1>4. /\ q = [x \in DOMAIN q |-> q[x]] /\ {"source_url", "reviewed_at", "snapshot_sha256"} \subseteq DOMAIN q
      /\ q.snapshot_sha256 = Policy.quota_pricing_snapshot_sha256
  BY DEF QuotaPricingEvidence
<1>5. /\ p = [x \in DOMAIN p |-> p[x]]
      /\ {"training_opt_out_confirmed", "provider_policy_url", "reviewed_at", "provider_policy_sha256", "ai_owner",
          "security_owner", "owner_approvals"} \subseteq DOMAIN p
      /\ p.provider_policy_sha256 = Digest(docs.page) /\ p.ai_owner = Policy.ai_owner
      /\ p.security_owner = Policy.security_owner /\ p.owner_approvals = a
  BY DEF PolicyEvidence
<1> HIDE DEF m, q, p
<1>6. /\ clock \in Nat /\ probe.executed_at \in Nat
  BY DEF Passed, EvidenceInv, CheckedFirst, Reported
<1>7. SnapshotsMatch(docs) /\ ApprovalsAreGiven(docs, start)
  BY DEF Passed, LoadPolicy, ApprovalsAreBound
<1>8. /\ IsDigest(Policy.quota_pricing_snapshot_sha256)
      /\ \A r \in DOMAIN a : {"approved", "approver_identity", "approved_at"} \subseteq DOMAIN a[r]
  <2>1. PICK c \in Cases : docs = c.docs
    BY DEF Passed, EvidenceInv, CheckedFirst
  <2> QED  BY <2>1, InputsAssumption DEF Policy
<1>9. /\ "ai" \in DOMAIN a /\ "security" \in DOMAIN a /\ "privacy" \in DOMAIN a
      /\ \A r \in Roles : /\ a[r].approver_identity = Policy[OwnerOf[r]]
                          /\ Lower(a[r].provider_policy_sha256) = Digest(docs.page)
                          /\ Lower(a[r].quota_pricing_snapshot_sha256) = Digest(docs.snapshot.bytes)
  BY <1>7 DEF ApprovalsAreGiven, Policy, Roles
<1> HIDE DEF a
<1>10. CASE n = [m EXCEPT !.quota_pricing_evidence.source_url = "http://page"]
  <2>1. n.quota_pricing_evidence.source_url = "http://page"
    BY <1>1, <1>4, <1>10 DEF Fields
  <2> QED  BY <1>2, <2>1 DEF QuotaPricingComplete, HttpsUrl
<1>11. CASE n = [m EXCEPT !.quota_pricing_evidence.reviewed_at = m.executed_at - PricingReviewAge - 1]
  <2>1. n.quota_pricing_evidence.reviewed_at = probe.executed_at - PricingReviewAge - 1
        /\ n.executed_at = probe.executed_at
    BY <1>1, <1>4, <1>11 DEF Fields
  <2>2. probe.executed_at - (probe.executed_at - PricingReviewAge - 1) <= PricingReviewAge
    BY <1>2, <2>1 DEF EvidenceIsCurrent, ReviewedWithin
  <2> QED  BY <1>6, <2>2, WindowsAssumption
<1>12. CASE n = [m EXCEPT !.quota_pricing_evidence.reviewed_at = m.executed_at + Skew + 1]
  <2>1. n.quota_pricing_evidence.reviewed_at = probe.executed_at + Skew + 1 /\ n.executed_at = probe.executed_at
    BY <1>1, <1>4, <1>12 DEF Fields
  <2>2. probe.executed_at + Skew + 1 <= probe.executed_at + Skew
    BY <1>2, <2>1 DEF EvidenceIsCurrent, ReviewedWithin
  <2> QED  BY <1>6, <2>2, WindowsAssumption
<1>13. CASE n = [m EXCEPT !.quota_pricing_evidence.snapshot_sha256.of = "other"]
  <2> DEFINE d == Policy.quota_pricing_snapshot_sha256  e == [d EXCEPT !.of = "other"]
             w == [q EXCEPT !["snapshot_sha256"] = e]
  <2>1. n = [m EXCEPT !["quota_pricing_evidence"] = w]
    BY <1>1, <1>4, <1>13
  <2>2. w.snapshot_sha256 = e /\ (e = d => w = q)
    BY <1>4, OneField
  <2>3. n.quota_pricing_evidence = w /\ n.policy = p
    BY <1>1, <2>1 DEF Fields
  <2>4. d = [of |-> d.of, form |-> d.form]
    BY <1>8 DEF IsDigest
  <2>5. e = [of |-> "other", form |-> d.form]
    BY <2>4
  <2>6. a["ai"].quota_pricing_snapshot_sha256 = e
    BY <1>2, <1>5, <2>2, <2>3 DEF PolicyComplete, ApprovalComplete, Roles
  <2>7. Lower(e) = Digest(docs.snapshot.bytes) /\ Lower(d) = Digest(docs.snapshot.bytes)
    BY <1>7, <1>9, <2>6 DEF SnapshotsMatch, Policy, Roles
  <2>8. d.of = "other"
    <3>1. Lower(e).of = "other"
      <4>1. [e EXCEPT !.form = "lower"].of = "other"
        BY <2>5
      <4> QED  BY <2>5, <4>1 DEF Lower
    <3>2. Lower(d).of = d.of
      <4>1. [d EXCEPT !.form = "lower"].of = d.of
        BY <2>4
      <4> QED  BY <4>1 DEF Lower
    <3> QED  BY <2>7, <3>1, <3>2
  <2>9. e = d
    BY <2>4, <2>5, <2>8
  <2> HIDE DEF w
  <2>10. w = m["quota_pricing_evidence"] /\ "quota_pricing_evidence" \in DOMAIN m
    BY <1>1, <2>2, <2>9 DEF Fields
  <2> QED  BY <1>1, <1>3, <2>1, <2>10, OneField
<1>14. CASE n = [m EXCEPT !.policy.training_opt_out_confirmed = FALSE]
  <2>1. n.policy.training_opt_out_confirmed = FALSE
    BY <1>1, <1>5, <1>14 DEF Fields
  <2> QED  BY <1>2, <2>1 DEF PolicyComplete
<1>15. CASE n = [m EXCEPT !.policy.provider_policy_url = Absent]
  <2>1. n.policy.provider_policy_url = Absent
    BY <1>1, <1>5, <1>15 DEF Fields
  <2> QED  BY <1>2, <2>1 DEF PolicyComplete, HttpsUrl
<1>16. CASE n = [m EXCEPT !.policy.reviewed_at = m.executed_at - PolicyReviewAge - 1]
  <2>1. n.policy.reviewed_at = probe.executed_at - PolicyReviewAge - 1 /\ n.executed_at = probe.executed_at
    BY <1>1, <1>5, <1>16 DEF Fields
  <2>2. probe.executed_at - (probe.executed_at - PolicyReviewAge - 1) <= PolicyReviewAge
    BY <1>2, <2>1 DEF EvidenceIsCurrent, ReviewedWithin
  <2> QED  BY <1>6, <2>2, WindowsAssumption
<1>17. CASE n = [m EXCEPT !.policy.provider_policy_sha256.of = "other"]
  <2> DEFINE d == Digest(docs.page)  e == [d EXCEPT !.of = "other"]
             w == [p EXCEPT !["provider_policy_sha256"] = e]
  <2>1. n = [m EXCEPT !["policy"] = w]
    BY <1>1, <1>5, <1>17
  <2>2. w.provider_policy_sha256 = e /\ (e = d => w = p) /\ w.owner_approvals = a
    BY <1>5, OneField
  <2>3. n.policy = w
    BY <1>1, <2>1 DEF Fields
  <2>4. e = [of |-> "other", form |-> "lower"] /\ d = [of |-> docs.page, form |-> "lower"]
    BY DEF Digest
  <2>5. a["ai"].provider_policy_sha256 = e
    BY <1>2, <2>2, <2>3 DEF PolicyComplete, ApprovalComplete, Roles
  <2>6. Lower(e) = d
    BY <1>9, <2>5 DEF Roles
  <2>7. Lower(e) = e
    BY <2>4 DEF Lower
  <2>8. e = d
    BY <2>6, <2>7
  <2> HIDE DEF w
  <2>9. w = m["policy"] /\ "policy" \in DOMAIN m
    BY <1>1, <2>2, <2>8 DEF Fields
  <2> QED  BY <1>1, <1>3, <2>1, <2>9, OneField
<1>18. CASE n = [m EXCEPT !.policy.security_owner = "alice"]
  <2> DEFINE w == [p EXCEPT !["security_owner"] = "alice"]
  <2>1. n = [m EXCEPT !["policy"] = w]
    BY <1>1, <1>5, <1>18
  <2>2. w.security_owner = "alice" /\ ("alice" = p.security_owner => w = p) /\ w.owner_approvals = a
    BY <1>5, OneField
  <2>3. n.policy = w
    BY <1>1, <2>1 DEF Fields
  <2> HIDE DEF w
  <2>4. a["security"].approver_identity = "alice"
    BY <1>2, <2>2, <2>3 DEF PolicyComplete, ApprovalComplete, Roles, OwnerOf
  <2>5. a["security"].approver_identity = p.security_owner
    BY <1>5, <1>9 DEF Roles, OwnerOf
  <2>6. w = m["policy"] /\ "policy" \in DOMAIN m
    BY <1>1, <2>2, <2>4, <2>5 DEF Fields
  <2> QED  BY <1>1, <1>3, <2>1, <2>6, OneField
<1>19. CASE n = [m EXCEPT !.policy.security_owner = Respelt(m.policy.ai_owner),
                          !.policy.owner_approvals.security.approver_identity = Respelt(m.policy.ai_owner)]
  <2> DEFINE i == Respelt(p.ai_owner)
             w == [p EXCEPT !["security_owner"] = i]
             n1 == [m EXCEPT !["policy"] = w]
             b == [a["security"] EXCEPT !["approver_identity"] = i]
             c == [a EXCEPT !["security"] = b]
             v == [w EXCEPT !["owner_approvals"] = c]
  <2>1. n1.policy = w
    BY <1>1 DEF Fields
  <2>2. DOMAIN w = DOMAIN p /\ w.owner_approvals = a
    BY <1>5
  <2>3. n = [n1 EXCEPT !.policy.owner_approvals.security.approver_identity = i]
    BY <1>1, <1>19
  <2>4. n = [n1 EXCEPT !["policy"] = v]
    BY <2>1, <2>2, <2>3
  <2>5. "policy" \in DOMAIN n1
    BY <1>1 DEF Fields
  <2> HIDE DEF n1, i
  <2>6. n.policy = v
    BY <2>4, <2>5
  <2>7. b.approver_identity = i
    BY <1>8, <1>9
  <2> HIDE DEF b
  <2>8. c["security"] = b /\ c["ai"] = a["ai"]
    BY <1>9
  <2> HIDE DEF c
  <2>9. v.owner_approvals = c
    BY <1>5, <2>2
  <2>10. Casefold(c["security"].approver_identity) # Casefold(c["ai"].approver_identity)
    BY <1>2, <2>6, <2>9 DEF PolicyComplete, DistinctApprovers, Roles
  <2>11. c["ai"].approver_identity = p.ai_owner
    BY <1>5, <1>9, <2>8 DEF Roles, OwnerOf
  <2> QED  BY <2>7, <2>8, <2>10, <2>11, RespeltIsOne DEF i
<1>20. CASE n = [m EXCEPT !.policy.owner_approvals.privacy.approved = FALSE]
  <2>1. n.policy.owner_approvals["privacy"].approved = FALSE
    BY <1>1, <1>5, <1>8, <1>9, <1>20 DEF Fields
  <2> QED  BY <1>2, <2>1 DEF PolicyComplete, ApprovalComplete, Roles
<1>21. CASE n = [m EXCEPT !.policy.owner_approvals.privacy.approved_at = NoTime]
  <2>1. n.policy.owner_approvals["privacy"].approved_at = NoTime /\ "privacy" \in DOMAIN n.policy.owner_approvals
    BY <1>1, <1>5, <1>8, <1>9, <1>21 DEF Fields
  <2> QED  BY <1>2, <2>1 DEF EvidenceIsCurrent
<1>22. CASE n = [m EXCEPT !.executed_at = clock + Skew + 1]
  <2>1. clock + Skew + 1 <= clock + Skew
    BY <1>1, <1>2, <1>22 DEF EvidenceIsCurrent, Fields
  <2> QED  BY <1>6, <2>1, WindowsAssumption
<1>23. CASE n = [m EXCEPT !.expires_at = clock]
  <2>1. clock > clock
    BY <1>1, <1>2, <1>23 DEF EvidenceIsCurrent, Fields
  <2> QED  BY <1>6, <2>1
<1>24. CASE n = [m EXCEPT !.expires_at = m.executed_at + MaxEvidenceValidity + 1]
  <2>1. n.expires_at = probe.executed_at + MaxEvidenceValidity + 1 /\ n.executed_at = probe.executed_at
    BY <1>1, <1>24 DEF Fields
  <2>2. probe.executed_at + MaxEvidenceValidity + 1 - probe.executed_at <= MaxEvidenceValidity
    <3>1. n.expires_at - n.executed_at <= MaxEvidenceValidity
      BY <1>2 DEF EvidenceIsCurrent
    <3> QED  BY <1>6, <2>1, <3>1, WindowsAssumption
  <2> QED  BY <1>6, <2>2, WindowsAssumption
<1>25. CASE n = [m EXCEPT !.required_checks = @ \ {"tool_call"}]
  BY <1>1, <1>2, <1>25 DEF RequiredChecks, Fields
<1> QED
  BY <1>3, <1>10, <1>11, <1>12, <1>13, <1>14, <1>15, <1>16, <1>17, <1>18, <1>19, <1>20, <1>21, <1>22, <1>23, <1>24,
     <1>25 DEF PolicyEdits

\* A manifest one of whose claims is made false by hand is refused, even by a server that is given
\* its digest: provider_manifest_validation_error does not lean on what the probe has looked at.
THEOREM EditIsNoticedHolds == Spec => []EditIsNoticed
<1>1. IInv /\ EvidenceInv => EditIsNoticed
  <2> SUFFICES ASSUME IInv, EvidenceInv, probe.at = "print", NEW forged \in Edits(output.manifest),
                      forged # output.manifest,
                      ProviderManifestValidationError(forged, clock, Want(Settings(Deployed(env, forged)))) = ""
               PROVE  FALSE
    BY DEF EditIsNoticed
  <2>1. PICK hours \in 1..MaxEvidenceValidity : output.manifest = Manifest(hours)
    <3>1. PICK hours \in 1..MaxEvidenceValidity, trusted \in BOOLEAN : output = Output(hours, trusted)
      BY DEF EvidenceInv, PublishedAsIs
    <3> QED  BY <3>1 DEF Output
  <2>2. \E start \in 0..probe.executed_at : Passed(start)
    BY DEF Passed, EvidenceInv, CheckedFirst, Reported, Checked
  <2>3. Demanded(forged)
    BY WhatIsDemanded
  <2> QED  BY <2>1, <2>2, <2>3, IdentityEditsAreNoticed, RunEditsAreNoticed, BudgetEditsAreNoticed,
              PolicyEditsAreNoticed DEF Edits
<1> QED  BY <1>1, SpendFollowsPhases, ManifestIsEarned, PTL
===============================================================================
