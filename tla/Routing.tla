------------------------------- MODULE Routing -------------------------------
(***************************************************************************)
(* Where a task is to run: the rules of core/router.py, and the backend    *)
(* and quantization core/backends/selector.py chooses for a model.         *)
(*                                                                         *)
(* Everything here is a function of its arguments; LocalWorker has the     *)
(* state.                                                                  *)
(*                                                                         *)
(* Abstractions.  Memory is counted in tenths of a gigabyte, temperature   *)
(* in degrees, load and charge in percent, all whole.  The wording of a    *)
(* decision and its confidence are left out: of the reasons only the       *)
(* target is kept.  The name of a model is its class of size.              *)
(***************************************************************************)
EXTENDS Integers, FiniteSets

CONSTANT None       \* Python's None: a reading the machine does not give

Complexities == {"low", "medium", "high"}
ModelSizes == {"llama-3b", "llama-1b", "mobilebert", "tinybert", "other"}

(* What get_system_metrics returns. *)
Metrics == [temp : Int \cup {None}, cpu : Int, battery : Int \cup {None},
            plugged : BOOLEAN, ram : Int, npu : BOOLEAN]

-----------------------------------------------------------------------------
(* RoutingRules *)

ThrottleTemp == 70
WarmupTemp == 60
MaxCpu == 80
ProxyCpu == 95
LowBattery == 10
MinRam == 20
RamMargin == 5

(* estimate_model_memory_usage *)
ModelRam(size) ==
    CASE size = "llama-3b" -> 40
      [] size = "llama-1b" -> 15
      [] size = "mobilebert" -> 4
      [] size = "tinybert" -> 1
      [] OTHER -> 5

TooHot(m) == m.temp # None /\ m.temp >= ThrottleTemp

(* Faulty: counts a battery that is being charged. *)
OnLowBatteryCharging(m) == m.battery # None /\ m.battery < LowBattery /\ m.plugged

OnLowBattery(m) == m.battery # None /\ m.battery < LowBattery /\ ~m.plugged

TooLittleRam(size, m) == m.ram < ModelRam(size) + RamMargin

(* The rules that send a task to the cloud before its complexity counts.   *)
Refused(size, m) ==
    \/ TooHot(m)
    \/ m.cpu > ProxyCpu
    \/ OnLowBattery(m)
    \/ TooLittleRam(size, m)
    \/ m.cpu > MaxCpu

(* should_route_local *)
ShouldRouteLocal(complexity, size, m) ==
    /\ ~Refused(size, m)
    /\ complexity # "high"
    /\ \/ complexity = "low" /\ m.ram >= MinRam
       \/ complexity = "medium" /\ m.npu
       \/ m.ram >= MinRam /\ m.cpu <= MaxCpu

(* Faulty: takes the refusal of the rules for an answer. *)
DecideByRules(preferred, complexity, size, m, localWorker, cloudWorker) ==
    CASE ~localWorker -> "cloud"
      [] localWorker /\ preferred \in {"local", "cloud"} -> preferred
      [] OTHER -> IF ShouldRouteLocal(complexity, size, m) THEN "local" ELSE "cloud"

(* make_routing_decision: a preferred target is taken as it is, "auto" and *)
(* no preference are left to the rules, and without a cloud worker their   *)
(* refusal is set aside.                                                   *)
Decide(preferred, complexity, size, m, localWorker, cloudWorker) ==
    CASE ~localWorker -> "cloud"
      [] localWorker /\ preferred \in {"local", "cloud"} -> preferred
      [] OTHER -> IF ShouldRouteLocal(complexity, size, m) \/ ~cloudWorker
                  THEN "local" ELSE "cloud"

(* The bouncer of make_routing_decision.  A temperature of zero degrees    *)
(* counts as none; at the limit itself neither happens.                    *)
WarmsUp(m) == m.temp # None /\ m.temp > WarmupTemp /\ m.temp < ThrottleTemp

SwapRam == 10

Swaps(m) == \/ m.temp # None /\ m.temp > ThrottleTemp
            \/ m.ram < SwapRam

-----------------------------------------------------------------------------
(* What the rules promise                                                  *)

(* m is at least as good a state of the machine as n.  A reading that is   *)
(* missing never counts against the machine.                               *)
Better(m, n) ==
    /\ m.temp = None \/ (n.temp # None /\ m.temp <= n.temp)
    /\ m.cpu <= n.cpu
    /\ m.battery = None \/ (n.battery # None /\ m.battery >= n.battery)
    /\ n.plugged => m.plugged
    /\ m.ram >= n.ram
    /\ n.npu => m.npu

(* What a machine is good enough for, a better one is.                     *)
KeepsWork(m, n) ==
    Better(m, n) =>
        \A c \in Complexities, size \in ModelSizes :
            ShouldRouteLocal(c, size, n) => ShouldRouteLocal(c, size, m)

-----------------------------------------------------------------------------
(* BackendSelector *)

GenerativeTasks == {"text-generation", "summarization"}
AsrTasks == {"automatic-speech-recognition"}
EncoderTasks == {"ner", "feature-extraction"}

(* needs_generative_backend: the format decides for a task it does not     *)
(* know.                                                                   *)
NeedsGenerative(task, format) ==
    /\ task \notin EncoderTasks \cup AsrTasks
    /\ format # "onnx"
    /\ task \in GenerativeTasks \/ format \in {"mlx", "gguf"}

(* select, as the order in which it asks backends whether they are there.  *)
Candidates(task, format, apple, openclaw) ==
    CASE task \in AsrTasks -> IF apple THEN <<"whisper", "faster-whisper">>
                                       ELSE <<"faster-whisper", "whisper">>
      [] task \notin AsrTasks /\ NeedsGenerative(task, format) ->
            IF apple
            THEN IF openclaw THEN <<"openclaw", "mlx", "llama-cpp">>
                             ELSE <<"mlx", "llama-cpp">>
            ELSE IF openclaw THEN <<"openclaw", "llama-cpp">>
                             ELSE <<"llama-cpp">>
      [] OTHER -> <<>>

Select(task, format, apple, openclaw, available) ==
    LET asked == Candidates(task, format, apple, openclaw)
        there == {i \in DOMAIN asked : asked[i] \in available}
    IN  IF there = {} THEN None
        ELSE asked[CHOOSE i \in there : \A j \in there : i <= j]

(* recommend_quantization: the best of three precisions that fits the      *)
(* memory with a gigabyte to spare, None for InsufficientMemoryError.  The *)
(* size is that of the model at full precision, the scale in quarters.     *)
Quantizations == <<"fp16", "8bit", "4bit">>
Quarters == [q \in {"fp16", "8bit", "4bit"} |->
                CASE q = "fp16" -> 4 [] q = "8bit" -> 2 [] OTHER -> 1]

Fits(size, q, headroom, ram) == 4 * ram >= Quarters[q] * size + 4 * headroom

SelectorHeadroom == 10

Recommend(size, ram) ==
    LET fit == {i \in 1..3 : Fits(size, Quantizations[i], SelectorHeadroom, ram)}
    IN  IF fit = {} THEN None
        ELSE Quantizations[CHOOSE i \in fit : \A j \in fit : i <= j]

(* load_generative_model falls back to 4-bit when nothing fits; the check  *)
(* of MLXBackend.load and of LlamaCppBackend.load then decides.            *)
AutoQuantization(size, ram) ==
    IF Recommend(size, ram) = None THEN "4bit" ELSE Recommend(size, ram)

(* What a backend keeps free; the OpenClaw gateway runs elsewhere. *)
Headroom == [engine \in {"mlx", "llama-cpp"} |-> IF engine = "mlx" THEN 10 ELSE 5]

HasMemoryFor(engine, size, q, ram) ==
    engine = "openclaw" \/ Fits(size, q, Headroom[engine], ram)

=============================================================================
