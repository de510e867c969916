---------------------------- MODULE OutputCritic ----------------------------
(***************************************************************************)
(* The output guard of the gateway, crates/eidolon-shared/src/             *)
(* output_critic.rs: a pure scoring function over the text a provider      *)
(* returned.  A text is abstracted to the set of traits the guard looks    *)
(* for; severities and scores are in ten-thousandths, so that 0.8 * 0.35   *)
(* is 2800.                                                                *)
(***************************************************************************)
EXTENDS Integers, FiniteSets, FiniteSetsExt

CONSTANTS
  CriticEnabled,  \* OUTPUT_CRITIC_ENABLED, TRUE unless configured otherwise
  StrictMode,     \* OUTPUT_CRITIC_STRICT_MODE, FALSE unless configured
  MinQuality      \* OUTPUT_CRITIC_MIN_QUALITY_SCORE, 0.3 by default

ASSUME CriticAssumption ==
  /\ CriticEnabled \in BOOLEAN
  /\ StrictMode \in BOOLEAN
  /\ MinQuality \in Int

(* The markers evaluate() searches the text for. *)
Traits == {"empty", "too_short", "not_json", "nan", "infinity"}

(* The texts that exist: an empty text has nothing in it and is no JSON, a
   text of one or two characters has room for neither marker, and nothing is
   both empty and short (the `else if`). *)
Texts == {t \in SUBSET Traits :
            /\ "empty" \in t => t = {"empty", "not_json"}
            /\ "too_short" \in t => t \subseteq {"too_short", "not_json"}}

(* severity * 0.35 of each rule *)
Penalty(rule) ==
  CASE rule = "empty"     -> 3500
    [] rule = "not_json"  -> 2800
    [] OTHER              -> 2450

(* The rules a text breaks; the JSON rule is asked only of requests that
   expect JSON. *)
Violations(text, expectJson) ==
  {rule \in text : rule = "not_json" => expectJson}

Score(text, expectJson) ==
  Max({0, 10000 - MapThenSumSet(Penalty, Violations(text, expectJson))})

(* CriticVerdict.passed *)
Passed(text, expectJson) ==
  \/ ~CriticEnabled
  \/ StrictMode /\ Violations(text, expectJson) = {}
  \/ ~StrictMode /\ Score(text, expectJson) >= MinQuality
=============================================================================
