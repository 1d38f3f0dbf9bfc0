-------------------------- MODULE MC_RuntimeOverrides -------------------------
(* Instances of RuntimeOverrides for TLC. *)
EXTENDS RuntimeOverrides, TLC

Posted(kind, patch) == [kind |-> kind, patch |-> patch]

(* "gpt" stands for a model outside the allowlist. *)
ModelNames == {"haiku", "deepseek", "gpt"}
Providers == [m \in {"haiku", "deepseek"} |->
                IF m = "deepseek" THEN "openrouter" ELSE "anthropic"]

Yaml == [model |-> "haiku", provider |-> "anthropic",
         risk |-> [asset |-> 2, total |-> 3], leverage |-> 2, cross |-> TRUE]

(* Caps posted alone or together, sane or not. *)
RiskBodies == {Posted("risk", [asset |-> 3]), Posted("risk", [total |-> 2])}
              \cup {Posted("risk", [asset |-> 4, total |-> 4])}

ModelBodies == {Posted("model", [model |-> m]) : m \in ModelNames}

LeverageBodies == {Posted("leverage", [leverage |-> 5]),
                   Posted("leverage", [leverage |-> 3, cross |-> FALSE])}

MonitorBodies == {Posted("monitor", [tp_pct |-> 1]), Posted("monitor", [sl_pct |-> 2]),
                  Posted("monitor", [tp_pct |-> 3, sl_pct |-> 3])}

PauseBodies == {Posted("pause", [paused |-> TRUE])}

(* Either window may post anything, so they are interchangeable. *)
Windows == [c \in Clients |->
              RiskBodies \cup PauseBodies \cup ModelBodies \cup MonitorBodies
              \cup LeverageBodies
              \cup {Posted(kind, NoPatch) : kind \in {"risk", "monitor", "leverage"}}]

Interchangeable == Permutations(Clients)
===============================================================================
