----------------------------- MODULE MCEstEnroll -----------------------------
(* A small instance of EstEnroll for TLC.                                  *)
EXTENDS EstEnroll, TLC

CONSTANTS c1, c2

MCClients == {c1, c2}
MCCsrs == {[subj |-> c1, kind |-> "good", attrs |-> TRUE, san |-> TRUE],
           [subj |-> c2, kind |-> "good", attrs |-> TRUE, san |-> TRUE],
           [subj |-> c1, kind |-> "good", attrs |-> FALSE, san |-> FALSE],
           [subj |-> c1, kind |-> "badsig", attrs |-> TRUE, san |-> TRUE],
           [subj |-> c1, kind |-> "unissuable", attrs |-> TRUE, san |-> TRUE]}

Config(on) == [o \in {"basic", "anonymous", "pha", "clientCa", "attrs",
                      "approval"} |-> o \in on]
MCConfigs == {Config({"basic", "pha", "clientCa", "approval"}),
              Config({"clientCa", "attrs"}),
              Config({"clientCa", "approval"}),
              Config({"anonymous", "attrs", "approval"})}
=============================================================================
