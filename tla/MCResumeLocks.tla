---------------------------- MODULE MCResumeLocks ---------------------------
(* Instances of ResumeLocks for TLC.                                       *)
EXTENDS ResumeLocks

CONSTANTS click, retry, cron, agent

MCCallers == {click, retry, cron}

\* Every task calls one Agent.
MCOneAgent == [c \in MCCallers |-> agent]

\* It is a serialized one; the steps of an isolated one are among its steps.
MCSerialized == {agent}

\* A gated call, one that is safe to repeat, one that is not, a gated one.
MCGated      == {1, 4}
MCIdempotent == {2}
=============================================================================
