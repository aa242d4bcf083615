---------------------------- MODULE MCAgentDurable --------------------------
(* Instances of AgentDurable for TLC.                                      *)
EXTENDS AgentDurable

CONSTANTS read, pay, mail

\* read may be repeated, pay may not, mail neither and it is gated; a process
\* is built with all three or has lost pay (where the number of runs and resumes
\* matters more, every process is built alike).
MCTools      == {read, pay, mail}
MCIdempotent == {read}
MCGated      == {mail}
MCRegistries == {MCTools, {read, mail}}
MCSameAgent  == {MCTools}
=============================================================================
