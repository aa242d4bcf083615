--------------------------- MODULE RemoteSessions ---------------------------
(***************************************************************************)
(* MCPClient of src/actants/mcp/client.py over open_session of             *)
(* mcp/transports.py: the sessions of the configured servers are opened    *)
(* one after the other when the block is entered, each asked for its       *)
(* tools, and closed in the opposite order when it is left.  Opening,      *)
(* listing and closing are awaited, so calls of other coroutines fall in   *)
(* between.  A client is entered once.                                     *)
(***************************************************************************)
EXTENDS Naturals, Sequences, SequencesExt

CONSTANT Config     \* the servers, in the order of the configuration

ASSUME ConfigAssumption == Config \in Seq(ToSet(Config)) /\ IsInjective(Config)

VARIABLES
  client,    \* new, entering, inside, exiting, exited, broken
  session,   \* [Servers -> {"none", "open", "closed"}]
  toolsets   \* the servers whose tools are listed

sessions == <<client, session, toolsets>>

Servers == ToSet(Config)
InState(s) == {i \in DOMAIN Config : session[Config[i]] = s}
FirstUnopened == Config[CHOOSE i \in InState("none") : \A j \in InState("none") : i <= j]
LastOpen      == Config[CHOOSE i \in InState("open") : \A j \in InState("open") : i >= j]
Listing == {s \in Servers : session[s] = "open" /\ s \notin toolsets}

SessionsInit ==
  /\ client = "new"
  /\ session = [s \in Servers |-> "none"]
  /\ toolsets = {}

Enter ==
  /\ client = "new" /\ client' = "entering"
  /\ UNCHANGED <<session, toolsets>>

\* open_session up to its yield: the process or the endpoint, and the handshake.
OpenSession ==
  /\ client = "entering" /\ Listing = {} /\ InState("none") # {}
  /\ session' = [session EXCEPT ![FirstUnopened] = "open"]
  /\ UNCHANGED <<client, toolsets>>

ListTools ==
  /\ client = "entering"
  /\ \E s \in Listing : toolsets' = toolsets \cup {s}
  /\ UNCHANGED <<client, session>>

Entered ==
  /\ client = "entering" /\ toolsets = Servers
  /\ client' = "inside"
  /\ UNCHANGED <<session, toolsets>>

(***************************************************************************)
(* A server does not start, does not speak the protocol or does not list   *)
(* its tools: __aenter__ raises, and with it the stack that would close    *)
(* the sessions opened before is never left.                               *)
(***************************************************************************)
EnterFails ==
  /\ client = "entering" /\ (Listing # {} \/ InState("none") # {})
  /\ client' = "broken"
  /\ UNCHANGED <<session, toolsets>>

Exit ==
  /\ client = "inside" /\ client' = "exiting"
  /\ UNCHANGED <<session, toolsets>>

\* Mutant: the sessions are closed in the order they were opened.
CloseSession_First ==
  /\ client = "exiting" /\ InState("open") # {}
  /\ session' = [session EXCEPT
       ![Config[CHOOSE i \in InState("open") : \A j \in InState("open") : i <= j]] = "closed"]
  /\ UNCHANGED <<client, toolsets>>

CloseSession ==
  /\ client = "exiting" /\ InState("open") # {}
  /\ session' = [session EXCEPT ![LastOpen] = "closed"]
  /\ UNCHANGED <<client, toolsets>>

\* The stack is unwound.  Where a session did not close cleanly the others are
\* closed all the same, but aclose raises in the end and the lists stay.
Exited ==
  /\ client = "exiting" /\ InState("open") = {}
  /\ client' = "exited" /\ toolsets' \in {{}, toolsets}
  /\ UNCHANGED session

SessionStep ==
  OpenSession \/ ListTools \/ Entered \/ CloseSession \/ Exited
=============================================================================
