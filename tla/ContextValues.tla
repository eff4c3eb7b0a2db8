---------------------------- MODULE ContextValues ---------------------------
(***************************************************************************)
(* The values of a connection's Context (context.go).  The embedded        *)
(* context.Context is a chain to which SetValue prepends: it reads the     *)
(* field and replaces it, without the Mutex beside it.  HandleConn and the *)
(* callbacks it runs set values one after the other until the connection's *)
(* channels are dispatched; from then on every goroutine that has the      *)
(* Context may.  It is assumed that the application uses the Context only  *)
(* in callbacks until then, and never sets a key of the package.           *)
(***************************************************************************)
EXTENDS Naturals

CONSTANTS
  Session,   \* The sessions of the connection: their request loops.
  Task,      \* Handlers and other callbacks of the application.
  AppKey     \* The keys the application uses.

(* ContextKey... and contextKey... of the package. *)
Metadata == {"session-id", "client-version", "server-version", "user", "local-addr", "remote-addr"}
ConnKey  == Metadata \cup {"server", "permissions", "conn", "keep-alive", "open-channels"}
OwnKey   == ConnKey \cup {"public-key", "auth-agent-req"}

VARIABLES
  stage,     \* How far HandleConn has come.
  own, app,  \* The keys Value finds: the package's and the application's.
  setting,   \* The sessions and tasks that are in SetValue, each with what
             \* it read and the keys it will have written.
  asked      \* Sessions whose auth-agent-req has been handled.

vars == <<stage, own, app, setting, asked>>

Stage == {"callback", "handshake", "conn", "metadata", "keepalive", "channels", "dispatched"}

(* newContext sets the first two. *)
Init ==
  /\ stage = "callback"
  /\ own = {"server", "permissions"} /\ app = {}
  /\ setting = {} /\ asked = {}

-----------------------------------------------------------------------------
(* The goroutine of HandleConn. *)

(* ConnCallback or a handler of the authentication sets a value. *)
CallbackSets(k) ==
  /\ stage \in {"callback", "handshake"}
  /\ app' = app \cup {k}
  /\ UNCHANGED <<stage, own, setting, asked>>

StartHandshake ==
  /\ stage = "callback" /\ stage' = "handshake"
  /\ UNCHANGED <<own, app, setting, asked>>

applyConnMetadata == IF "session-id" \in own THEN own ELSE own \cup Metadata

(* PasswordCallback, KeyboardInteractiveCallback and PublicKeyCallback of  *)
(* config, as often as the client tries.                                   *)
Authenticate(accepted) ==
  /\ stage = "handshake"
  /\ own' = applyConnMetadata \cup accepted
  /\ UNCHANGED <<stage, app, setting, asked>>

Handshake ==
  /\ stage = "handshake" /\ stage' = "conn"
  /\ UNCHANGED <<own, app, setting, asked>>

SetUp ==
  /\ \/ stage = "conn"      /\ stage' = "metadata"   /\ own' = own \cup {"conn"}
     \/ stage = "metadata"  /\ stage' = "keepalive"  /\ own' = applyConnMetadata
     \/ stage = "keepalive" /\ stage' = "channels"   /\ own' = own \cup {"keep-alive"}
     \/ stage = "channels"  /\ stage' = "dispatched" /\ own' = own \cup {"open-channels"}
  /\ UNCHANGED <<app, setting, asked>>

-----------------------------------------------------------------------------
(* SetValue in any goroutine of the connection. *)
Idle(g) == \A s \in setting : s.by # g

(* A session's loop handles auth-agent-req ... *)
AgentRequest(g) ==
  /\ stage = "dispatched" /\ Idle(g)
  /\ setting' = setting \cup {[by |-> g, own |-> own \cup {"auth-agent-req"}, app |-> app]}
  /\ UNCHANGED <<stage, own, app, asked>>

(* ... the application sets a value of its own ... *)
TaskSets(g, k) ==
  /\ stage = "dispatched" /\ Idle(g)
  /\ setting' = setting \cup {[by |-> g, own |-> own, app |-> app \cup {k}]}
  /\ UNCHANGED <<stage, own, app, asked>>

(* ... and the field is replaced. *)
SetReturns(s) ==
  /\ own' = s.own /\ app' = s.app
  /\ setting' = setting \ {s}
  /\ asked' = asked \cup ({s.by} \cap Session)
  /\ UNCHANGED stage

Next ==
  \/ StartHandshake \/ Handshake \/ SetUp
  \/ \E k \in AppKey : CallbackSets(k) \/ \E g \in Task : TaskSets(g, k)
  \/ \E accepted \in {{}, {"public-key"}} : Authenticate(accepted)
  \/ \E g \in Session : AgentRequest(g)
  \/ \E s \in setting : SetReturns(s)

Spec == Init /\ [][Next]_vars

-----------------------------------------------------------------------------
(* agent.go 25-26: "SetAgentRequested sets up the session context so that  *)
(* AgentRequested returns true."  It does until a SetValue that had read   *)
(* the field before replaces it.                                           *)
AgentRequestedReturnsTrue == asked # {} => "auth-agent-req" \in own

(* Once channels are dispatched Value finds what the accessors assert and  *)
(* the goroutines of the connection use: whatever values get lost, these   *)
(* are part of everything that is read and written back.                   *)
AccessorsSucceed == stage = "dispatched" => ConnKey \subseteq own

(* Inductive: what HandleConn has set so far, and what was read of it. *)
ContextInv ==
  /\ stage \in Stage
  /\ {"server", "permissions"} \subseteq own
  /\ stage \notin {"callback", "handshake", "conn"} => "conn" \in own
  /\ stage \in {"keepalive", "channels", "dispatched"} => Metadata \subseteq own
  /\ stage \in {"channels", "dispatched"} => "keep-alive" \in own
  /\ stage = "dispatched" => "open-channels" \in own
  /\ "session-id" \in own => Metadata \subseteq own
  /\ \A s \in setting : stage = "dispatched" /\ ConnKey \subseteq s.own
=============================================================================
