---------------------------- MODULE ContextProofs ---------------------------
(***************************************************************************)
(* For any sessions, tasks and keys: what the accessors of a connection's  *)
(* Context assert is found, although SetValue may lose other values.       *)
(***************************************************************************)
EXTENDS ContextValues, TLAPS

LEMMA StepKeeps ==
  ASSUME ContextInv, [Next]_vars
  PROVE  ContextInv'
<1> USE DEF ContextInv, Stage, ConnKey, Metadata
<1>1. CASE StartHandshake  BY <1>1 DEF StartHandshake
<1>2. CASE Handshake  BY <1>2 DEF Handshake
<1>3. CASE SetUp  BY <1>3 DEF SetUp, applyConnMetadata
<1>4. ASSUME NEW k \in AppKey, CallbackSets(k) PROVE ContextInv'
  BY <1>4 DEF CallbackSets
<1>5. ASSUME NEW k \in AppKey, NEW g \in Task, TaskSets(g, k) PROVE ContextInv'
  BY <1>5 DEF TaskSets
<1>6. ASSUME NEW accepted \in {{}, {"public-key"}}, Authenticate(accepted) PROVE ContextInv'
  BY <1>6 DEF Authenticate, applyConnMetadata
<1>7. ASSUME NEW g \in Session, AgentRequest(g) PROVE ContextInv'
  BY <1>7 DEF AgentRequest
<1>8. ASSUME NEW s \in setting, SetReturns(s) PROVE ContextInv'
  BY <1>8 DEF SetReturns
<1>9. CASE UNCHANGED vars  BY <1>9 DEF vars
<1>10. QED
  BY <1>1, <1>2, <1>3, <1>4, <1>5, <1>6, <1>7, <1>8, <1>9 DEF Next

(* After the dispatch User, SessionID, KeepAlive and the other accessors   *)
(* of context.go 143-176 find a value, in every goroutine of the           *)
(* connection: a SetValue that overwrites another loses only values that   *)
(* were set after the dispatch.                                            *)
THEOREM AccessorsFindValues == Spec => []AccessorsSucceed
<1>1. Init => ContextInv
  BY DEF Init, ContextInv, Stage, Metadata
<1>2. ContextInv => AccessorsSucceed
  BY DEF ContextInv, AccessorsSucceed, ConnKey, Metadata
<1>3. QED  BY <1>1, <1>2, StepKeeps, PTL DEF Spec
=============================================================================
