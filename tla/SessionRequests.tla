--------------------------- MODULE SessionRequests --------------------------
(***************************************************************************)
(* What a session's handler is started with (session.go): the request loop *)
(* fills the fields of session until a shell, exec or subsystem request is *)
(* granted, and the handler's goroutine reads them, without a lock, through*)
(* Command, Environ, Pty, X11 and Subsystem from then on.  The control of  *)
(* the loop and its goroutines is module Session.                          *)
(***************************************************************************)
EXTENDS Shlex, Payload

CONSTANTS
  Commands,     \* [words, how] of the exec requests; see Shlex.
  Subsystems,   \* Names of subsystems.
  Served,       \* Those with an entry in subsystemHandlers (or "default").
  Vars,         \* Environment variables.
  Ptys, X11s,   \* What the client asks for, see Payload.
  Windows,      \* Sizes of window-change requests.
  Texts,        \* What the handler writes.
  MaxRequests,  \* Bound on the requests that are not ignored.
  MaxWrites     \* Bound on the writes.

ASSUME RequestsAssumption ==
  /\ MaxRequests \in Nat /\ MaxWrites \in Nat
  /\ Served \subseteq Subsystems
  /\ \A c \in Commands : c.how \in Quoting

VARIABLES
  \* Fields of session; pty and x11 are nil or the set of one value.
  handled, rawCmd, subsystem, env, pty, x11,
  disabled,   \* disablePtyEmulation.
  out,        \* What was written to the channel.
  \* History.
  started,    \* The request that started the handler, or "none".
  meant,      \* What the client meant with it.
  askedPty, askedX11,  \* What it meant with the pty and X11 requests granted.
  texts,      \* What the handler has written ...
  counts,     \* ... and what Write returned.
  requests    \* How many requests there were.

startVars == <<handled, rawCmd, subsystem, started, meant>>
ptyVars   == <<pty, askedPty>>
x11Vars   == <<x11, askedX11>>
outVars   == <<disabled, out, texts, counts>>
vars == <<startVars, env, ptyVars, x11Vars, outVars, requests>>

Init ==
  /\ handled = FALSE /\ rawCmd = <<>> /\ subsystem = "" /\ env = <<>>
  /\ pty = {} /\ x11 = {} /\ disabled = FALSE /\ out = <<>>
  /\ started = "none" /\ meant = <<>> /\ askedPty = {} /\ askedX11 = {}
  /\ texts = <<>> /\ counts = <<>> /\ requests = 0

(* The loop reads a request. *)
Reads == requests < MaxRequests /\ requests' = requests + 1

(* The payload arrives whole or as the first n bytes of it. *)
Cut(payload) == {SubSeq(payload, 1, n) : n \in 0..Len(payload)}

-----------------------------------------------------------------------------
(* Faults: definitions below as a plausible bug would have them.           *)

(* A refused request leaves its command behind. *)
FaultyExecRequest(c, text, allowed) ==
  /\ Reads /\ ~handled
  /\ rawCmd' = text /\ handled' = allowed
  /\ IF allowed THEN started' = "exec" /\ meant' = c ELSE UNCHANGED <<started, meant>>
  /\ UNCHANGED <<subsystem, env, ptyVars, x11Vars, outVars>>

(* Variables are taken while the handler runs. *)
FaultyEnvRequest(v) ==
  /\ Reads
  /\ env' = Append(env, v)
  /\ UNCHANGED <<startVars, ptyVars, x11Vars, outVars>>

(* A payload that is too short leaves the field empty. *)
FaultyX11Request(ask, payload, allowed) ==
  /\ Reads /\ ~handled /\ x11 = {}
  /\ LET p == parseX11Request(payload)
         none == [single |-> FALSE, protocol |-> <<>>, data |-> <<>>, screen |-> 0]
     IN /\ allowed
        /\ x11' = {IF p.ok THEN p.val ELSE none}
        /\ askedX11' = {ask}
  /\ UNCHANGED <<startVars, env, ptyVars, outVars>>

(* Every line feed gets a carriage return. *)
FaultyNormalized(p) ==
  FlattenSeq([i \in DOMAIN p |-> IF p[i] = "LF" THEN <<"CR", "LF">> ELSE <<p[i]>>])

-----------------------------------------------------------------------------
(* shell and exec: the field is set before sessReqCb is asked and reset    *)
(* when it refuses.  A shell request has no command.                       *)
ExecRequest(c, text, allowed) ==
  /\ Reads /\ ~handled
  /\ rawCmd' = IF allowed THEN text ELSE <<>>
  /\ handled' = allowed
  /\ IF allowed THEN started' = "exec" /\ meant' = c ELSE UNCHANGED <<started, meant>>
  /\ UNCHANGED <<subsystem, env, ptyVars, x11Vars, outVars>>

ShellRequest(allowed) ==
  /\ Reads /\ ~handled
  /\ rawCmd' = <<>>
  /\ handled' = allowed
  /\ IF allowed THEN started' = "shell" /\ meant' = <<>> ELSE UNCHANGED <<started, meant>>
  /\ UNCHANGED <<subsystem, env, ptyVars, x11Vars, outVars>>

(* A refused request resets the command; the subsystem stays. *)
SubsystemRequest(name, allowed) ==
  /\ Reads /\ ~handled
  /\ subsystem' = name
  /\ rawCmd' = IF allowed THEN rawCmd ELSE <<>>
  /\ handled' = (allowed /\ name \in Served)
  /\ IF handled' THEN started' = "subsystem" /\ meant' = name ELSE UNCHANGED <<started, meant>>
  /\ UNCHANGED <<env, ptyVars, x11Vars, outVars>>

EnvRequest(v) ==
  /\ Reads /\ ~handled
  /\ env' = Append(env, v)
  /\ UNCHANGED <<startVars, ptyVars, x11Vars, outVars>>

PtyRequest(ask, payload, allowed) ==
  /\ Reads /\ ~handled /\ pty = {}
  /\ LET p == parsePtyRequest(payload)
     IN p.ok /\ allowed /\ pty' = {p.val} /\ askedPty' = {ask}
  /\ UNCHANGED <<startVars, env, x11Vars, outVars>>

X11Request(ask, payload, allowed) ==
  /\ Reads /\ ~handled /\ x11 = {}
  /\ LET p == parseX11Request(payload)
     IN p.ok /\ allowed /\ x11' = {p.val} /\ askedX11' = {ask}
  /\ UNCHANGED <<startVars, env, ptyVars, outVars>>

(* The size may change at any time, also under the handler. *)
WindowChange(win, payload) ==
  /\ Reads /\ pty # {}
  /\ LET p == parseWindow(payload)
     IN /\ p.ok
        /\ pty'      = {[q EXCEPT !.window = p.val] : q \in pty}
        /\ askedPty' = {[q EXCEPT !.window = win] : q \in askedPty}
  /\ UNCHANGED <<startVars, env, x11Vars, outVars>>

-----------------------------------------------------------------------------
(* The handler. *)

(* bytes.ReplaceAll of LF by CR LF, then of CR CR LF by CR LF. *)
Normalized(p) ==
  LET q == FlattenSeq([i \in DOMAIN p |-> IF p[i] = "LF" THEN <<"CR", "LF">> ELSE <<p[i]>>])
      Extra(i) == i + 2 \in DOMAIN q /\ SubSeq(q, i, i + 2) = <<"CR", "CR", "LF">>
  IN FlattenSeq([i \in DOMAIN q |-> IF Extra(i) THEN <<>> ELSE <<q[i]>>])

Write(p) ==
  /\ handled /\ Len(texts) < MaxWrites
  /\ LET written == IF pty # {} /\ ~disabled THEN Normalized(p) ELSE p
         n == Len(written)
     IN /\ out' = out \o written
        /\ counts' = Append(counts, IF n > Len(p) THEN Len(p) ELSE n)
  /\ texts' = Append(texts, p)
  /\ UNCHANGED <<startVars, env, ptyVars, x11Vars, disabled, requests>>

(* It must precede the first write (session.go 98). *)
DisablePTYEmulation ==
  /\ handled /\ texts = <<>>
  /\ disabled' = TRUE
  /\ UNCHANGED <<startVars, env, ptyVars, x11Vars, out, texts, counts, requests>>

Next ==
  \/ \E allowed \in BOOLEAN :
       \/ \E c \in Commands : ExecRequest(c, Quoted(c.words, c.how), allowed)
       \/ ShellRequest(allowed)
       \/ \E name \in Subsystems : SubsystemRequest(name, allowed)
       \/ \E ask \in Ptys : \E payload \in Cut(PutPty(ask)) : PtyRequest(ask, payload, allowed)
       \/ \E ask \in X11s : \E payload \in Cut(PutX11(ask)) : X11Request(ask, payload, allowed)
  \/ \E v \in Vars : EnvRequest(v)
  \/ \E win \in Windows : \E payload \in Cut(PutWindow(win)) : WindowChange(win, payload)
  \/ \E p \in Texts : Write(p)
  \/ DisablePTYEmulation

Spec == Init /\ [][Next]_vars

-----------------------------------------------------------------------------
(* The handler gets the words, and only those, the client quoted for it in *)
(* the request that was granted, whatever was refused before: none for a   *)
(* shell or a subsystem.  Two kinds of word come out otherwise than a      *)
(* POSIX shell has it (session.go 45-47): an empty one is lost, and within *)
(* double quotes the backslash that escapes a $ or ` stays.                *)
CharRead(c, how)     == IF how = "double" /\ c = "dollar" THEN <<"backslash", c>> ELSE <<c>>
WordRead(word, how)  == FlattenSeq([i \in DOMAIN word |-> CharRead(word[i], how)])
WordsRead(words, how) ==
  FlattenSeq([i \in DOMAIN words |->
    IF words[i] = <<>> THEN <<>> ELSE <<WordRead(words[i], how)>>])

CommandAsMeant ==
  handled =>
    Split(rawCmd) = IF started = "exec" THEN WordsRead(meant.words, meant.how) ELSE <<>>

(* What Pty and X11 report is what the client asked for in the request     *)
(* that was granted, the window what it asked for last.  Of a payload that *)
(* is cut off only whole terminal modes at its end may be missing, never a *)
(* field and never the value of a mode.                                    *)
ModesOf(ask, n) ==
  LET Latest(op) == Max({i \in 1..n : ask.modes[i][1] = op})
  IN [op \in {ask.modes[i][1] : i \in 1..n} |-> ask.modes[Latest(op)][2]]

GrantedAsAsked ==
  /\ x11 = askedX11
  /\ \A p \in pty : \E ask \in askedPty :
       /\ p.term = ask.term /\ p.window = ask.window
       /\ \E n \in 0..Len(ask.modes) : p.modes = ModesOf(ask, n)

(* A terminal gets every line feed after a carriage return and otherwise   *)
(* the bytes the handler wrote; Write counts the handler's bytes, not      *)
(* those it added, as io.Writer has it.                                    *)
CRLF(p) ==
  FlattenSeq([i \in DOMAIN p |->
    IF p[i] = "LF" /\ (i = 1 \/ p[i - 1] # "CR") THEN <<"CR", "LF">> ELSE <<p[i]>>])

WrittenAsMeant ==
  /\ out = FlattenSeq([i \in DOMAIN texts |->
             IF pty # {} /\ ~disabled THEN CRLF(texts[i]) ELSE texts[i]])
  /\ \A i \in DOMAIN counts : counts[i] = Len(texts[i])

(* The loop goes on to take requests while the handler reads the fields    *)
(* without a lock: none of them changes any more, except the pty's window. *)
FrozenAfterStart ==
  [][handled => /\ UNCHANGED <<handled, rawCmd, subsystem, env, x11>>
                /\ pty' = {} <=> pty = {}
                /\ \A p \in pty, q \in pty' : p = [q EXCEPT !.window = p.window]]_vars
=============================================================================
