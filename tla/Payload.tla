------------------------------- MODULE Payload ------------------------------
(***************************************************************************)
(* The payloads of session requests: the parsers of util.go, and the wire  *)
(* format (RFC 4251, 4254) a client encodes them with.  A payload is a     *)
(* sequence of bytes, a string a sequence of bytes.                        *)
(***************************************************************************)
EXTENDS Naturals, SequencesExt

Failed == [ok |-> FALSE]

(* parseUint32, parseBool and parseString: a value and the rest, or not ok *)
(* when the payload is too short.                                          *)
Uint32(in) ==
  IF Len(in) < 4 THEN Failed
  ELSE [ok |-> TRUE, val |-> ((in[1] * 256 + in[2]) * 256 + in[3]) * 256 + in[4],
        rem |-> SubSeq(in, 5, Len(in))]

Bool(in) ==
  IF in = <<>> THEN Failed ELSE [ok |-> TRUE, val |-> in[1] = 1, rem |-> Tail(in)]

String(in) ==
  LET n == Uint32(in)
  IN IF ~n.ok \/ Len(n.rem) < n.val THEN Failed
     ELSE [ok |-> TRUE, val |-> SubSeq(n.rem, 1, n.val),
           rem |-> SubSeq(n.rem, n.val + 1, Len(n.rem))]

(* One field after the other; the values so far and the rest, or not ok. *)
Field(r, kind) ==
  IF ~r.ok THEN Failed
  ELSE LET f == CASE kind = "uint32" -> Uint32(r.rem)
                  [] kind = "bool"   -> Bool(r.rem)
                  [] OTHER           -> String(r.rem)
       IN IF f.ok THEN [ok |-> TRUE, vals |-> Append(r.vals, f.val), rem |-> f.rem] ELSE Failed

Fields(kinds, in) == FoldLeft(Field, [ok |-> TRUE, vals |-> <<>>, rem |-> in], kinds)

WindowFields == <<"uint32", "uint32", "uint32", "uint32">>

parseWindow(in) ==
  LET f == Fields(WindowFields, in)
  IN IF f.ok THEN [ok |-> TRUE, val |-> f.vals, rem |-> f.rem] ELSE Failed

(* The length in front is read and ignored.  An opcode without its four    *)
(* bytes is an error, the end of the payload instead of one is not.  Of an *)
(* opcode given twice the later value counts.                              *)
parseTerminalModes(in) ==
  LET from[i \in Nat] ==
        IF i > Len(in) \/ in[i] = 0 \/ in[i] > 160 THEN [ok |-> TRUE, val |-> <<>>]
        ELSE LET arg  == Uint32(SubSeq(in, i + 1, Len(in)))
                 rest == from[i + 5]
                 Value(op) == IF op \in DOMAIN rest.val THEN rest.val[op] ELSE arg.val
             IN IF arg.ok /\ rest.ok
                THEN [ok |-> TRUE, val |-> [op \in DOMAIN rest.val \cup {in[i]} |-> Value(op)]]
                ELSE Failed
  IN IF Len(in) < 4 THEN Failed ELSE from[5]

parsePtyRequest(in) ==
  LET f == Fields(<<"string">> \o WindowFields, in)
      m == IF f.ok THEN parseTerminalModes(f.rem) ELSE Failed
  IN IF ~m.ok THEN Failed
     ELSE [ok |-> TRUE, val |-> [term |-> f.vals[1], window |-> Tail(f.vals), modes |-> m.val]]

parseX11Request(in) ==
  LET f == Fields(<<"bool", "string", "string", "uint32">>, in)
  IN IF ~f.ok THEN Failed
     ELSE [ok |-> TRUE, val |-> [single |-> f.vals[1], protocol |-> f.vals[2],
                                 data |-> f.vals[3], screen |-> f.vals[4]]]

-----------------------------------------------------------------------------
(* The client's side. *)
PutUint32(n) == <<n \div 16777216, (n \div 65536) % 256, (n \div 256) % 256, n % 256>>
PutBool(b)   == IF b THEN <<1>> ELSE <<0>>
PutString(s) == PutUint32(Len(s)) \o s

PutWindow(w) == FlattenSeq([i \in 1..4 |-> PutUint32(w[i])])

(* modes is a sequence of opcodes and values. *)
PutModes(modes) ==
  PutString(Append(FlattenSeq([i \in DOMAIN modes |-> <<modes[i][1]>> \o PutUint32(modes[i][2])]), 0))

PutPty(p) == PutString(p.term) \o PutWindow(p.window) \o PutModes(p.modes)
PutX11(x) == PutBool(x.single) \o PutString(x.protocol) \o PutString(x.data) \o PutUint32(x.screen)
=============================================================================
