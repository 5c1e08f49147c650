-------------------------------- MODULE Wire --------------------------------
(***************************************************************************)
(* The byte buffers that the SMB2 structures are encoded into and decoded  *)
(* from (src/smb/internal/smb2).  An encoder is a Size() and a sequence of *)
(* writes at fixed or computed offsets; a decoder is a slice and reads at  *)
(* such offsets.  The payload of a field is irrelevant to the layout, so a *)
(* field's value is its name; offsets, counts and lengths, which steer the *)
(* decoder, are numbers.  Every value is a pair <<tag, number>>: a field f *)
(* of the k-th entry of a list is <<f, k>> and a number x is <<"#", x>>.   *)
(***************************************************************************)
EXTENDS Integers, Sequences, SequencesExt, FiniteSetsExt

Zero  == <<"#", 0>>      \* bytes nobody wrote: the buffer is made zeroed
Empty == <<"", 0>>       \* an empty slice
Torn  == <<"torn", 0>>   \* the bytes of more than one write, or part of one
Panic == <<"panic", 0>>  \* a slice beyond the buffer

Roundup(x, align) == ((x + align - 1) \div align) * align

(* The width of the unsigned integers: an n-byte field keeps x modulo 2^8n *)
(* (four and eight bytes are wider than any number of the model).          *)
U(n, x) == CASE n = 1 -> x % 256 [] n = 2 -> x % 65536 [] OTHER -> x

F(f, at, n) == [at |-> at, n |-> n, v |-> <<f, 0>>]
N(at, n, x) == [at |-> at, n |-> n, v |-> <<"#", U(n, x)>>]

(* Size() and Encode() of a structure; list holds the entries it carries.  *)
Msg(size, puts) == [size |-> size, puts |-> puts, list |-> <<>>]
MsgList(size, puts, list) == [size |-> size, puts |-> puts, list |-> list]

(* c.Encode(b[off:]) *)
At(off, m) == [i \in DOMAIN m.puts |-> [m.puts[i] EXCEPT !.at = @ + off]]
(* The k-th entry of a list: its fields carry the index k. *)
Entry(k, m) ==
  [m EXCEPT !.puts = [i \in DOMAIN m.puts |->
                        IF m.puts[i].v[1] = "#" THEN m.puts[i]
                        ELSE [m.puts[i] EXCEPT !.v = <<@[1], k>>]]]

(* What b[at : at+n] holds after all the writes: the last write decides.   *)
Read(p, at, n) ==
  LET hits == {i \in DOMAIN p.puts : /\ p.puts[i].at < at + n
                                     /\ at < p.puts[i].at + p.puts[i].n}
      last == p.puts[Max(hits)]
  IN  CASE at + n > p.size -> Panic
        [] n = 0 -> Empty
        [] hits = {} -> Zero
        [] last.at = at /\ last.n = n -> last.v
        [] OTHER -> Torn
Num(p, at, n) == Read(p, at, n)[2]

(* b[at : at+n] as the argument of a nested decoder. *)
Slice(p, at, n) ==
  LET in == SelectSeq(p.puts, LAMBDA w : w.at + w.n > at)
  IN  Msg(n, [i \in DOMAIN in |-> [in[i] EXCEPT !.at = @ - at]])
From(p, at) == Slice(p, at, p.size - at)

(* Where the loops that encode a chain of contexts put each of them, and   *)
(* the end of the last.                                                    *)
ChainOffs(cs, start) ==
  LET off[i \in DOMAIN cs] ==
        Roundup(IF i = 1 THEN start ELSE off[i - 1] + cs[i - 1].size, 8)
  IN  off
ChainEnd(cs, start) ==
  IF cs = <<>> THEN start ELSE ChainOffs(cs, start)[Len(cs)] + cs[Len(cs)].size
ChainPuts(cs, start) ==
  FlattenSeq([i \in DOMAIN cs |-> At(ChainOffs(cs, start)[i], cs[i])])
TotalSize(cs) == FoldLeft(LAMBDA s, c : s + c.size, 0, cs)

(* The result of a decoder: ~IsInvalid(), the accessors, the entries.      *)
Dec(ok, got) == [ok |-> ok, got |-> got, list |-> <<>>]
DecList(ok, got, list) == [ok |-> ok, got |-> got, list |-> list]

-----------------------------------------------------------------------------
(* Encode stays inside the buffer of Size() bytes. *)
FitsIn(p) == \A i \in DOMAIN p.puts : p.puts[i].at + p.puts[i].n <= p.size
(* No write of a field is destroyed by a later one. *)
IntactIn(p) ==
  \A i \in DOMAIN p.puts :
     p.puts[i].n > 0 /\ p.puts[i].v[1] # "#"
       => Read(p, p.puts[i].at, p.puts[i].n) = p.puts[i].v
(* The decoder accepts what the encoder wrote and gives every field back;  *)
(* one the sender left out reads as nothing.                               *)
SentIn(p, f) == \E i \in DOMAIN p.puts : p.puts[i].v = <<f, 0>> /\ p.puts[i].n > 0
FieldsBack(p, d) ==
  /\ d.ok
  /\ \A f \in DOMAIN d.got :
        IF SentIn(p, f) THEN d.got[f] = <<f, 0>> ELSE d.got[f] \in {Zero, Empty}
=============================================================================
