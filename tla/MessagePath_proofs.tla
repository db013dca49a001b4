-------------------------- MODULE MessagePath_proofs --------------------------
(***************************************************************************)
(* Proofs about MessagePath, for every chain, size of message, segment and *)
(* buffer, and every number of applications: that the protocols of a chain *)
(* undo each other, that chains are counted, and that the messages of a    *)
(* stream are shown once and in order.                                     *)
(*                                                                         *)
(* A packing of a message is the sequence of its levels: the message and   *)
(* what each protocol makes of the one before.  DataInv says that what is  *)
(* written is a packing of what was sent; OrderInv that on a stream what   *)
(* was shown, the jobs, the message put together and what is under way     *)
(* are, one behind the other, of increasing sends.                         *)
(***************************************************************************)
EXTENDS MessagePath, WellFoundedInduction, TLAPS

-----------------------------------------------------------------------------
(* Induction over the places of a chain: the library's theorems that take a *)
(* predicate cannot be instantiated, so the least element of a set is used. *)

(* A set of numbers with 0 and the successor of each is that of all.        *)
LEMMA SetInduction ==
    ASSUME NEW S \in SUBSET Nat, 0 \in S, \A n \in S : n + 1 \in S
    PROVE  S = Nat
<1> DEFINE R == OpToRel(<, Nat)
<1>1. IsWellFoundedOn(R, Nat)
  BY NatLessThanWellFounded
<1>2. SUFFICES ASSUME Nat \ S # {} PROVE FALSE
  OBVIOUS
<1>3. \A x, y \in Nat : y < x => <<y, x>> \in R
  BY DEF OpToRel
<1> HIDE DEF R
<1>4. PICK x \in Nat \ S : \A y \in Nat \ S : ~ (<<y, x>> \in R)
  BY <1>1, <1>2, WFMin
<1>5. x - 1 \in Nat /\ (x - 1) + 1 = x /\ x - 1 < x
  OBVIOUS
<1>6. <<x - 1, x>> \in R
  BY <1>3, <1>5
<1>7. x - 1 \in S
  BY <1>4, <1>5, <1>6
<1> QED
  BY <1>4, <1>5, <1>7

(* What holds of 0 and is kept up to N holds up to N. *)
LEMMA UpTo ==
    ASSUME NEW N \in Nat, NEW S, 0 \in S, \A n \in 0 .. N - 1 : n \in S => n + 1 \in S
    PROVE  \A n \in 0 .. N : n \in S
<1> DEFINE T == {n \in Nat : n <= N => n \in S}
<1>1. 0 \in T /\ \A n \in T : n + 1 \in T
  OBVIOUS
<1>2. T = Nat
  <2> HIDE DEF T
  <2>1. T \in SUBSET Nat
    BY DEF T
  <2> QED
    BY <1>1, <2>1, SetInduction
<1> QED
  BY <1>2

-----------------------------------------------------------------------------
(* The recursive definitions are those of functions that exist. *)

(* One step of UnpackChain. *)
UnpackNext(c, k, u) ==
    IF u.res # "ok" THEN u
    ELSE IF u.body = << >> THEN Unpacked("ok", << >>, Nobody)
    ELSE Unpack(c[Len(c) + 1 - k], u.body)

(* Chain c makes u of data. *)
Unpacks(c, data, u) ==
    \E at : /\ at = [k \in 0 .. Len(c) |-> IF k = 0 THEN Unpacked("ok", data, Nobody)
                                           ELSE UnpackNext(c, k, at[k - 1])]
           /\ u = at[Len(c)]

(* UnpackChain takes the steps of UnpackNext: its recursion is a function.  *)
LEMMA UnpackSteps ==
    ASSUME Len(chain) \in Nat, NEW data
    PROVE  Unpacks(chain, data, UnpackChain(data))
<1> DEFINE Good(g, n) == g = [k \in 0 .. n |-> IF k = 0 THEN Unpacked("ok", data, Nobody)
                                               ELSE UnpackNext(chain, k, g[k - 1])]
           S == {n \in Nat : \E g : Good(g, n)}
<1>1. 0 \in S
  <2>1. Good([k \in 0 .. 0 |-> Unpacked("ok", data, Nobody)], 0)
    OBVIOUS
  <2> QED
    BY <2>1
<1>2. ASSUME NEW n \in 0 .. Len(chain) - 1, n \in S
      PROVE  n + 1 \in S
  <2>1. PICK g : Good(g, n)
    BY <1>2
  <2> DEFINE h == [k \in 0 .. n + 1 |-> IF k <= n THEN g[k] ELSE UnpackNext(chain, k, g[n])]
  <2>2. \A k \in 0 .. n : g[k] = IF k = 0 THEN Unpacked("ok", data, Nobody)
                                 ELSE UnpackNext(chain, k, g[k - 1])
    BY <2>1
  <2>3. \A k \in 0 .. n + 1 : h[k] = IF k = 0 THEN Unpacked("ok", data, Nobody)
                                     ELSE UnpackNext(chain, k, h[k - 1])
    BY <2>2
  <2>4. Good(h, n + 1)
    <3>1. h = [k \in 0 .. n + 1 |-> h[k]]
      OBVIOUS
    <3> HIDE DEF h
    <3> QED
      BY <2>3, <3>1
  <2>5. \E f : Good(f, n + 1)
    <3> HIDE DEF Good, h
    <3> QED
      BY <2>4
  <2> QED
    <3> HIDE DEF Good
    <3> QED
      BY <2>5
<1>3. PICK g : Good(g, Len(chain))
  <2> HIDE DEF S
  <2>0. \A n \in 0 .. Len(chain) - 1 : n \in S => n + 1 \in S
    BY <1>2
  <2>1. \A n \in 0 .. Len(chain) : n \in S
    BY <1>1, <2>0, UpTo
  <2>2. Len(chain) \in S
    BY <2>1
  <2> QED
    BY <2>2 DEF S
<1> DEFINE at == CHOOSE f : f = [k \in 0 .. Len(chain) |->
                    IF k = 0 THEN Unpacked("ok", data, Nobody)
                    ELSE IF f[k - 1].res # "ok" THEN f[k - 1]
                    ELSE IF f[k - 1].body = << >> THEN Unpacked("ok", << >>, Nobody)
                    ELSE Unpack(chain[Len(chain) + 1 - k], f[k - 1].body)]
<1>4. UnpackChain(data) = at[Len(chain)]
  BY DEF UnpackChain
<1>5. Good(at, Len(chain))
  BY <1>3 DEF UnpackNext
<1> HIDE DEF at
<1> QED
  BY <1>4, <1>5 DEF Unpacks

(* One step of PackChain. *)
PackNext(p, n, msg, i, before) ==
    segs[p][i] \o IF i = 1 THEN Pack(chain[1], p, n, msg)
                  ELSE FlattenSeq([j \in DOMAIN before |-> Pack(chain[i], p, n, before[j])])

(* And so is that of PackChain.                                             *)
LEMMA PackSteps ==
    ASSUME chain \in Seq(Protocols), NEW p, NEW n, NEW msg
    PROVE  PackChain(p, n, msg) =
             [i \in 1 .. Len(chain) |-> PackNext(p, n, msg, i, PackChain(p, n, msg)[i - 1])]
<1> DEFINE Good(g, m) == g = [i \in 1 .. m |-> PackNext(p, n, msg, i, g[i - 1])]
           S == {m \in Nat : \E g : Good(g, m)}
<1>0. Len(chain) \in Nat /\ DOMAIN chain = 1 .. Len(chain)
  OBVIOUS
<1>1. 0 \in S
  <2>1. Good([i \in 1 .. 0 |-> 0], 0)
    OBVIOUS
  <2> QED
    <3> HIDE DEF Good
    <3> QED
      BY <2>1
<1>2. ASSUME NEW m \in 0 .. Len(chain) - 1, m \in S
      PROVE  m + 1 \in S
  <2>1. PICK g : Good(g, m)
    BY <1>2
  <2> DEFINE h == [i \in 1 .. m + 1 |-> IF i <= m THEN g[i] ELSE PackNext(p, n, msg, i, g[m])]
  <2>2. \A i \in 1 .. m : g[i] = PackNext(p, n, msg, i, g[i - 1])
    BY <2>1
  <2>3. \A a, b : PackNext(p, n, msg, 1, a) = PackNext(p, n, msg, 1, b)
    BY DEF PackNext
  <2>4. \A i \in 1 .. m + 1 : h[i] = PackNext(p, n, msg, i, h[i - 1])
    <3>1. \A i \in 2 .. m + 1 : h[i - 1] = g[i - 1]
      OBVIOUS
    <3>2. h[m + 1] = PackNext(p, n, msg, m + 1, g[m])
      OBVIOUS
    <3>3. \A i \in 1 .. m : h[i] = g[i]
      OBVIOUS
    <3> HIDE DEF h
    <3>4. h[m + 1] = PackNext(p, n, msg, m + 1, h[m])
      <4>1. CASE m = 0
        BY <2>3, <3>2, <4>1
      <4>2. CASE m # 0
        BY <3>3, <3>2, <4>2
      <4> QED
        BY <4>1, <4>2
    <3>5. ASSUME NEW i \in 1 .. m
          PROVE  h[i] = PackNext(p, n, msg, i, h[i - 1])
      <4>1. CASE i = 1
        BY <2>2, <2>3, <3>3, <4>1
      <4>2. CASE i # 1
        BY <2>2, <3>1, <3>3, <4>2
      <4> QED
        BY <4>1, <4>2
    <3> QED
      BY <3>4, <3>5
  <2>5. Good(h, m + 1)
    <3>1. h = [i \in 1 .. m + 1 |-> h[i]]
      OBVIOUS
    <3> HIDE DEF h
    <3> QED
      BY <2>4, <3>1
  <2>6. \E f : Good(f, m + 1)
    <3> HIDE DEF Good, h
    <3> QED
      BY <2>5
  <2> QED
    <3> HIDE DEF Good
    <3> QED
      BY <2>6
<1>3. PICK g : Good(g, Len(chain))
  <2> HIDE DEF S
  <2>1. \A m \in 0 .. Len(chain) - 1 : m \in S => m + 1 \in S
    BY <1>2
  <2>2. \A m \in 0 .. Len(chain) : m \in S
    BY <1>0, <1>1, <2>1, UpTo
  <2>3. Len(chain) \in S
    BY <1>0, <2>2
  <2> QED
    BY <2>3 DEF S
<1> DEFINE Body(f) == [i \in DOMAIN chain |->
                    segs[p][i] \o IF i = 1 THEN Pack(chain[1], p, n, msg)
                                  ELSE FlattenSeq([j \in DOMAIN f[i - 1] |->
                                                      Pack(chain[i], p, n, f[i - 1][j])])]
           all == CHOOSE f : f = Body(f)
<1>4. PackChain(p, n, msg) = all
  BY DEF PackChain
<1>5. Good(all, Len(chain))
  <2>1. ASSUME NEW f
        PROVE  Good(f, Len(chain)) <=> f = Body(f)
    BY <1>0 DEF PackNext
  <2>2. \E f : f = Body(f)
    <3> HIDE DEF Good, Body
    <3> QED
      BY <1>3, <2>1
  <2>3. all = Body(all)
    <3> HIDE DEF Body
    <3> QED
      BY <2>2
  <2> QED
    <3> HIDE DEF Good, Body, all
    <3> QED
      BY <2>1, <2>3
<1> HIDE DEF all
<1> QED
  BY <1>4, <1>5

(* FlattenSeq of no sequence, and of one. *)
LEMMA FlattenNone == FlattenSeq(<< >>) = << >>
  BY DEF FlattenSeq

(* A sequence of one sequence is flattened to that one.                     *)
LEMMA FlattenOne ==
    ASSUME NEW s
    PROVE  FlattenSeq(<<s>>) = s
<1> DEFINE fl == CHOOSE f : f = [i \in 1 .. Len(<<s>>) |->
                                    IF i = 1 THEN <<s>>[i] ELSE f[i - 1] \o <<s>>[i]]
<1>1. Len(<<s>>) = 1 /\ <<s>>[1] = s
  OBVIOUS
<1>2. [i \in 1 .. 1 |-> s] = [i \in 1 .. Len(<<s>>) |->
                                 IF i = 1 THEN <<s>>[i]
                                 ELSE [j \in 1 .. 1 |-> s][i - 1] \o <<s>>[i]]
  BY <1>1
<1>3. fl = [i \in 1 .. Len(<<s>>) |-> IF i = 1 THEN <<s>>[i] ELSE fl[i - 1] \o <<s>>[i]]
  BY <1>2
<1>4. FlattenSeq(<<s>>) = fl[1]
  BY <1>1 DEF FlattenSeq
<1> HIDE DEF fl
<1> QED
  BY <1>1, <1>3, <1>4

-----------------------------------------------------------------------------
(* One protocol. *)

Tokens == [k : {"data", "endian", "ucmd", "name"}, from : Peers, send : Nat, len : Nat]

(* What send n of peer p is made of.  The length in a header is that of     *)
(* something shorter, and the first token is like no other.                 *)
Clean(p, n, s) ==
    /\ s \in Seq(Tokens)
    /\ \A i \in 1 .. Len(s) : s[i].from = p /\ s[i].send = n
    /\ \A i \in 1 .. Len(s) : s[i].k \in {"endian", "ucmd"} => s[i].len < Len(s)
    /\ \A i \in 2 .. Len(s) : s[i] # s[1]

(* The message set is clean: data of its sender and its send, in order.     *)
LEMMA DataClean ==
    ASSUME NEW p \in Peers, NEW n \in Nat, NEW size \in Nat
    PROVE  Clean(p, n, Data(p, n, size))
<1>1. Len(Data(p, n, size)) = size /\ Data(p, n, size) \in Seq(Tokens)
  BY DEF Data, Token, Tokens
<1>2. \A i \in 1 .. size : Data(p, n, size)[i] = Token("data", p, n, i)
  BY DEF Data
<1> QED
  BY <1>1, <1>2 DEF Clean, Token

(* h is a header for the message msg. *)
IsHead(p, n, msg, h) ==
    /\ h \in Seq(Tokens) /\ Len(h) \in {1, 2}
    /\ h[1] \in {Token(k, p, n, Len(msg)) : k \in {"endian", "ucmd"}}
    /\ Len(h) = 2 => h[2] = Token("name", p, n, 0)

(* A header before what is clean is clean.                                  *)
LEMMA Headed ==
    ASSUME NEW p \in Peers, NEW n \in Nat, NEW msg, Clean(p, n, msg), NEW h, IsHead(p, n, msg, h)
    PROVE  /\ Clean(p, n, h \o msg)
           /\ Len(h \o msg) = Len(h) + Len(msg)
           /\ (h \o msg)[1] = h[1]
           /\ Len(h) = 2 => (h \o msg)[2] = h[2]
           /\ \A i \in 1 .. Len(msg) : (h \o msg)[i + Len(h)] = msg[i]
<1> DEFINE s == h \o msg
<1>0. PICK k \in {"endian", "ucmd"} : h[1] = Token(k, p, n, Len(msg))
  BY DEF IsHead
<1>1. /\ msg \in Seq(Tokens) /\ Len(msg) \in Nat
      /\ h \in Seq(Tokens) /\ Len(h) \in {1, 2}
      /\ Len(h) = 2 => h[2] = Token("name", p, n, 0)
  BY DEF Clean, IsHead
<1>2. /\ s \in Seq(Tokens)
      /\ Len(s) = Len(h) + Len(msg)
      /\ \A i \in 1 .. Len(h) : s[i] = h[i]
      /\ \A i \in 1 .. Len(msg) : s[i + Len(h)] = msg[i]
  BY <1>1
<1> HIDE DEF s
<1>3. \A i \in Len(h) + 1 .. Len(s) : i - Len(h) \in 1 .. Len(msg) /\ s[i] = msg[i - Len(h)]
  <2> SUFFICES ASSUME NEW i \in Len(h) + 1 .. Len(s)
               PROVE  i - Len(h) \in 1 .. Len(msg) /\ s[i] = msg[i - Len(h)]
    OBVIOUS
  <2>1. i - Len(h) \in 1 .. Len(msg) /\ (i - Len(h)) + Len(h) = i
    BY <1>1, <1>2
  <2> QED
    BY <1>2, <2>1
<1>4. /\ s[1] = [k |-> k, from |-> p, send |-> n, len |-> Len(msg)]
      /\ Len(h) = 2 => s[2] = [k |-> "name", from |-> p, send |-> n, len |-> 0]
  <2>1. s[1] = h[1] /\ (Len(h) = 2 => s[2] = h[2])
    BY <1>1, <1>2
  <2> QED
    BY <1>0, <1>1, <2>1 DEF Token
<1>5. ASSUME NEW i \in 1 .. Len(s)
      PROVE  /\ s[i].from = p /\ s[i].send = n
             /\ s[i].k \in {"endian", "ucmd"} => s[i].len < Len(s)
             /\ i # 1 => s[i] # s[1]
  <2>1. CASE i <= Len(h)
    BY <1>1, <1>2, <1>4, <2>1
  <2>2. CASE i > Len(h)
    <3>1. i - Len(h) \in 1 .. Len(msg) /\ s[i] = msg[i - Len(h)]
      BY <1>2, <1>3, <2>2
    <3>2. /\ s[i].from = p /\ s[i].send = n
          /\ s[i].k \in {"endian", "ucmd"} => s[i].len < Len(msg)
      BY <3>1 DEF Clean
    <3>3. s[1].k \in {"endian", "ucmd"} /\ s[1].len = Len(msg)
      BY <1>4
    <3>4. s[i].len \in Nat
      <4>1. msg[i - Len(h)] \in Tokens
        BY <1>1, <3>1
      <4> QED
        BY <3>1, <4>1 DEF Tokens
    <3>5. s[i].k \in {"endian", "ucmd"} => s[i].len < Len(s)
      BY <1>1, <1>2, <3>2, <3>4
    <3>6. s[i] # s[1]
      BY <1>1, <3>2, <3>3
    <3> QED
      BY <3>2, <3>5, <3>6
  <2> QED
    BY <1>2, <2>1, <2>2
<1>6. Clean(p, n, s)
  BY <1>2, <1>5 DEF Clean
<1>7. s[1] = h[1] /\ (Len(h) = 2 => s[2] = h[2])
  BY <1>1, <1>2
<1> QED
  BY <1>2, <1>6, <1>7 DEF s

EndianHead(p, n, msg) == <<Token("endian", p, n, Len(msg))>>
UcmdHead(p, n, msg) == <<Token("ucmd", p, n, Len(msg)), Token("name", p, n, 0)>>

(* The headers of the protocols are headers.                                *)
LEMMA Heads ==
    ASSUME NEW p \in Peers, NEW n \in Nat, NEW msg, Clean(p, n, msg)
    PROVE  /\ IsHead(p, n, msg, EndianHead(p, n, msg))
           /\ EndianHead(p, n, msg)[1] = Token("endian", p, n, Len(msg))
           /\ Len(EndianHead(p, n, msg)) = 1
           /\ IsHead(p, n, msg, UcmdHead(p, n, msg))
           /\ UcmdHead(p, n, msg)[1] = Token("ucmd", p, n, Len(msg))
           /\ UcmdHead(p, n, msg)[2] = Token("name", p, n, 0)
           /\ Len(UcmdHead(p, n, msg)) = 2
<1>1. Len(msg) \in Nat
  BY DEF Clean
<1>2. Token("endian", p, n, Len(msg)) \in Tokens
  BY <1>1 DEF Tokens, Token
<1>3. Token("ucmd", p, n, Len(msg)) \in Tokens
  BY <1>1 DEF Tokens, Token
<1>4. Token("name", p, n, 0) \in Tokens
  BY DEF Tokens, Token
<1> QED
  BY <1>2, <1>3, <1>4 DEF EndianHead, UcmdHead, IsHead

(* A protocol makes one segment of a message it takes, if not none. *)
LEMMA PackCases ==
    ASSUME NEW proto \in Protocols, NEW p, NEW n, NEW msg
    PROVE  Pack(proto, p, n, msg) =
             IF proto = "none" THEN <<msg>>
             ELSE IF proto = "ucmd" THEN <<(UcmdHead(p, n, msg) \o msg)>>
             ELSE IF msg = << >> THEN << >> ELSE <<(EndianHead(p, n, msg) \o msg)>>
  BY DEF Pack, Protocols, UcmdHead, EndianHead

(* pack of a clean message gives one clean segment.                         *)
LEMMA PackClean ==
    ASSUME NEW proto \in Protocols, NEW p \in Peers, NEW n \in Nat, NEW msg, Clean(p, n, msg),
           Packs(proto, msg), NEW seg, Pack(proto, p, n, msg) = <<seg>>
    PROVE  Clean(p, n, seg) /\ seg # << >> /\ Len(seg) \in Nat \ {0}
<1>0. Len(msg) \in Nat /\ msg \in Seq(Tokens)
  BY DEF Clean
<1>1. CASE proto = "none"
  <2>1. seg = msg /\ msg # << >>
    BY <1>1, PackCases DEF Packs
  <2> QED
    BY <1>0, <2>1
<1>2. CASE proto = "ucmd"
  <2>1. seg = UcmdHead(p, n, msg) \o msg
    BY <1>2, PackCases
  <2>2. Clean(p, n, seg) /\ Len(seg) = 2 + Len(msg)
    <3>1. IsHead(p, n, msg, UcmdHead(p, n, msg)) /\ Len(UcmdHead(p, n, msg)) = 2
      BY Heads
    <3>2. /\ Clean(p, n, UcmdHead(p, n, msg) \o msg)
          /\ Len(UcmdHead(p, n, msg) \o msg) = Len(UcmdHead(p, n, msg)) + Len(msg)
      <4>1. Clean(p, n, UcmdHead(p, n, msg) \o msg)
        BY <3>1, Headed
      <4>2. UcmdHead(p, n, msg) \in Seq(Tokens)
        BY <3>1 DEF IsHead
      <4> QED
        BY <1>0, <4>1, <4>2
    <3> QED
      BY <2>1, <3>1, <3>2
  <2> QED
    BY <1>0, <2>2 DEF Clean
<1>3. CASE proto = "endian"
  <2>0. msg # << >>
    <3> SUFFICES ASSUME msg = << >> PROVE FALSE
      OBVIOUS
    <3>1. << >> = <<seg>>
      BY <1>3, PackCases
    <3> QED
      BY <3>1
  <2>1. seg = EndianHead(p, n, msg) \o msg
    BY <1>3, <2>0, PackCases
  <2>2. Clean(p, n, seg) /\ Len(seg) = 1 + Len(msg)
    <3>1. IsHead(p, n, msg, EndianHead(p, n, msg)) /\ Len(EndianHead(p, n, msg)) = 1
      BY Heads
    <3>2. /\ Clean(p, n, EndianHead(p, n, msg) \o msg)
          /\ Len(EndianHead(p, n, msg) \o msg) = Len(EndianHead(p, n, msg)) + Len(msg)
      <4>1. Clean(p, n, EndianHead(p, n, msg) \o msg)
        BY <3>1, Headed
      <4>2. EndianHead(p, n, msg) \in Seq(Tokens)
        BY <3>1 DEF IsHead
      <4> QED
        BY <1>0, <4>1, <4>2
    <3> QED
      BY <2>1, <3>1, <3>2
  <2> QED
    BY <1>0, <2>2 DEF Clean
<1> QED
  BY <1>1, <1>2, <1>3 DEF Protocols

(* The places of a sequence that is put together.                           *)
LEMMA ConcatAt ==
    ASSUME NEW S, NEW s \in Seq(S), NEW t \in Seq(S)
    PROVE  /\ s \o t \in Seq(S)
           /\ Len(s \o t) = Len(s) + Len(t)
           /\ \A i \in 1 .. Len(s) : (s \o t)[i] = s[i]
           /\ \A i \in 1 .. Len(t) : (s \o t)[i + Len(s)] = t[i]
  OBVIOUS

(* A prefix has the tokens of what it begins.                               *)
LEMMA PrefixAt ==
    ASSUME NEW s \in Seq(Tokens), NEW t \in Seq(Tokens), IsPrefix(s, t)
    PROVE  Len(s) <= Len(t) /\ \A i \in 1 .. Len(s) : t[i] = s[i]
<1>1. Len(s) <= Len(t) /\ SubSeq(s, 1, Len(s)) = SubSeq(t, 1, Len(s))
  BY DEF IsPrefix
<1>2. /\ \A i \in 1 .. Len(s) : SubSeq(s, 1, Len(s))[i] = s[i]
      /\ \A i \in 1 .. Len(s) : SubSeq(t, 1, Len(s))[i] = t[i]
  BY <1>1
<1> QED
  BY <1>1, <1>2

(* The message msg found behind h tokens of data. *)
LEMMA Behind ==
    ASSUME NEW msg \in Seq(Tokens), NEW data \in Seq(Tokens), NEW h \in Nat,
           Len(msg) + h <= Len(data), \A i \in 1 .. Len(msg) : data[i + h] = msg[i]
    PROVE  SubSeq(data, h + 1, Len(msg) + h) = msg
<1> DEFINE s == SubSeq(data, h + 1, Len(msg) + h)
<1>1. s \in Seq(Tokens) /\ Len(s) = Len(msg)
  OBVIOUS
<1>2. ASSUME NEW i \in 1 .. Len(msg)
      PROVE  s[i] = msg[i]
  <2>1. s[i] = data[(h + 1) + i - 1]
    OBVIOUS
  <2>2. (h + 1) + i - 1 = i + h
    OBVIOUS
  <2> HIDE DEF s
  <2> QED
    BY <2>1, <2>2
<1> HIDE DEF s
<1> QED
  BY <1>1, <1>2

(* Each protocol undoes what it did, whatever follows its segment. *)
LEMMA UnpackPack ==
    ASSUME NEW proto \in Protocols, NEW p \in Peers, NEW n \in Nat, NEW msg, Clean(p, n, msg),
           Packs(proto, msg), NEW seg, Pack(proto, p, n, msg) = <<seg>>,
           NEW data \in Seq(Tokens), IsPrefix(seg, data)
    PROVE  Unpack(proto, data) =
             Unpacked("ok", IF proto = "none" THEN data ELSE msg, IF proto = "ucmd" THEN p ELSE Nobody)
<1>0. /\ Len(msg) \in Nat /\ msg \in Seq(Tokens)
      /\ seg \in Seq(Tokens) /\ Len(seg) \in Nat
  BY PackClean DEF Clean
<1>1. Len(seg) <= Len(data) /\ \A i \in 1 .. Len(seg) : data[i] = seg[i]
  BY <1>0, PrefixAt
<1>2. CASE proto = "none"
  BY <1>2 DEF Unpack
<1>3. CASE proto = "ucmd"
  <2> DEFINE h == UcmdHead(p, n, msg)
  <2>1. seg = h \o msg
    BY <1>3, PackCases
  <2>2. /\ IsHead(p, n, msg, h) /\ h \in Seq(Tokens) /\ Len(h) = 2
        /\ h[1] = Token("ucmd", p, n, Len(msg)) /\ h[2] = Token("name", p, n, 0)
    BY Heads DEF IsHead
  <2> HIDE DEF h
  <2>3. /\ Len(seg) = Len(msg) + 2 /\ seg[1] = h[1] /\ seg[2] = h[2]
        /\ \A i \in 1 .. Len(msg) : seg[i + 2] = msg[i]
    <3>1. /\ Len(seg) = Len(h) + Len(msg)
          /\ \A i \in 1 .. Len(h) : seg[i] = h[i]
          /\ \A i \in 1 .. Len(msg) : seg[i + Len(h)] = msg[i]
      <4>0. h \in Seq(Tokens) /\ msg \in Seq(Tokens)
        BY <1>0, <2>2
      <4>1. /\ Len(h \o msg) = Len(h) + Len(msg)
            /\ \A i \in 1 .. Len(h) : (h \o msg)[i] = h[i]
            /\ \A i \in 1 .. Len(msg) : (h \o msg)[i + Len(h)] = msg[i]
        BY <4>0
      <4> QED
        BY <2>1, <4>1, Zenon
    <3> QED
      BY <1>0, <2>2, <3>1
  <2>4. \A i \in 1 .. Len(msg) : data[i + 2] = msg[i]
    BY <1>0, <1>1, <2>3
  <2>5. SubSeq(data, 3, Len(msg) + 2) = msg
    <3>1. SubSeq(data, 2 + 1, Len(msg) + 2) = msg
      BY <1>0, <1>1, <2>3, <2>4, Behind
    <3> QED
      BY <3>1
  <2>6. data[1] = Token("ucmd", p, n, Len(msg)) /\ data[2] = Token("name", p, n, 0)
    BY <1>0, <1>1, <2>2, <2>3
  <2>7. data[1].k = "ucmd" /\ data[1].len = Len(msg) /\ data[2].from = p
    BY <2>6 DEF Token
  <2>8. ~ (Len(data) <= 1) /\ ~ (Len(msg) > Len(data) - 2)
    BY <1>0, <1>1, <2>3
  <2> QED
    BY <1>3, <2>5, <2>7, <2>8 DEF Unpack
<1>4. CASE proto = "endian"
  <2> DEFINE h == EndianHead(p, n, msg)
  <2>0. msg # << >>
    <3> SUFFICES ASSUME msg = << >> PROVE FALSE
      OBVIOUS
    <3>1. << >> = <<seg>>
      BY <1>4, PackCases
    <3> QED
      BY <3>1
  <2>1. seg = h \o msg
    BY <1>4, <2>0, PackCases
  <2>2. /\ IsHead(p, n, msg, h) /\ h \in Seq(Tokens) /\ Len(h) = 1
        /\ h[1] = Token("endian", p, n, Len(msg))
    BY Heads DEF IsHead
  <2> HIDE DEF h
  <2>3. /\ Len(seg) = Len(msg) + 1 /\ seg[1] = h[1]
        /\ \A i \in 1 .. Len(msg) : seg[i + 1] = msg[i]
    <3>1. /\ Len(seg) = Len(h) + Len(msg)
          /\ \A i \in 1 .. Len(h) : seg[i] = h[i]
          /\ \A i \in 1 .. Len(msg) : seg[i + Len(h)] = msg[i]
      <4>0. h \in Seq(Tokens) /\ msg \in Seq(Tokens)
        BY <1>0, <2>2
      <4>1. /\ Len(h \o msg) = Len(h) + Len(msg)
            /\ \A i \in 1 .. Len(h) : (h \o msg)[i] = h[i]
            /\ \A i \in 1 .. Len(msg) : (h \o msg)[i + Len(h)] = msg[i]
        BY <4>0
      <4> QED
        BY <2>1, <4>1, Zenon
    <3> QED
      BY <1>0, <2>2, <3>1
  <2>4. \A i \in 1 .. Len(msg) : data[i + 1] = msg[i]
    BY <1>0, <1>1, <2>3
  <2>5. SubSeq(data, 2, Len(msg) + 1) = msg
    <3>1. SubSeq(data, 1 + 1, Len(msg) + 1) = msg
      BY <1>0, <1>1, <2>3, <2>4, Behind
    <3> QED
      BY <3>1
  <2>6. data[1] = Token("endian", p, n, Len(msg))
    BY <1>0, <1>1, <2>2, <2>3
  <2>7. data[1].k = "endian" /\ data[1].len = Len(msg)
    BY <2>6 DEF Token
  <2>8. ~ (Len(data) <= 1) /\ ~ (Len(msg) > Len(data) - 1) /\ Len(msg) # 0
    BY <1>0, <1>1, <2>0, <2>3
  <2> QED
    BY <1>4, <2>5, <2>7, <2>8 DEF Unpack
<1> QED
  BY <1>2, <1>3, <1>4 DEF Protocols

-----------------------------------------------------------------------------
(* The chain. *)

(* The protocols 1 .. i of chain c make the message into lv[i], one       *)
(* segment each.                                                            *)
Packing(c, i, p, n, msg, lv) ==
    /\ lv[0] = msg
    /\ \A j \in 1 .. i : /\ Packs(c[j], lv[j - 1])
                         /\ Pack(c[j], p, n, lv[j - 1]) = <<lv[j]>>

(* Each level of a packing is clean.                                        *)
LEMMA PackingClean ==
    ASSUME chain \in Seq(Protocols), NEW i \in 0 .. Len(chain), NEW p \in Peers, NEW n \in Nat,
           NEW msg, Clean(p, n, msg), NEW lv, Packing(chain, i, p, n, msg, lv)
    PROVE  /\ \A j \in 0 .. i : Clean(p, n, lv[j])
           /\ \A j \in 1 .. i : lv[j] # << >>
<1> DEFINE S == {j \in 0 .. i : Clean(p, n, lv[j])}
<1>1. 0 \in S
  BY DEF Packing
<1>2. ASSUME NEW j \in 0 .. i - 1, j \in S
      PROVE  Clean(p, n, lv[j + 1]) /\ lv[j + 1] # << >>
  <2>1. j + 1 \in 1 .. i /\ (j + 1) - 1 = j /\ chain[j + 1] \in Protocols
    OBVIOUS
  <2>2. Packs(chain[j + 1], lv[j]) /\ Pack(chain[j + 1], p, n, lv[j]) = <<lv[j + 1]>>
    BY <2>1 DEF Packing
  <2>3. Clean(p, n, lv[j])
    BY <1>2
  <2> QED
    BY <2>1, <2>2, <2>3, PackClean
<1>3. \A j \in 0 .. i : j \in S
  <2>1. \A j \in 0 .. i - 1 : j \in S => j + 1 \in S
    BY <1>2
  <2>2. i \in Nat
    OBVIOUS
  <2> HIDE DEF S
  <2> QED
    BY <1>1, <2>1, <2>2, UpTo
<1>4. ASSUME NEW j \in 1 .. i
      PROVE  lv[j] # << >>
  <2>1. j - 1 \in 0 .. i - 1 /\ (j - 1) + 1 = j /\ j - 1 \in 0 .. i
    OBVIOUS
  <2>2. j - 1 \in S
    BY <1>3, <2>1
  <2> HIDE DEF S
  <2> QED
    BY <1>2, <2>1, <2>2
<1> QED
  BY <1>3, <1>4

(* A sequence begins with itself; what begins it has its first token.       *)
LEMMA PrefixFacts ==
    ASSUME NEW s \in Seq(Tokens), NEW t \in Seq(Tokens)
    PROVE  /\ IsPrefix(s, s)
           /\ IsPrefix(s, t) /\ s # << >> => t # << >> /\ t[1] = s[1]
<1>1. IsPrefix(s, s)
  BY DEF IsPrefix
<1>2. ASSUME IsPrefix(s, t), s # << >>
      PROVE  t # << >> /\ t[1] = s[1]
  <2>1. Len(s) \in Nat \ {0}
    BY <1>2
  <2>2. Len(s) <= Len(t) /\ \A i \in 1 .. Len(s) : t[i] = s[i]
    BY <1>2, PrefixAt
  <2> QED
    BY <2>1, <2>2
<1> QED
  BY <1>1, <1>2

Bare(k) == \A j \in k .. Len(chain) : chain[j] = "none"

(* Without headers from k + 1 on, and none at k, there are none from k on.  *)
LEMMA BareStep ==
    ASSUME Len(chain) \in Nat, NEW k \in 1 .. Len(chain)
    PROVE  Bare(k) <=> Bare(k + 1) /\ chain[k] = "none"
  BY DEF Bare

(* Of what begins with the last segment, the chain makes the message again. *)
LEMMA UnpackPacking ==
    ASSUME chain \in Seq(Protocols), chain # << >>, NEW p \in Peers, NEW n \in Nat,
           NEW msg, Clean(p, n, msg), NEW lv, Packing(chain, Len(chain), p, n, msg, lv),
           NEW data \in Seq(Tokens), IsPrefix(lv[Len(chain)], data),
           Bare(1) => data = lv[Len(chain)], NEW u, Unpacks(chain, data, u)
    PROVE  /\ u.res = "ok" /\ u.body = msg
           /\ chain[1] = "ucmd" => u.owner = p
<1> DEFINE L == Len(chain)
<1>0. L \in Nat \ {0} /\ \A j \in 1 .. L : chain[j] \in Protocols
  OBVIOUS
<1>1. PICK at : /\ at = [k \in 0 .. L |-> IF k = 0 THEN Unpacked("ok", data, Nobody)
                                          ELSE UnpackNext(chain, k, at[k - 1])]
                /\ u = at[L]
  BY DEF Unpacks
<1>2. at[0] = Unpacked("ok", data, Nobody) /\ \A k \in 1 .. L : at[k] = UnpackNext(chain, k, at[k - 1])
  BY <1>0, <1>1
<1>3. /\ \A j \in 0 .. L : Clean(p, n, lv[j]) /\ lv[j] \in Seq(Tokens)
      /\ \A j \in 1 .. L : lv[j] # << >>
  <2>1. Len(chain) \in 0 .. Len(chain)
    BY <1>0
  <2>2. \A j \in 0 .. L : Clean(p, n, lv[j])
    BY <2>1, PackingClean
  <2>3. \A j \in 1 .. L : lv[j] # << >>
    BY <2>1, PackingClean
  <2>4. \A j \in 0 .. L : lv[j] \in Seq(Tokens)
    BY <2>2 DEF Clean
  <2> QED
    BY <2>2, <2>3, <2>4
<1> HIDE DEF L
<1> DEFINE St(k) == /\ at[k].res = "ok" /\ at[k].body \in Seq(Tokens)
                    /\ IsPrefix(lv[L - k], at[k].body)
                    /\ Bare(L + 1 - k) => at[k].body = data /\ lv[L - k] = lv[L]
                    /\ ~ Bare(L + 1 - k) => at[k].body = lv[L - k]
                    /\ k >= 1 /\ chain[L + 1 - k] = "ucmd" => at[k].owner = p
           S == {k \in 0 .. L : St(k)}
<1>4. 0 \in S
  <2>1. Bare(L + 1)
    BY <1>0 DEF Bare, L
  <2>2. at[0].res = "ok" /\ at[0].body = data
    BY <1>2 DEF Unpacked
  <2>3. IsPrefix(lv[L], data)
    BY DEF L
  <2>4. L - 0 = L /\ L + 1 - 0 = L + 1 /\ ~ (0 >= 1) /\ 0 \in 0 .. L
    BY <1>0
  <2> QED
    BY <2>1, <2>2, <2>3, <2>4
<1>5. ASSUME NEW k \in 0 .. L - 1, St(k)
      PROVE  St(k + 1)
  <2> DEFINE c == chain[L - k]
             body == at[k].body
             next == lv[L - k - 1]
  <2>1. /\ L - k \in 1 .. L /\ L + 1 - (k + 1) = L - k /\ L - (k + 1) = L - k - 1
        /\ k + 1 \in 1 .. L /\ (k + 1) - 1 = k /\ L - k - 1 \in 0 .. L
    BY <1>0
  <2>2. c \in Protocols /\ lv[L - k] # << >> /\ lv[L - k] \in Seq(Tokens) /\ Clean(p, n, next)
    BY <1>0, <1>3, <2>1
  <2>3. Packs(c, next) /\ Pack(c, p, n, next) = <<lv[L - k]>>
    BY <2>1 DEF Packing, L
  <2>4. body # << >>
    BY <1>5, <2>2, PrefixFacts
  <2>5. at[k + 1] = Unpack(c, body)
    <3>1. at[k + 1] = UnpackNext(chain, k + 1, at[k])
      BY <1>2, <2>1
    <3>2. chain[Len(chain) + 1 - (k + 1)] = c
      BY <2>1 DEF L
    <3> QED
      BY <1>5, <2>4, <3>1, <3>2 DEF UnpackNext
  <2>6. at[k + 1] = Unpacked("ok", IF c = "none" THEN body ELSE next,
                             IF c = "ucmd" THEN p ELSE Nobody)
    BY <1>5, <2>2, <2>3, <2>5, UnpackPack
  <2>7. /\ at[k + 1].res = "ok"
        /\ at[k + 1].body = IF c = "none" THEN body ELSE next
        /\ c = "ucmd" => at[k + 1].owner = p
    BY <2>6 DEF Unpacked
  <2>8. Bare(L - k) <=> Bare(L + 1 - k) /\ c = "none"
    <3>1. L - k \in 1 .. L /\ L + 1 - k = (L - k) + 1
      BY <1>0, <2>1
    <3>2. Bare(L - k) <=> Bare((L - k) + 1) /\ chain[L - k] = "none"
      <4>1. L - k \in 1 .. Len(chain) /\ Len(chain) \in Nat
        BY <1>0, <3>1 DEF L
      <4> QED
        BY <4>1, BareStep, Zenon
    <3> QED
      BY <3>1, <3>2
  <2>9. c = "none" => next = lv[L - k]
    BY <2>2, <2>3, PackCases
  <2>10. next \in Seq(Tokens)
    BY <1>3, <2>1
  <2> HIDE DEF c, body, next
  <2>11. CASE c = "none"
    <3>1. at[k + 1].body = body /\ next = lv[L - k] /\ (Bare(L - k) <=> Bare(L + 1 - k))
      BY <2>7, <2>8, <2>9, <2>11
    <3> QED
      BY <1>5, <2>1, <2>7, <3>1 DEF body, next, c
  <2>12. CASE c # "none"
    <3>1. at[k + 1].body = next /\ ~ Bare(L - k) /\ IsPrefix(next, next)
      BY <2>7, <2>8, <2>10, <2>12, PrefixFacts
    <3> QED
      BY <2>1, <2>7, <2>10, <3>1 DEF next, c
  <2> QED
    BY <2>11, <2>12
<1>6. L \in S
  <2>1. \A k \in 0 .. L - 1 : k \in S => k + 1 \in S
    <3> SUFFICES ASSUME NEW k \in 0 .. L - 1, k \in S PROVE k + 1 \in S
      OBVIOUS
    <3>1. St(k) /\ k + 1 \in 0 .. L
      BY <1>0
    <3> HIDE DEF St
    <3>2. St(k + 1)
      BY <1>5, <3>1
    <3> QED
      BY <3>1, <3>2
  <2> HIDE DEF S
  <2>2. \A k \in 0 .. L : k \in S
    BY <1>0, <1>4, <2>1, UpTo
  <2> QED
    BY <1>0, <2>2
<1>7. St(L)
  <2> HIDE DEF St
  <2> QED
    BY <1>6
<1>8. lv[0] = msg
  BY DEF Packing
<1>9. L - L = 0 /\ L + 1 - L = 1 /\ L >= 1
  BY <1>0
<1>10. at[L].body = msg
  BY <1>7, <1>8, <1>9 DEF L
<1> QED
  BY <1>1, <1>7, <1>9, <1>10 DEF L

(* pack of a message it takes gives one segment.                            *)
LEMMA PackOne ==
    ASSUME NEW proto \in Protocols, NEW p, NEW n, NEW msg
    PROVE  Pack(proto, p, n, msg) = << >> \/ \E seg : Pack(proto, p, n, msg) = <<seg>>
  BY PackCases

(* A packing up to i is one up to i + 1 when that protocol packs.           *)
LEMMA PackingMore ==
    ASSUME NEW i \in Nat, NEW p, NEW n, NEW msg, NEW lv, Packing(chain, i, p, n, msg, lv), NEW seg,
           Packs(chain[i + 1], lv[i]), Pack(chain[i + 1], p, n, lv[i]) = <<seg>>
    PROVE  \E h : Packing(chain, i + 1, p, n, msg, h) /\ h[i + 1] = seg
<1> DEFINE h == [j \in 0 .. i + 1 |-> IF j <= i THEN lv[j] ELSE seg]
<1>1. h[i + 1] = seg /\ \A j \in 0 .. i : h[j] = lv[j]
  OBVIOUS
<1> HIDE DEF h
<1>2. lv[0] = msg /\ \A j \in 1 .. i : /\ Packs(chain[j], lv[j - 1])
                                       /\ Pack(chain[j], p, n, lv[j - 1]) = <<lv[j]>>
  BY DEF Packing
<1>3. ASSUME NEW j \in 1 .. i + 1
      PROVE  Packs(chain[j], h[j - 1]) /\ Pack(chain[j], p, n, h[j - 1]) = <<h[j]>>
  <2>1. CASE j = i + 1
    <3>1. j - 1 = i /\ h[j - 1] = lv[i] /\ h[j] = seg
      BY <1>1, <2>1
    <3> QED
      BY <2>1, <3>1
  <2>2. CASE j # i + 1
    <3>1. j \in 1 .. i /\ h[j - 1] = lv[j - 1] /\ h[j] = lv[j]
      BY <1>1, <2>2
    <3> QED
      BY <1>2, <3>1
  <2> QED
    BY <2>1, <2>2
<1>4. h[0] = msg
  BY <1>1, <1>2
<1>5. Packing(chain, i + 1, p, n, msg, h)
  BY <1>3, <1>4 DEF Packing
<1> QED
  BY <1>1, <1>5

(* An unused payload is packed into one segment, or none, by each protocol. *)
LEMMA PackChainMakes ==
    ASSUME chain \in Seq(Protocols), NEW p \in Peers, NEW n \in Nat, NEW msg, Clean(p, n, msg),
           \A i \in 1 .. Len(chain) : segs[p][i] = << >>, Packable(p, n, msg),
           NEW i \in 1 .. Len(chain)
    PROVE  \/ PackChain(p, n, msg)[i] = << >>
           \/ \E lv : Packing(chain, i, p, n, msg, lv) /\ PackChain(p, n, msg)[i] = <<lv[i]>>
<1> DEFINE all == PackChain(p, n, msg)
           L == Len(chain)
           Made(j) == \E lv : Packing(chain, j, p, n, msg, lv) /\ (j > 0 => all[j] = <<lv[j]>>)
           S == {j \in 0 .. L : (j > 0 /\ all[j] = << >>) \/ Made(j)}
<1>0. L \in Nat /\ \A j \in 1 .. L : chain[j] \in Protocols
  OBVIOUS
<1>1. all = [j \in 1 .. L |-> PackNext(p, n, msg, j, all[j - 1])]
  BY PackSteps
<1>2. /\ Packs(chain[1], msg)
      /\ \A j \in 2 .. L : \A k \in DOMAIN all[j - 1] : Packs(chain[j], all[j - 1][k])
  BY DEF Packable
<1> HIDE DEF all, L
<1>3. 0 \in S
  <2>1. Packing(chain, 0, p, n, msg, [j \in 0 .. 0 |-> msg])
    BY DEF Packing
  <2>2. Made(0)
    BY <2>1
  <2> HIDE DEF Made
  <2> QED
    BY <1>0, <2>2
<1>4. ASSUME NEW j \in 0 .. L - 1, (j > 0 /\ all[j] = << >>) \/ Made(j)
      PROVE  all[j + 1] = << >> \/ Made(j + 1)
  <2>0. /\ j + 1 \in 1 .. L /\ (j + 1) - 1 = j /\ j \in Nat
        /\ (j + 1 = 1 <=> j = 0) /\ (j # 0 => j + 1 \in 2 .. L)
    BY <1>0
  <2>1. all[j + 1] = PackNext(p, n, msg, j + 1, all[j])
    BY <1>1, <2>0
  <2>2. segs[p][j + 1] = << >>
    BY <2>0 DEF L
  <2>3. CASE j > 0 /\ all[j] = << >>
    <3>1. [k \in DOMAIN all[j] |-> Pack(chain[j + 1], p, n, all[j][k])] = << >>
      BY <2>3
    <3>2. all[j + 1] = << >> \o << >>
      BY <2>0, <2>1, <2>2, <2>3, <3>1, FlattenNone DEF PackNext
    <3> QED
      BY <3>2
  <2>4. CASE Made(j)
    <3>1. PICK lv : Packing(chain, j, p, n, msg, lv) /\ (j > 0 => all[j] = <<lv[j]>>)
      BY <2>4
    <3>2. Packs(chain[j + 1], lv[j]) /\ all[j + 1] = << >> \o Pack(chain[j + 1], p, n, lv[j])
      <4>1. CASE j = 0
        <5>1. lv[j] = msg
          BY <3>1, <4>1 DEF Packing
        <5> QED
          BY <1>2, <2>0, <2>1, <2>2, <4>1, <5>1 DEF PackNext
      <4>2. CASE j # 0
        <5>1. all[j] = <<lv[j]>>
          BY <2>0, <3>1, <4>2
        <5>2. 1 \in DOMAIN all[j] /\ all[j][1] = lv[j]
          BY <5>1
        <5>3. Packs(chain[j + 1], lv[j])
          BY <1>2, <2>0, <4>2, <5>2
        <5>4. [k \in DOMAIN all[j] |-> Pack(chain[j + 1], p, n, all[j][k])]
                = <<Pack(chain[j + 1], p, n, lv[j])>>
          BY <5>1
        <5>5. FlattenSeq([k \in DOMAIN all[j] |-> Pack(chain[j + 1], p, n, all[j][k])])
                = Pack(chain[j + 1], p, n, lv[j])
          BY <5>4, FlattenOne
        <5>6. all[j + 1] = << >> \o FlattenSeq([k \in DOMAIN all[j] |-> Pack(chain[j + 1], p, n, all[j][k])])
          BY <2>0, <2>1, <2>2, <4>2 DEF PackNext
        <5> QED
          BY <5>3, <5>5, <5>6
      <4> QED
        BY <4>1, <4>2
    <3>3. chain[j + 1] \in Protocols
      BY <1>0, <2>0
    <3>4. CASE Pack(chain[j + 1], p, n, lv[j]) = << >>
      BY <3>2, <3>4
    <3>5. ASSUME NEW seg, Pack(chain[j + 1], p, n, lv[j]) = <<seg>>
          PROVE  Made(j + 1)
      <4>1. PICK h : Packing(chain, j + 1, p, n, msg, h) /\ h[j + 1] = seg
        <5>1. j \in Nat /\ Packs(chain[j + 1], lv[j]) /\ Packing(chain, j, p, n, msg, lv)
          BY <2>0, <3>1, <3>2
        <5> HIDE DEF S
        <5> QED
          BY <3>5, <5>1, PackingMore
      <4>2. all[j + 1] = <<seg>>
        <5>1. << >> \o <<seg>> = <<seg>>
          OBVIOUS
        <5> QED
          BY <3>2, <3>5, <5>1
      <4> QED
        BY <4>1, <4>2
    <3> HIDE DEF Made
    <3> QED
      BY <3>3, <3>4, <3>5, PackOne
  <2> HIDE DEF Made
  <2> QED
    BY <1>4, <2>3, <2>4
<1>5. i \in S
  <2>1. \A j \in 0 .. L - 1 : j \in S => j + 1 \in S
    <3> SUFFICES ASSUME NEW j \in 0 .. L - 1, j \in S PROVE j + 1 \in S
      OBVIOUS
    <3> HIDE DEF Made
    <3>1. j + 1 \in 0 .. L /\ j + 1 > 0 /\ ((j > 0 /\ all[j] = << >>) \/ Made(j))
      BY <1>0
    <3>2. all[j + 1] = << >> \/ Made(j + 1)
      BY <1>4, <3>1
    <3> QED
      BY <3>1, <3>2
  <2>2. i \in 0 .. L
    BY DEF L
  <2> HIDE DEF S
  <2>3. \A j \in 0 .. L : j \in S
    BY <1>0, <1>3, <2>1, UpTo
  <2> QED
    BY <2>2, <2>3
<1>6. all[i] = << >> \/ Made(i)
  <2> HIDE DEF Made
  <2> QED
    BY <1>5
<1> QED
  BY <1>6 DEF all

-----------------------------------------------------------------------------
(* The invariant. *)

Msgs == Seq(Tokens) \ {<< >>}

Views == [src : Peers, chunk : Msgs, how : {"ok", "garbled"}, content : Seq(Tokens),
          owner : Peers \cup {Nobody}]

ChainTypes ==
    /\ chain \in Seq(Protocols) \ {<< >>} /\ chain \in Chains
    /\ handle \in 1 .. Len(chain)
    /\ transport \in {"stream", "datagram"} /\ transport \in Transports

AppTypes ==
    /\ sends \in [Peers -> 0 .. MaxSends]
    /\ pay \in [Peers -> [there : BOOLEAN, alive : BOOLEAN, content : Seq(Tokens)]]
    /\ segs \in [Peers -> [1 .. Len(chain) -> Seq(Msgs)]]
    /\ writing \in [Peers -> BOOLEAN] /\ keep \in [Peers -> BOOLEAN]
    /\ out \in [Peers -> Seq(Msgs)]
    /\ chains \in [Peers -> Nat] /\ dropped \in [Peers -> Nat]

ReadTypes ==
    /\ wire \in [Peers -> IF transport = "stream" THEN Seq(Tokens) ELSE Seq(Msgs)]
    /\ buf \in Seq(Tokens) /\ Len(buf) <= BufSize
    /\ rd \in [Peers -> [at : {"read", "append", "end"}, n : 0 .. BufSize]]
    /\ acc \in [Peers -> Seq(Tokens)]
    /\ queue \in Seq([src : Peers, chunk : Msgs])

ViewTypes ==
    /\ shown \in Seq(Views)
    /\ aborted \in [src : Peers, chunk : Msgs] \cup {Nothing}

(* A chain is in the map while its payload can be packed, and if it was     *)
(* dropped; it is there as long as its segments are written.  A payload at  *)
(* rest has no segments.                                                    *)
AppOK(p) ==
    /\ pay[p].alive => pay[p].there
    /\ writing[p] => pay[p].alive
    /\ out[p] # << >> => writing[p]
    /\ ~ writing[p] => \A i \in 1 .. Len(chain) : segs[p][i] = << >>
    /\ chains[p] = dropped[p] + IF pay[p].alive THEN 1 ELSE 0
    /\ chains[p] <= MaxInstances

ReadOK(p) ==
    /\ transport = "datagram" => rd[p].at = "read" /\ acc[p] = << >>
    /\ rd[p].at = "append" => rd[p].n \in 1 .. BufSize /\ rd[p].n <= Len(buf)

(* seg is what chain c, up to the protocol h of the payload, made of send n *)
(* of p.                                                                    *)
PackedAs(c, h, p, n, content, seg) ==
    /\ Clean(p, n, content)
    /\ \E lv : Packing(c, h, p, n, content, lv) /\ lv[h] = seg

WrittenOK ==
    /\ \A p \in Peers : out[p] # << >> =>
          /\ Len(out[p]) = 1 /\ sends[p] # 0
          /\ PackedAs(chain, handle, p, sends[p], pay[p].content, out[p][1])
    /\ \A s \in sent :
          /\ s.from \in Peers
          /\ \E n \in Nat : PackedAs(chain, handle, s.from, n, s.content, s.seg)

(* Of every message shown, and of the one unpack failed on, the chain says  *)
(* what was shown.                                                          *)
ViewsOK ==
    /\ \A i \in 1 .. Len(shown) :
          \E u : /\ Unpacks(chain, shown[i].chunk, u)
                 /\ shown[i].how = u.res /\ shown[i].content = u.body /\ shown[i].owner = u.owner
    /\ aborted # Nothing => \E u : Unpacks(chain, aborted.chunk, u) /\ u.res # "ok"

AppInv == AppTypes /\ (\A p \in Peers : AppOK(p)) /\ WrittenOK
ReadInv == ReadTypes /\ \A p \in Peers : ReadOK(p)
ViewInv == ViewTypes /\ ViewsOK
DataInv == ChainTypes /\ AppInv /\ ReadInv /\ ViewInv

(* What the chain makes of tokens. *)
Results == [res : {"ok", "abort", "garbled"}, body : Seq(Tokens), owner : Peers \cup {Nobody}]

(* unpack of tokens gives tokens.                                           *)
LEMMA UnpackTyped ==
    ASSUME NEW proto \in Protocols, NEW data \in Seq(Tokens)
    PROVE  Unpack(proto, data) \in Results
<1> DEFINE Cut2 == SubSeq(data, 2, data[1].len + 1)
           Cut3 == SubSeq(data, 3, data[1].len + 2)
<1>1. << >> \in Seq(Tokens) /\ Len(data) \in Nat
  OBVIOUS
<1>2. ASSUME Len(data) > 1, data[1].len <= Len(data) - 1
      PROVE  Cut2 \in Seq(Tokens)
  <2>1. data[1] \in Tokens
    BY <1>1, <1>2
  <2>2. data[1].len \in Nat
    BY <2>1 DEF Tokens
  <2> QED
    BY <1>1, <1>2, <2>2
<1>3. ASSUME Len(data) > 1, data[1].len <= Len(data) - 2
      PROVE  Cut3 \in Seq(Tokens) /\ data[2].from \in Peers
  <2>1. data[1] \in Tokens /\ data[2] \in Tokens
    BY <1>1, <1>3
  <2>2. data[1].len \in Nat /\ data[2].from \in Peers
    BY <2>1 DEF Tokens
  <2> QED
    BY <1>1, <1>3, <2>2
<1>4. \A who \in Peers \cup {Nobody}, body \in Seq(Tokens), r \in {"ok", "abort", "garbled"} :
          Unpacked(r, body, who) \in Results
  BY DEF Unpacked, Results
<1>5. Len(data) > 1 => data[1].len \in Nat
  <2>1. Len(data) > 1 => data[1] \in Tokens
    BY <1>1
  <2> QED
    BY <2>1 DEF Tokens
<1>6. proto = "none" => Unpack(proto, data) = Unpacked("ok", data, Nobody)
  BY DEF Unpack
<1>7. proto = "endian" => \/ Unpack(proto, data) \in {Unpacked("abort", << >>, Nobody),
                                                       Unpacked("garbled", << >>, Nobody)}
                          \/ /\ Len(data) > 1 /\ data[1].len <= Len(data) - 1
                             /\ Unpack(proto, data) = Unpacked("ok", Cut2, Nobody)
  <2> HIDE DEF Unpacked
  <2> QED
    BY <1>1, <1>5 DEF Unpack
<1>8. proto = "ucmd" => \/ Unpack(proto, data) \in {Unpacked("abort", << >>, Nobody),
                                                     Unpacked("garbled", << >>, Nobody)}
                        \/ /\ Len(data) > 1 /\ data[1].len <= Len(data) - 2
                           /\ Unpack(proto, data) = Unpacked("ok", Cut3, data[2].from)
  BY <1>1, <1>5 DEF Unpack
<1> HIDE DEF Cut2, Cut3
<1> QED
  BY <1>1, <1>2, <1>3, <1>4, <1>6, <1>7, <1>8 DEF Protocols

(* So does the chain.                                                       *)
LEMMA UnpacksTyped ==
    ASSUME NEW c \in Seq(Protocols), NEW data \in Seq(Tokens), NEW u, Unpacks(c, data, u)
    PROVE  u \in Results
<1>0. Len(c) \in Nat /\ \A j \in 1 .. Len(c) : c[j] \in Protocols
  OBVIOUS
<1>1. PICK at : /\ at = [k \in 0 .. Len(c) |-> IF k = 0 THEN Unpacked("ok", data, Nobody)
                                               ELSE UnpackNext(c, k, at[k - 1])]
                /\ u = at[Len(c)]
  BY DEF Unpacks
<1>2. /\ at[0] = Unpacked("ok", data, Nobody)
      /\ \A k \in 1 .. Len(c) : at[k] = UnpackNext(c, k, at[k - 1])
  BY <1>0, <1>1
<1> DEFINE S == {k \in 0 .. Len(c) : at[k] \in Results}
<1>3. 0 \in S
  BY <1>0, <1>2 DEF Unpacked, Results
<1>4. ASSUME NEW k \in 0 .. Len(c) - 1, k \in S
      PROVE  k + 1 \in S
  <2>1. k + 1 \in 1 .. Len(c) /\ (k + 1) - 1 = k /\ Len(c) + 1 - (k + 1) \in 1 .. Len(c)
    BY <1>0
  <2>2. at[k] \in Results
    BY <1>4
  <2>3. at[k].body \in Seq(Tokens)
    BY <2>2 DEF Results
  <2>4. Unpack(c[Len(c) + 1 - (k + 1)], at[k].body) \in Results
    BY <1>0, <2>1, <2>3, UnpackTyped
  <2>5. Unpacked("ok", << >>, Nobody) \in Results
    BY DEF Unpacked, Results
  <2>6. at[k + 1] = UnpackNext(c, k + 1, at[k])
    BY <1>2, <2>1
  <2>7. at[k + 1] \in Results
    BY <2>2, <2>4, <2>5, <2>6 DEF UnpackNext
  <2> QED
    BY <2>1, <2>7
<1> HIDE DEF S
<1>5. \A k \in 0 .. Len(c) : k \in S
  BY <1>0, <1>3, <1>4, UpTo
<1>6. Len(c) \in S
  BY <1>0, <1>5
<1> QED
  BY <1>1, <1>6 DEF S

-----------------------------------------------------------------------------
(* What a step leaves alone. *)

(* The parts of the invariant depend on the variables they name.            *)
LEMMA KeptChain ==
    ASSUME ChainTypes, UNCHANGED <<chain, handle, transport>>
    PROVE  ChainTypes'
  BY DEF ChainTypes

(* That of the application and write_payload.                               *)
LEMMA KeptApp ==
    ASSUME AppInv, UNCHANGED <<chain, handle, transport, appVars, sent>>
    PROVE  AppInv'
<1>1. /\ UNCHANGED <<chain, handle>>
      /\ UNCHANGED <<sends, pay, segs, writing, out, keep, chains, dropped>> /\ UNCHANGED sent
  BY DEF appVars
<1>2. AppTypes'
  BY <1>1 DEF AppInv, AppTypes
<1>3. (\A p \in Peers : AppOK(p))'
  BY <1>1 DEF AppInv, AppOK
<1>4. WrittenOK'
  BY <1>1, Zenon DEF AppInv, WrittenOK
<1> QED
  BY <1>2, <1>3, <1>4 DEF AppInv

(* That of the receivers.                                                   *)
LEMMA KeptRead ==
    ASSUME ReadInv, UNCHANGED <<transport, wire, readVars>>
    PROVE  ReadInv'
  BY DEF ReadInv, ReadTypes, ReadOK, readVars

(* That of what was shown.                                                  *)
LEMMA KeptViews ==
    ASSUME ViewInv, UNCHANGED <<chain, shown, aborted>>
    PROVE  ViewInv'
<1>1. ViewTypes'
  BY DEF ViewInv, ViewTypes
<1>2. ViewsOK'
  BY Zenon DEF ViewInv, ViewsOK
<1> QED
  BY <1>1, <1>2 DEF ViewInv

-----------------------------------------------------------------------------
(* The initial state. *)

(* It holds at the start.                                                   *)
LEMMA InitInv == Init => DataInv
<1> SUFFICES ASSUME Init PROVE DataInv
  OBVIOUS
<1> USE DEF Init
<1>1. ChainTypes
  <2>1. chain \in Seq(Protocols) \ {<< >>}
    BY MessagePathAssumption
  <2>2. handle \in 1 .. Len(chain)
    BY <2>1
  <2> QED
    BY <2>1, <2>2, MessagePathAssumption DEF ChainTypes
<1>2. Len(chain) \in Nat /\ DOMAIN chain = 1 .. Len(chain)
  BY <1>1 DEF ChainTypes
<1>3. AppTypes
  <2>1. NoPayload \in [there : BOOLEAN, alive : BOOLEAN, content : Seq(Tokens)]
    BY DEF NoPayload
  <2>2. segs \in [Peers -> [1 .. Len(chain) -> Seq(Msgs)]]
    <3>1. [i \in DOMAIN chain |-> << >>] \in [1 .. Len(chain) -> Seq(Msgs)]
      <4> HIDE DEF Init
      <4> QED
        BY <1>2
    <3> QED
      BY <3>1
  <2> QED
    BY <2>1, <2>2, MessagePathAssumption DEF AppTypes
<1>4. \A p \in Peers : AppOK(p)
  <2> SUFFICES ASSUME NEW p \in Peers PROVE AppOK(p)
    OBVIOUS
  <2>1. pay[p].alive = FALSE
    BY DEF NoPayload
  <2>2. out[p] = << >> /\ chains[p] = 0 /\ dropped[p] = 0 /\ ~ writing[p] /\ 0 <= MaxInstances
    BY MessagePathAssumption
  <2>3. \A i \in 1 .. Len(chain) : segs[p][i] = << >>
    <3>1. segs[p] = [i \in DOMAIN chain |-> << >>]
      OBVIOUS
    <3> QED
      BY <1>2, <3>1
  <2> HIDE DEF Init
  <2>4. chains[p] = dropped[p] + IF pay[p].alive THEN 1 ELSE 0
    BY <2>1, <2>2
  <2>5. ~ pay[p].alive
    BY <2>1
  <2>6. chains[p] <= MaxInstances
    BY <2>2
  <2> QED
    BY <2>2, <2>3, <2>4, <2>5, <2>6, Zenon DEF AppOK
<1>5. WrittenOK
  BY DEF WrittenOK
<1>6. ReadInv
  BY MessagePathAssumption DEF ReadInv, ReadTypes, ReadOK
<1>7. ViewInv
  BY DEF ViewInv, ViewTypes, ViewsOK
<1> QED
  BY <1>1, <1>3, <1>4, <1>5, <1>6, <1>7 DEF DataInv, AppInv

-----------------------------------------------------------------------------
(* The application and write_payload. *)

(* A payload just created.                                                  *)
LEMMA NewPayload ==
    ASSUME NEW S, << >> \in S
    PROVE  LET new == [NoPayload EXCEPT !.there = TRUE, !.alive = TRUE]
           IN  new \in [there : BOOLEAN, alive : BOOLEAN, content : S] /\ new.there /\ new.alive
<1>1. [NoPayload EXCEPT !.there = TRUE, !.alive = TRUE]
        \in [there : BOOLEAN, alive : BOOLEAN, content : S]
  BY DEF NoPayload
<1>2. [NoPayload EXCEPT !.there = TRUE, !.alive = TRUE].there
  BY DEF NoPayload
<1>3. [NoPayload EXCEPT !.there = TRUE, !.alive = TRUE].alive
  BY DEF NoPayload
<1> QED
  BY <1>1, <1>2, <1>3, Zenon

(* CreatePayload keeps it: the chain it adds is counted.                    *)
LEMMA CreateKeeps ==
    ASSUME DataInv, NEW p \in Peers, CreatePayload(p)
    PROVE  DataInv'
<1> USE DEF CreatePayload
<1>1. ChainTypes' /\ ReadInv' /\ ViewInv'
  BY KeptChain, KeptRead, KeptViews DEF DataInv
<1>2. /\ UNCHANGED <<chain, handle, sends, segs, writing, out, keep, dropped, sent>>
      /\ pay' = [pay EXCEPT ![p] = [NoPayload EXCEPT !.there = TRUE, !.alive = TRUE]]
      /\ chains' = [chains EXCEPT ![p] = @ + 1]
      /\ ~ pay[p].there /\ chains[p] < MaxInstances
  OBVIOUS
<1>3. AppTypes /\ (\A q \in Peers : AppOK(q)) /\ WrittenOK
  BY DEF DataInv, AppInv
<1> HIDE DEF CreatePayload
<1> DEFINE new == [NoPayload EXCEPT !.there = TRUE, !.alive = TRUE]
<1>4. /\ new \in [there : BOOLEAN, alive : BOOLEAN, content : Seq(Tokens)]
      /\ new.there /\ new.alive
  <2>1. << >> \in Seq(Tokens)
    OBVIOUS
  <2> QED
    BY <2>1, NewPayload
<1> HIDE DEF new
<1>5. pay' = [pay EXCEPT ![p] = new]
  BY <1>2 DEF new
<1>6. AppTypes'
  <2>1. pay' \in [Peers -> [there : BOOLEAN, alive : BOOLEAN, content : Seq(Tokens)]]
    BY <1>3, <1>4, <1>5 DEF AppTypes
  <2>2. chains' \in [Peers -> Nat]
    BY <1>2, <1>3 DEF AppTypes
  <2> QED
    BY <1>2, <1>3, <2>1, <2>2 DEF AppTypes
<1>7. ~ pay[p].alive /\ ~ writing[p] /\ out[p] = << >>
  BY <1>2, <1>3 DEF AppOK
<1>8. ASSUME NEW q \in Peers PROVE AppOK(q)'
  <2>1. CASE q = p
    <3>1. pay'[q].alive /\ pay'[q].there /\ chains'[q] = chains[q] + 1
      BY <1>2, <1>3, <1>4, <1>5, <2>1 DEF AppTypes
    <3>2. chains[q] \in Nat /\ dropped[q] \in Nat
      BY <1>3 DEF AppTypes
    <3>3. chains[q] = dropped[q] /\ \A i \in 1 .. Len(chain) : segs[q][i] = << >>
      BY <1>3, <1>7, <2>1, <3>2 DEF AppOK
    <3> QED
      BY <1>2, <1>7, <2>1, <3>1, <3>2, <3>3, MessagePathAssumption DEF AppOK
  <2>2. CASE q # p
    <3>1. pay'[q] = pay[q] /\ chains'[q] = chains[q]
      BY <1>2, <1>3, <1>5, <2>2 DEF AppTypes
    <3> QED
      BY <1>2, <1>3, <3>1 DEF AppOK
  <2> QED
    BY <2>1, <2>2
<1>9. WrittenOK'
  <2>1. \A q \in Peers : out[q] # << >> => pay'[q] = pay[q]
    BY <1>2, <1>3, <1>7 DEF AppTypes
  <2> QED
    BY <1>2, <1>3, <2>1 DEF WrittenOK
<1> QED
  BY <1>1, <1>6, <1>8, <1>9 DEF DataInv, AppInv

(* DropPayload keeps it: the chain left behind is counted as dropped.       *)
LEMMA DropKeeps ==
    ASSUME DataInv, NEW p \in Peers, DropPayload(p)
    PROVE  DataInv'
<1> USE DEF DropPayload
<1>1. ChainTypes' /\ ReadInv' /\ ViewInv'
  BY KeptChain, KeptRead, KeptViews DEF DataInv
<1>2. /\ UNCHANGED <<chain, handle, sends, writing, out, keep, chains, sent>>
      /\ pay' = [pay EXCEPT ![p] = NoPayload]
      /\ segs' = [segs EXCEPT ![p] = [i \in DOMAIN chain |-> << >>]]
      /\ dropped' = [dropped EXCEPT ![p] = IF pay[p].alive THEN @ + 1 ELSE @]
      /\ ~ writing[p]
  OBVIOUS
<1>3. AppTypes /\ (\A q \in Peers : AppOK(q)) /\ WrittenOK
  BY DEF DataInv, AppInv
<1>4. NoPayload \in [there : BOOLEAN, alive : BOOLEAN, content : Seq(Tokens)]
      /\ NoPayload.alive = FALSE
  BY DEF NoPayload
<1>5. [i \in DOMAIN chain |-> << >>] \in [1 .. Len(chain) -> Seq(Msgs)]
  BY DEF DataInv, ChainTypes
<1> HIDE DEF DropPayload
<1>6. AppTypes'
  <2>1. segs' \in [Peers -> [1 .. Len(chain) -> Seq(Msgs)]]
    BY <1>2, <1>3, <1>5 DEF AppTypes
  <2>2. pay' \in [Peers -> [there : BOOLEAN, alive : BOOLEAN, content : Seq(Tokens)]]
    BY <1>2, <1>3, <1>4 DEF AppTypes
  <2> QED
    BY <1>2, <1>3, <2>1, <2>2 DEF AppTypes
<1>7. out[p] = << >>
  BY <1>2, <1>3 DEF AppOK
<1>8. ASSUME NEW q \in Peers PROVE AppOK(q)'
  <2>1. CASE q = p
    <3>1. ~ pay'[q].alive
      BY <1>2, <1>3, <1>4, <2>1 DEF AppTypes
    <3>2. chains[q] \in Nat /\ dropped[q] \in Nat
      BY <1>3 DEF AppTypes
    <3>3. dropped'[q] = IF pay[q].alive THEN dropped[q] + 1 ELSE dropped[q]
      BY <1>2, <1>3, <2>1 DEF AppTypes
    <3>4. \A i \in 1 .. Len(chain) : segs'[q][i] = << >>
      <4>1. segs'[q] = [i \in DOMAIN chain |-> << >>]
        BY <1>2, <1>3, <2>1 DEF AppTypes
      <4> QED
        BY <4>1 DEF DataInv, ChainTypes
    <3>5. chains'[q] = dropped'[q]
      BY <1>2, <1>3, <3>2, <3>3 DEF AppOK
    <3>6. dropped'[q] \in Nat
      BY <3>2, <3>3
    <3>7. chains'[q] <= MaxInstances
      BY <1>2, <1>3 DEF AppOK
    <3> QED
      BY <1>2, <1>7, <2>1, <3>1, <3>4, <3>5, <3>6, <3>7 DEF AppOK
  <2>2. CASE q # p
    <3>1. pay'[q] = pay[q] /\ segs'[q] = segs[q] /\ dropped'[q] = dropped[q]
      BY <1>2, <1>3, <2>2 DEF AppTypes
    <3> QED
      BY <1>2, <1>3, <3>1 DEF AppOK
  <2> QED
    BY <2>1, <2>2
<1>9. WrittenOK'
  <2>1. \A q \in Peers : out[q] # << >> => pay'[q] = pay[q]
    BY <1>2, <1>3, <1>7 DEF AppTypes
  <2> QED
    BY <1>2, <1>3, <2>1 DEF WrittenOK
<1> QED
  BY <1>1, <1>6, <1>8, <1>9 DEF DataInv, AppInv

(* A message that the chain takes has a packing.                            *)
LEMMA PackingIs ==
    ASSUME chain \in Seq(Protocols), NEW i \in 1 .. Len(chain), NEW p \in Peers, NEW n \in Nat,
           NEW msg, Clean(p, n, msg), NEW lv, Packing(chain, i, p, n, msg, lv)
    PROVE  <<lv[i]>> \in Seq(Msgs)
<1>1. i \in 0 .. Len(chain) /\ i \in 0 .. i /\ i \in 1 .. i
  OBVIOUS
<1>2. Clean(p, n, lv[i])
  BY <1>1, PackingClean
<1>3. lv[i] # << >>
  BY <1>1, PackingClean
<1>4. lv[i] \in Msgs
  BY <1>2, <1>3 DEF Clean, Msgs
<1> QED
  BY <1>4

(* SendPayload makes one segment, packed as the chain says.                 *)
LEMMA SendMakes ==
    ASSUME DataInv, NEW p \in Peers, ~ writing[p], NEW n \in Nat, NEW msg, Clean(p, n, msg),
           Packable(p, n, msg), NEW all, all = PackChain(p, n, msg)
    PROVE  /\ all \in [1 .. Len(chain) -> Seq(Msgs)]
           /\ all[handle] # << >> => /\ Len(all[handle]) = 1
                                     /\ PackedAs(chain, handle, p, n, msg, all[handle][1])
<1>1. chain \in Seq(Protocols) /\ handle \in 1 .. Len(chain)
  BY DEF DataInv, ChainTypes
<1>2. \A i \in 1 .. Len(chain) : segs[p][i] = << >>
  BY DEF DataInv, AppInv, AppOK
<1>3. ASSUME NEW i \in 1 .. Len(chain)
      PROVE  all[i] = << >> \/ \E lv : Packing(chain, i, p, n, msg, lv) /\ all[i] = <<lv[i]>>
  BY <1>1, <1>2, PackChainMakes
<1>4. ASSUME NEW i \in 1 .. Len(chain)
      PROVE  all[i] \in Seq(Msgs)
  <2>1. CASE all[i] = << >>
    BY <2>1
  <2>2. ASSUME NEW lv, Packing(chain, i, p, n, msg, lv), all[i] = <<lv[i]>>
        PROVE  all[i] \in Seq(Msgs)
    BY <1>1, <2>2, PackingIs
  <2> QED
    BY <1>3, <2>1, <2>2
<1>5. all \in [1 .. Len(chain) -> Seq(Msgs)]
  <2>1. all = [i \in 1 .. Len(chain) |-> PackNext(p, n, msg, i, all[i - 1])]
    BY <1>1, PackSteps
  <2>2. all = [i \in 1 .. Len(chain) |-> all[i]]
    BY <2>1
  <2> QED
    BY <1>4, <2>2
<1>6. ASSUME all[handle] # << >>
      PROVE  Len(all[handle]) = 1 /\ PackedAs(chain, handle, p, n, msg, all[handle][1])
  <2>1. PICK lv : Packing(chain, handle, p, n, msg, lv) /\ all[handle] = <<lv[handle]>>
    BY <1>1, <1>3, <1>6
  <2>2. Len(all[handle]) = 1 /\ all[handle][1] = lv[handle]
    BY <2>1
  <2> QED
    BY <2>1, <2>2 DEF PackedAs
<1> QED
  BY <1>5, <1>6

(* SendPayload keeps it.                                                    *)
LEMMA SendKeeps ==
    ASSUME DataInv, NEW p \in Peers, SendPayload(p)
    PROVE  DataInv'
<1>1. PICK size \in Sizes, k \in BOOLEAN :
        LET n == sends[p] + 1
            msg == Data(p, n, size)
            all == PackChain(p, n, msg)
        IN  /\ pay[p].alive /\ ~writing[p]
            /\ n <= MaxSends
            /\ Packable(p, n, msg)
            /\ sends' = [sends EXCEPT ![p] = n]
            /\ pay' = [pay EXCEPT ![p].content = msg]
            /\ segs' = [segs EXCEPT ![p] = all]
            /\ writing' = [writing EXCEPT ![p] = TRUE]
            /\ out' = [out EXCEPT ![p] = all[handle]]
            /\ keep' = [keep EXCEPT ![p] = k]
            /\ UNCHANGED <<chain, handle, transport, chains, dropped, wire, readVars, shown,
                           sent, aborted>>
  BY DEF SendPayload
<1>2. ChainTypes' /\ ReadInv' /\ ViewInv'
  BY <1>1, KeptChain, KeptRead, KeptViews DEF DataInv
<1>3. AppTypes /\ (\A q \in Peers : AppOK(q)) /\ WrittenOK
  BY DEF DataInv, AppInv
<1>4. PICK n : n = sends[p] + 1
  OBVIOUS
<1>5. PICK msg : msg = Data(p, n, size)
  OBVIOUS
<1>6. PICK all : all = PackChain(p, n, msg)
  OBVIOUS
<1>7. n \in Nat /\ n # 0 /\ n \in 0 .. MaxSends
  BY <1>1, <1>3, <1>4, MessagePathAssumption DEF AppTypes
<1>8. Clean(p, n, msg)
  <2>1. size \in Nat
    BY MessagePathAssumption
  <2> QED
    BY <1>5, <1>7, <2>1, DataClean
<1>9. /\ all \in [1 .. Len(chain) -> Seq(Msgs)]
      /\ all[handle] # << >> => /\ Len(all[handle]) = 1
                                /\ PackedAs(chain, handle, p, n, msg, all[handle][1])
  <2>1. ~ writing[p] /\ Packable(p, n, msg)
    BY <1>1, <1>4, <1>5
  <2>2. all \in [1 .. Len(chain) -> Seq(Msgs)]
    BY <1>6, <1>7, <1>8, <2>1, SendMakes
  <2>3. all[handle] # << >> => /\ Len(all[handle]) = 1
                               /\ PackedAs(chain, handle, p, n, msg, all[handle][1])
    BY <1>6, <1>7, <1>8, <2>1, SendMakes
  <2> QED
    BY <2>2, <2>3
<1>10. /\ pay[p].alive
       /\ sends' = [sends EXCEPT ![p] = n]
       /\ pay' = [pay EXCEPT ![p].content = msg]
       /\ segs' = [segs EXCEPT ![p] = all]
       /\ writing' = [writing EXCEPT ![p] = TRUE]
       /\ out' = [out EXCEPT ![p] = all[handle]]
       /\ keep' = [keep EXCEPT ![p] = k]
       /\ UNCHANGED <<chain, handle, chains, dropped, sent>>
  BY <1>1, <1>4, <1>5, <1>6
<1>11. msg \in Seq(Tokens) /\ handle \in 1 .. Len(chain)
  BY <1>8 DEF Clean, DataInv, ChainTypes
<1>12. AppTypes'
  <2>1. pay' \in [Peers -> [there : BOOLEAN, alive : BOOLEAN, content : Seq(Tokens)]]
    BY <1>3, <1>10, <1>11 DEF AppTypes
  <2>2. segs' \in [Peers -> [1 .. Len(chain) -> Seq(Msgs)]]
    BY <1>3, <1>9, <1>10 DEF AppTypes
  <2>3. out' \in [Peers -> Seq(Msgs)]
    BY <1>3, <1>9, <1>10, <1>11 DEF AppTypes
  <2>4. sends' \in [Peers -> 0 .. MaxSends]
    BY <1>3, <1>7, <1>10 DEF AppTypes
  <2>5. writing' \in [Peers -> BOOLEAN] /\ keep' \in [Peers -> BOOLEAN]
    BY <1>3, <1>10 DEF AppTypes
  <2> QED
    BY <1>3, <1>10, <2>1, <2>2, <2>3, <2>4, <2>5 DEF AppTypes
<1>13. ASSUME NEW q \in Peers PROVE AppOK(q)'
  <2>1. AppOK(q) /\ (pay'[q].alive <=> pay[q].alive) /\ (pay'[q].there <=> pay[q].there)
    BY <1>3, <1>10 DEF AppTypes
  <2>2. CASE q = p
    <3>1. writing'[q]
      BY <1>3, <1>10, <2>2 DEF AppTypes
    <3> QED
      BY <1>10, <2>1, <2>2, <3>1 DEF AppOK
  <2>3. CASE q # p
    <3>1. out'[q] = out[q] /\ segs'[q] = segs[q] /\ writing'[q] = writing[q]
      BY <1>3, <1>10, <2>3 DEF AppTypes
    <3> QED
      BY <1>10, <2>1, <3>1 DEF AppOK
  <2> QED
    BY <2>2, <2>3
<1>14. WrittenOK'
  <2>1. ASSUME NEW q \in Peers, out'[q] # << >>
        PROVE  /\ Len(out'[q]) = 1 /\ sends'[q] # 0
               /\ PackedAs(chain', handle', q, sends'[q], pay'[q].content, out'[q][1])
    <3>1. CASE q = p
      <4>1. out'[q] = all[handle] /\ sends'[q] = n /\ pay'[q].content = msg
        BY <1>3, <1>10, <3>1 DEF AppTypes
      <4> QED
        BY <1>7, <1>9, <1>10, <2>1, <3>1, <4>1
    <3>2. CASE q # p
      <4>1. out'[q] = out[q] /\ sends'[q] = sends[q] /\ pay'[q] = pay[q]
        BY <1>3, <1>10, <3>2 DEF AppTypes
      <4> QED
        BY <1>3, <1>10, <2>1, <4>1 DEF WrittenOK
    <3> QED
      BY <3>1, <3>2
  <2> QED
    BY <1>3, <1>10, <2>1 DEF WrittenOK
<1> QED
  BY <1>2, <1>12, <1>13, <1>14 DEF DataInv, AppInv

(* Behind the last segment there is none.                                   *)
LEMMA NoneLeft ==
    ASSUME NEW S, NEW t \in Seq(S), Len(t) = 0
    PROVE  t = << >>
  OBVIOUS

(* The tail of one segment is empty.                                        *)
LEMMA OnlyOne ==
    ASSUME NEW S, NEW o \in Seq(S), Len(o) = 1
    PROVE  Head(o) = o[1] /\ o[1] \in S /\ Tail(o) = << >>
<1>1. o # << >> /\ 1 \in 1 .. Len(o)
  OBVIOUS
<1>2. o[1] \in S
  BY <1>1
<1>3. Head(o) = o[1]
  BY <1>1
<1>4. Tail(o) \in Seq(S) /\ Len(Tail(o)) = 0
  BY <1>1
<1>5. Tail(o) = << >>
  BY <1>4, NoneLeft
<1> QED
  BY <1>2, <1>3, <1>5

(* WriteSegment keeps it: the segment written is packed as the chain says.  *)
LEMMA WriteKeeps ==
    ASSUME DataInv, NEW p \in Peers, WriteSegment(p)
    PROVE  DataInv'
<1>1. PICK seg : seg = Head(out[p])
  OBVIOUS
<1>2. /\ writing[p] /\ out[p] # << >>
      /\ wire' = [wire EXCEPT ![p] = IF transport = "stream" THEN @ \o seg ELSE Append(@, seg)]
      /\ sent' = sent \cup {[from |-> p, seg |-> seg, content |-> pay[p].content]}
      /\ out' = [out EXCEPT ![p] = Tail(@)]
      /\ UNCHANGED <<chain, handle, transport, sends, pay, segs, writing, keep, chains, dropped>>
      /\ UNCHANGED <<readVars, shown, aborted>>
  BY <1>1 DEF WriteSegment
<1>3. AppTypes /\ (\A q \in Peers : AppOK(q)) /\ WrittenOK /\ ReadTypes /\ \A q \in Peers : ReadOK(q)
  BY DEF DataInv, AppInv, ReadInv
<1>4. ChainTypes' /\ ViewInv'
  BY <1>2, KeptChain, KeptViews DEF DataInv
<1>5. /\ out[p] \in Seq(Msgs) /\ seg \in Msgs /\ Len(out[p]) = 1 /\ Tail(out[p]) = << >>
      /\ PackedAs(chain, handle, p, sends[p], pay[p].content, seg)
  <2>1. Len(out[p]) = 1 /\ PackedAs(chain, handle, p, sends[p], pay[p].content, out[p][1])
    BY <1>2, <1>3 DEF WrittenOK
  <2>2. out[p] \in Seq(Msgs)
    BY <1>3 DEF AppTypes
  <2>3. seg = out[p][1] /\ seg \in Msgs /\ Tail(out[p]) = << >>
    BY <1>1, <2>1, <2>2, OnlyOne
  <2> QED
    BY <2>1, <2>2, <2>3
<1>6. AppTypes'
  <2>1. out' \in [Peers -> Seq(Msgs)]
    BY <1>2, <1>3, <1>5 DEF AppTypes
  <2> QED
    BY <1>2, <1>3, <2>1 DEF AppTypes
<1>7. \A q \in Peers : out'[q] = IF q = p THEN << >> ELSE out[q]
  BY <1>2, <1>3, <1>5 DEF AppTypes
<1>8. ASSUME NEW q \in Peers PROVE AppOK(q)'
  BY <1>2, <1>3, <1>7 DEF AppOK
<1>9. WrittenOK'
  <2>1. ASSUME NEW q \in Peers, out'[q] # << >>
        PROVE  /\ Len(out'[q]) = 1 /\ sends'[q] # 0
               /\ PackedAs(chain', handle', q, sends'[q], pay'[q].content, out'[q][1])
    BY <1>2, <1>3, <1>7, <2>1 DEF WrittenOK
  <2>2. ASSUME NEW s \in sent'
        PROVE  s.from \in Peers /\ \E n \in Nat : PackedAs(chain', handle', s.from, n, s.content, s.seg)
    <3>1. CASE s \in sent
      BY <1>2, <1>3, <3>1 DEF WrittenOK
    <3>2. CASE s = [from |-> p, seg |-> seg, content |-> pay[p].content]
      <4>1. s.from = p /\ s.seg = seg /\ s.content = pay[p].content
        BY <3>2
      <4>2. sends[p] \in Nat
        BY <1>3, MessagePathAssumption DEF AppTypes
      <4> QED
        BY <1>2, <1>5, <4>1, <4>2
    <3> QED
      BY <1>2, <3>1, <3>2
  <2> QED
    BY <2>1, <2>2 DEF WrittenOK
<1>10. ReadInv'
  <2>1. seg \in Seq(Tokens)
    BY <1>5 DEF Msgs
  <2>2. wire' \in [Peers -> IF transport = "stream" THEN Seq(Tokens) ELSE Seq(Msgs)]
    <3>1. CASE transport = "stream"
      <4>1. wire \in [Peers -> Seq(Tokens)]
        BY <1>3, <3>1 DEF ReadTypes
      <4>2. wire[p] \o seg \in Seq(Tokens)
        BY <2>1, <4>1
      <4> QED
        BY <1>2, <3>1, <4>1, <4>2
    <3>2. CASE transport # "stream"
      <4>1. wire \in [Peers -> Seq(Msgs)]
        BY <1>3, <3>2 DEF ReadTypes
      <4>2. Append(wire[p], seg) \in Seq(Msgs)
        BY <1>5, <4>1
      <4> QED
        BY <1>2, <3>2, <4>1, <4>2
    <3> QED
      BY <3>1, <3>2
  <2>3. UNCHANGED <<buf, rd, acc, queue>>
    BY <1>2 DEF readVars
  <2>4. ReadTypes'
    BY <1>2, <1>3, <2>2, <2>3 DEF ReadTypes
  <2>5. ASSUME NEW q \in Peers PROVE ReadOK(q)'
    BY <1>2, <1>3, <2>3 DEF ReadOK
  <2> QED
    BY <2>4, <2>5 DEF ReadInv
<1> QED
  BY <1>4, <1>6, <1>8, <1>9, <1>10 DEF DataInv, AppInv

(* The end of write_payload: the segments go, and it may be the chain. *)
LEMMA ClearKeeps ==
    ASSUME DataInv, NEW p \in Peers, writing[p],
           UNCHANGED <<chain, handle, transport, sends, keep, dropped, sent>>,
           writing' = [writing EXCEPT ![p] = FALSE], out' = [out EXCEPT ![p] = << >>],
           segs' = [segs EXCEPT ![p] = [i \in DOMAIN chain |-> << >>]],
           \/ UNCHANGED <<pay, chains>>
           \/ pay' = [pay EXCEPT ![p].alive = FALSE] /\ chains' = [chains EXCEPT ![p] = @ - 1]
    PROVE  AppInv'
<1>1. AppTypes /\ (\A q \in Peers : AppOK(q)) /\ WrittenOK
  BY DEF DataInv, AppInv
<1>2. /\ [i \in DOMAIN chain |-> << >>] \in [1 .. Len(chain) -> Seq(Msgs)]
      /\ \A i \in 1 .. Len(chain) : [j \in DOMAIN chain |-> << >>][i] = << >>
  BY DEF DataInv, ChainTypes
<1>3. /\ pay[p].alive /\ pay[p].there
      /\ chains[p] \in Nat /\ dropped[p] \in Nat /\ chains[p] = dropped[p] + 1
      /\ chains[p] <= MaxInstances /\ MaxInstances \in Nat
  <2>1. pay[p].alive /\ pay[p].there
    BY <1>1 DEF AppOK
  <2>2. chains[p] \in Nat /\ dropped[p] \in Nat /\ MaxInstances \in Nat
    BY <1>1, MessagePathAssumption DEF AppTypes
  <2>3. chains[p] = dropped[p] + 1 /\ chains[p] <= MaxInstances
    BY <1>1, <2>1 DEF AppOK
  <2> QED
    BY <2>1, <2>2, <2>3
<1>10. /\ pay' \in [Peers -> [there : BOOLEAN, alive : BOOLEAN, content : Seq(Tokens)]]
       /\ chains' \in [Peers -> Nat]
       /\ pay'[p].there
       /\ \/ pay'[p].alive /\ chains'[p] = chains[p]
          \/ ~ pay'[p].alive /\ chains'[p] = chains[p] - 1
       /\ \A q \in Peers \ {p} : pay'[q] = pay[q] /\ chains'[q] = chains[q]
  <2>1. pay \in [Peers -> [there : BOOLEAN, alive : BOOLEAN, content : Seq(Tokens)]]
        /\ chains \in [Peers -> Nat]
    BY <1>1 DEF AppTypes
  <2>2. CASE UNCHANGED <<pay, chains>>
    BY <1>3, <2>1, <2>2
  <2>3. CASE pay' = [pay EXCEPT ![p].alive = FALSE] /\ chains' = [chains EXCEPT ![p] = @ - 1]
    <3>1. pay' \in [Peers -> [there : BOOLEAN, alive : BOOLEAN, content : Seq(Tokens)]]
      BY <2>1, <2>3
    <3>2. pay'[p].there /\ ~ pay'[p].alive
      BY <1>3, <2>1, <2>3
    <3>3. chains' \in [Peers -> Nat] /\ chains'[p] = chains[p] - 1
      BY <1>3, <2>1, <2>3
    <3>4. \A q \in Peers \ {p} : pay'[q] = pay[q] /\ chains'[q] = chains[q]
      BY <2>1, <2>3
    <3> QED
      BY <3>1, <3>2, <3>3, <3>4
  <2> QED
    BY <2>2, <2>3
<1>4. AppTypes'
  <2>1. segs' \in [Peers -> [1 .. Len(chain) -> Seq(Msgs)]]
    BY <1>1, <1>2 DEF AppTypes
  <2>2. writing' \in [Peers -> BOOLEAN] /\ out' \in [Peers -> Seq(Msgs)]
    BY <1>1 DEF AppTypes
  <2> QED
    BY <1>1, <1>10, <2>1, <2>2 DEF AppTypes
<1>5. ASSUME NEW q \in Peers PROVE AppOK(q)'
  <2>1. CASE q = p
    <3>1. ~ writing'[q] /\ out'[q] = << >> /\ segs'[q] = [i \in DOMAIN chain |-> << >>]
      BY <1>1, <2>1 DEF AppTypes
    <3>2. \A i \in 1 .. Len(chain') : segs'[q][i] = << >>
      BY <1>2, <3>1
    <3>5. /\ chains'[q] = dropped'[q] + IF pay'[q].alive THEN 1 ELSE 0
          /\ chains'[q] <= MaxInstances
      BY <1>3, <1>10, <2>1
    <3>6. pay'[q].there
      BY <1>10, <2>1
    <3> QED
      BY <3>1, <3>2, <3>5, <3>6 DEF AppOK
  <2>2. CASE q # p
    <3>1. /\ pay'[q] = pay[q] /\ segs'[q] = segs[q] /\ out'[q] = out[q]
          /\ writing'[q] = writing[q] /\ chains'[q] = chains[q]
      BY <1>1, <1>10, <2>2 DEF AppTypes
    <3>2. AppOK(q)
      BY <1>1
    <3> HIDE <1>1
    <3> QED
      BY <3>1, <3>2 DEF AppOK
  <2> QED
    BY <2>1, <2>2
<1>6. WrittenOK'
  <2>1. ASSUME NEW q \in Peers, out'[q] # << >>
        PROVE  pay'[q] = pay[q] /\ out'[q] = out[q]
    BY <1>1, <1>10, <2>1 DEF AppTypes
  <2> QED
    BY <1>1, <2>1 DEF WrittenOK
<1> QED
  BY <1>4, <1>5, <1>6 DEF AppInv

(* The segment that is to be written is what the chain made of the message. *)
LEMMA NextSegment ==
    ASSUME DataInv, NEW p \in Peers, out[p] # << >>
    PROVE  /\ Head(out[p]) \in Msgs /\ Clean(p, sends[p], Head(out[p])) /\ sends[p] \in Nat
           /\ Tail(out[p]) = << >>
<1>1. sends[p] \in Nat /\ out[p] \in Seq(Msgs)
  BY MessagePathAssumption DEF DataInv, AppInv, AppTypes
<1>2. Len(out[p]) = 1 /\ PackedAs(chain, handle, p, sends[p], pay[p].content, out[p][1])
  BY DEF DataInv, AppInv, WrittenOK
<1>3. Head(out[p]) = out[p][1] /\ out[p][1] \in Msgs /\ Tail(out[p]) = << >>
  BY <1>1, <1>2, OnlyOne
<1>4. chain \in Seq(Protocols) /\ handle \in 0 .. Len(chain) /\ handle \in 0 .. handle
  <2>1. chain \in Seq(Protocols) /\ handle \in 1 .. Len(chain)
    BY DEF DataInv, ChainTypes
  <2> QED
    BY <2>1
<1>5. PICK lv : /\ Clean(p, sends[p], pay[p].content)
                /\ Packing(chain, handle, p, sends[p], pay[p].content, lv) /\ lv[handle] = out[p][1]
  BY <1>2 DEF PackedAs
<1>6. Clean(p, sends[p], lv[handle])
  BY <1>1, <1>4, <1>5, PackingClean
<1> QED
  BY <1>1, <1>3, <1>5, <1>6

(* The front of a segment is of the tokens of its send.                     *)
LEMMA TornTokens ==
    ASSUME NEW p, NEW n, NEW seg, Clean(p, n, seg), NEW k \in 1 .. Len(seg) - 1,
           NEW e, e = SubSeq(seg, 1, k)
    PROVE  e \in Seq(Tokens) /\ \A i \in 1 .. Len(e) : e[i].from = p /\ e[i].send = n
<1>1. seg \in Seq(Tokens) /\ Len(seg) \in Nat /\ k \in 1 .. Len(seg)
  BY DEF Clean
<1>2. e \in Seq(Tokens) /\ Len(e) = k /\ \A i \in 1 .. k : e[i] = seg[i] /\ i \in 1 .. Len(seg)
  BY <1>1
<1> QED
  BY <1>2 DEF Clean

(* A failed write keeps it: what it leaves on a stream are tokens.          *)
LEMMA FailsKeeps ==
    ASSUME DataInv, NEW p \in Peers, WriteFails(p)
    PROVE  DataInv'
<1>1. ChainTypes' /\ ViewInv'
  BY KeptChain, KeptViews DEF DataInv, WriteFails
<1>2. AppInv'
  BY ClearKeeps DEF WriteFails, DestroyChain
<1>3. ReadTypes /\ \A q \in Peers : ReadOK(q)
  BY DEF DataInv, ReadInv
<1>4. UNCHANGED <<transport, buf, rd, acc, queue>>
  BY DEF WriteFails, readVars
<1>5. wire' \in [Peers -> IF transport = "stream" THEN Seq(Tokens) ELSE Seq(Msgs)]
  <2>1. CASE UNCHANGED wire
    BY <1>3, <2>1 DEF ReadTypes
  <2>2. CASE transport = "stream" /\ wire' # wire
    <3>1. PICK part \in 1 .. Len(Head(out[p])) - 1 :
            wire' = [wire EXCEPT ![p] = @ \o SubSeq(Head(out[p]), 1, part)]
      BY <2>2 DEF WriteFails
    <3>2. Head(out[p]) \in Msgs /\ Clean(p, sends[p], Head(out[p])) /\ sends[p] \in Nat
      BY NextSegment DEF WriteFails
    <3>3. PICK e : e = SubSeq(Head(out[p]), 1, part)
      OBVIOUS
    <3>4. e \in Seq(Tokens)
      BY <3>2, <3>3, TornTokens
    <3>5. wire \in [Peers -> Seq(Tokens)]
      BY <1>3, <2>2 DEF ReadTypes
    <3>6. wire[p] \o e \in Seq(Tokens)
      BY <3>4, <3>5
    <3> QED
      BY <2>2, <3>1, <3>3, <3>5, <3>6
  <2> QED
    BY <2>1, <2>2 DEF WriteFails
<1>6. ReadTypes'
  BY <1>3, <1>4, <1>5 DEF ReadTypes
<1>7. ASSUME NEW q \in Peers PROVE ReadOK(q)'
  BY <1>3, <1>4 DEF ReadOK
<1> QED
  BY <1>1, <1>2, <1>6, <1>7 DEF DataInv, ReadInv

(* The end of write_payload keeps it.                                       *)
LEMMA EndsKeeps ==
    ASSUME DataInv, NEW p \in Peers, WriteEnds(p)
    PROVE  DataInv'
<1>1. ChainTypes' /\ ReadInv' /\ ViewInv'
  BY KeptChain, KeptRead, KeptViews DEF DataInv, WriteEnds, DestroyChain
<1>2. AppInv'
  BY ClearKeeps DEF WriteEnds, DestroyChain
<1> QED
  BY <1>1, <1>2 DEF DataInv

-----------------------------------------------------------------------------
(* Reading. *)

(* The front n of w written over that of b. *)
LEMMA Overwrite ==
    ASSUME NEW w \in Seq(Tokens), NEW b \in Seq(Tokens), NEW n \in 1 .. Len(w), NEW r,
           r = SubSeq(w, 1, n) \o SubSeq(b, n + 1, Len(b))
    PROVE  /\ r \in Seq(Tokens)
           /\ Len(r) = IF n < Len(b) THEN Len(b) ELSE n
           /\ r[1] = w[1]
<1>1. PICK s : s = SubSeq(w, 1, n)
  OBVIOUS
<1>2. PICK t : t = SubSeq(b, n + 1, Len(b))
  OBVIOUS
<1>3. s \in Seq(Tokens) /\ Len(s) = n /\ s[1] = w[1] /\ n \in Nat \ {0}
  BY <1>1
<1>4. t \in Seq(Tokens) /\ Len(b) \in Nat /\ Len(t) = IF n < Len(b) THEN Len(b) - n ELSE 0
  BY <1>2
<1>5. r \in Seq(Tokens) /\ Len(r) = Len(s) + Len(t) /\ \A i \in 1 .. Len(s) : r[i] = s[i]
  BY <1>1, <1>2, <1>3, <1>4, ConcatAt
<1>6. r[1] = w[1]
  BY <1>3, <1>5
<1>7. Len(r) = IF n < Len(b) THEN Len(b) ELSE n
  BY <1>3, <1>4, <1>5
<1> QED
  BY <1>5, <1>6, <1>7

(* What is left of w after its first n. *)
LEMMA Rest ==
    ASSUME NEW w \in Seq(Tokens), NEW n \in 1 .. Len(w), NEW r, r = SubSeq(w, n + 1, Len(w))
    PROVE  /\ r \in Seq(Tokens) /\ Len(r) = Len(w) - n
           /\ \A i \in 1 .. Len(r) : i + n \in 1 .. Len(w) /\ r[i] = w[i + n]
<1>1. Len(w) \in Nat /\ n \in Nat \ {0} /\ n <= Len(w)
  OBVIOUS
<1>2. r \in Seq(Tokens) /\ Len(r) = Len(w) - n
  BY <1>1
<1>3. ASSUME NEW i \in 1 .. Len(r)
      PROVE  i + n \in 1 .. Len(w) /\ r[i] = w[i + n]
  <2>1. i \in 1 .. Len(w) - n
    BY <1>2
  <2>2. r[i] = w[(n + 1) + i - 1]
    BY <1>1, <2>1
  <2>3. i + n \in 1 .. Len(w) /\ (n + 1) + i - 1 = i + n
    BY <1>1, <2>1
  <2> QED
    BY <2>2, <2>3
<1> QED
  BY <1>2, <1>3

(* The message that acc and the first n of b make. *)
LEMMA Joined ==
    ASSUME NEW a \in Seq(Tokens), NEW b \in Seq(Tokens), NEW n \in 1 .. Len(b), NEW m,
           m = a \o SubSeq(b, 1, n)
    PROVE  m \in Msgs /\ m[1] = IF a = << >> THEN b[1] ELSE a[1]
<1>1. PICK s : s = SubSeq(b, 1, n)
  OBVIOUS
<1>2. s \in Seq(Tokens) /\ Len(s) = n /\ s[1] = b[1] /\ n \in Nat \ {0} /\ Len(a) \in Nat
  BY <1>1
<1>3. /\ m \in Seq(Tokens) /\ Len(m) = Len(a) + Len(s)
      /\ \A i \in 1 .. Len(a) : m[i] = a[i]
      /\ \A i \in 1 .. Len(s) : m[i + Len(a)] = s[i]
  BY <1>1, <1>2, ConcatAt
<1>4. m \in Msgs
  <2>1. Len(m) # 0
    BY <1>2, <1>3
  <2> QED
    BY <1>3, <2>1 DEF Msgs
<1>5. CASE a = << >>
  <2>1. Len(a) = 0 /\ 1 \in 1 .. Len(s) /\ 1 + Len(a) = 1
    BY <1>2, <1>5
  <2>2. m[1] = b[1]
    BY <1>2, <1>3, <2>1
  <2> QED
    BY <1>4, <1>5, <2>2
<1>6. CASE a # << >>
  <2>1. 1 \in 1 .. Len(a)
    BY <1>2, <1>6
  <2> QED
    BY <1>3, <1>4, <1>6, <2>1
<1> QED
  BY <1>5, <1>6

(* The places of a sequence with one more.                                  *)
LEMMA Appended ==
    ASSUME NEW S, NEW s \in Seq(S), NEW x \in S, NEW r, r = Append(s, x)
    PROVE  /\ r \in Seq(S) /\ Len(r) = Len(s) + 1
           /\ \A i \in 1 .. Len(r) : r[i] = IF i <= Len(s) THEN s[i] ELSE x
  OBVIOUS

(* The places of a sequence without its first.                              *)
LEMMA Taken ==
    ASSUME NEW S, NEW s \in Seq(S), s # << >>
    PROVE  /\ Head(s) = s[1] /\ Head(s) \in S
           /\ Tail(s) \in Seq(S) /\ Len(Tail(s)) = Len(s) - 1
           /\ \A i \in 1 .. Len(s) - 1 : Tail(s)[i] = s[i + 1]
<1>1. Len(s) \in Nat \ {0} /\ 1 \in 1 .. Len(s)
  OBVIOUS
<1>2. Head(s) = s[1] /\ s[1] \in S
  BY <1>1
<1>3. Tail(s) \in Seq(S) /\ Len(Tail(s)) = Len(s) - 1
  BY <1>1
<1>4. \A i \in 1 .. Len(s) - 1 : Tail(s)[i] = s[i + 1]
  BY <1>1
<1> QED
  BY <1>2, <1>3, <1>4

(* Read keeps it.                                                           *)
LEMMA ReadKeeps ==
    ASSUME DataInv, NEW p \in Peers, Read(p)
    PROVE  DataInv'
<1>1. ChainTypes' /\ AppInv' /\ ViewInv'
  BY KeptChain, KeptApp, KeptViews DEF DataInv, Read
<1>2. PICK n \in 1 .. Len(wire[p]) :
        /\ n <= BufSize
        /\ buf' = SubSeq(wire[p], 1, n) \o SubSeq(buf, n + 1, Len(buf))
        /\ wire' = [wire EXCEPT ![p] = SubSeq(@, n + 1, Len(@))]
        /\ rd' = [rd EXCEPT ![p] = [at |-> "append", n |-> n]]
  BY DEF Read
<1>3. transport = "stream" /\ UNCHANGED <<transport, acc, queue>>
  BY DEF Read
<1>4. ReadTypes /\ \A q \in Peers : ReadOK(q)
  BY DEF DataInv, ReadInv
<1>5. wire \in [Peers -> Seq(Tokens)] /\ wire[p] \in Seq(Tokens) /\ buf \in Seq(Tokens)
  BY <1>3, <1>4 DEF ReadTypes
<1>6. PICK b : b = buf'
  OBVIOUS
<1>7. PICK w : w = SubSeq(wire[p], n + 1, Len(wire[p]))
  OBVIOUS
<1>8. b \in Seq(Tokens) /\ Len(b) = IF n < Len(buf) THEN Len(buf) ELSE n
  BY <1>2, <1>5, <1>6, Overwrite
<1>9. w \in Seq(Tokens)
  BY <1>5, <1>7, Rest
<1>10. n \in Nat \ {0} /\ n <= BufSize /\ Len(buf) \in Nat /\ Len(buf) <= BufSize /\ BufSize \in Nat
  BY <1>2, <1>4, <1>5, MessagePathAssumption DEF ReadTypes
<1>11. Len(b) \in Nat /\ Len(b) <= BufSize /\ n <= Len(b) /\ Len(buf) <= Len(b)
  BY <1>8, <1>10
<1>12. ReadTypes'
  <2>1. wire' \in [Peers -> Seq(Tokens)]
    BY <1>2, <1>5, <1>7, <1>9
  <2>2. rd' \in [Peers -> [at : {"read", "append", "end"}, n : 0 .. BufSize]]
    BY <1>2, <1>4, <1>10 DEF ReadTypes
  <2> QED
    BY <1>3, <1>4, <1>6, <1>8, <1>11, <2>1, <2>2 DEF ReadTypes
<1>13. ASSUME NEW q \in Peers PROVE ReadOK(q)'
  <2>1. CASE q = p
    <3>1. rd'[q].n = n
      BY <1>2, <1>4, <2>1 DEF ReadTypes
    <3> QED
      BY <1>3, <1>6, <1>10, <1>11, <3>1 DEF ReadOK
  <2>2. CASE q # p
    <3>1. rd'[q] = rd[q] /\ rd[q].n \in Nat
      BY <1>2, <1>4, <2>2, MessagePathAssumption DEF ReadTypes
    <3>2. ReadOK(q)
      BY <1>4
    <3> QED
      BY <1>3, <1>6, <1>10, <1>11, <3>1, <3>2 DEF ReadOK
  <2> QED
    BY <2>1, <2>2
<1> QED
  BY <1>1, <1>12, <1>13 DEF DataInv, ReadInv

(* AppendMsg keeps it: a job is never empty.                                *)
LEMMA AppendKeeps ==
    ASSUME DataInv, NEW p \in Peers, AppendMsg(p)
    PROVE  DataInv'
<1>1. ChainTypes' /\ AppInv' /\ ViewInv'
  BY KeptChain, KeptApp, KeptViews DEF DataInv, AppendMsg
<1>2. ReadTypes /\ \A q \in Peers : ReadOK(q)
  BY DEF DataInv, ReadInv
<1>3. PICK msg : msg = acc[p] \o SubSeq(buf, 1, rd[p].n)
  OBVIOUS
<1>4. /\ rd[p].at = "append" /\ UNCHANGED <<transport, wire, buf>>
      /\ rd' = [rd EXCEPT ![p] = [at |-> "read", n |-> 0]]
      /\ \/ acc' = [acc EXCEPT ![p] = msg] /\ queue' = queue
         \/ /\ acc' = [acc EXCEPT ![p] = << >>]
            /\ queue' = Append(queue, [src |-> p, chunk |-> msg])
  BY <1>3 DEF AppendMsg
<1>5. rd[p].n \in 1 .. Len(buf) /\ transport # "datagram" /\ acc[p] \in Seq(Tokens) /\ buf \in Seq(Tokens)
  <2>1. rd[p].n \in 1 .. BufSize /\ rd[p].n <= Len(buf) /\ transport # "datagram"
    BY <1>2, <1>4 DEF ReadOK
  <2>2. acc[p] \in Seq(Tokens) /\ buf \in Seq(Tokens) /\ Len(buf) \in Nat
    BY <1>2 DEF ReadTypes
  <2> QED
    BY <2>1, <2>2, MessagePathAssumption
<1>6. msg \in Msgs
  BY <1>3, <1>5, Joined
<1>7. ReadTypes'
  <2>1. acc' \in [Peers -> Seq(Tokens)]
    <3>1. msg \in Seq(Tokens) /\ << >> \in Seq(Tokens) /\ acc \in [Peers -> Seq(Tokens)]
      BY <1>2, <1>6 DEF Msgs, ReadTypes
    <3> QED
      BY <1>4, <3>1
  <2>2. queue' \in Seq([src : Peers, chunk : Msgs])
    <3>1. [src |-> p, chunk |-> msg] \in [src : Peers, chunk : Msgs]
      BY <1>6
    <3>2. queue \in Seq([src : Peers, chunk : Msgs])
      BY <1>2 DEF ReadTypes
    <3>3. Append(queue, [src |-> p, chunk |-> msg]) \in Seq([src : Peers, chunk : Msgs])
      BY <3>1, <3>2, Appended
    <3> QED
      BY <1>4, <3>2, <3>3, Zenon
  <2>3. rd' \in [Peers -> [at : {"read", "append", "end"}, n : 0 .. BufSize]]
    BY <1>2, <1>4, MessagePathAssumption DEF ReadTypes
  <2> QED
    BY <1>2, <1>4, <2>1, <2>2, <2>3 DEF ReadTypes
<1>8. ASSUME NEW q \in Peers PROVE ReadOK(q)'
  <2>1. CASE q = p
    <3>1. rd'[q].at = "read"
      BY <1>2, <1>4, <2>1 DEF ReadTypes
    <3> QED
      BY <1>4, <1>5, <3>1 DEF ReadOK
  <2>2. CASE q # p
    <3>1. rd'[q] = rd[q]
      BY <1>2, <1>4, <2>2 DEF ReadTypes
    <3>2. ReadOK(q)
      BY <1>2
    <3> QED
      BY <1>4, <1>5, <3>1, <3>2 DEF ReadOK
  <2> QED
    BY <2>1, <2>2
<1> QED
  BY <1>1, <1>7, <1>8 DEF DataInv, ReadInv

(* ReadEnd keeps it.                                                        *)
LEMMA EndKeeps ==
    ASSUME DataInv, NEW p \in Peers, ReadEnd(p)
    PROVE  DataInv'
<1>1. ChainTypes' /\ AppInv' /\ ViewInv'
  BY KeptChain, KeptApp, KeptViews DEF DataInv, ReadEnd
<1>2. ReadTypes /\ \A q \in Peers : ReadOK(q)
  BY DEF DataInv, ReadInv
<1>3. /\ transport = "stream" /\ UNCHANGED <<transport, wire, buf>>
      /\ rd' = [rd EXCEPT ![p].at = "end"] /\ acc' = [acc EXCEPT ![p] = << >>]
      /\ \/ acc[p] # << >> /\ queue' = Append(queue, [src |-> p, chunk |-> acc[p]])
         \/ queue' = queue
  BY DEF ReadEnd
<1>4. ReadTypes'
  <2>1. acc' \in [Peers -> Seq(Tokens)]
    BY <1>2, <1>3 DEF ReadTypes
  <2>2. queue' \in Seq([src : Peers, chunk : Msgs])
    <3>1. acc[p] # << >> => [src |-> p, chunk |-> acc[p]] \in [src : Peers, chunk : Msgs]
      BY <1>2 DEF ReadTypes, Msgs
    <3>2. queue \in Seq([src : Peers, chunk : Msgs])
      BY <1>2 DEF ReadTypes
    <3> QED
      BY <1>3, <3>1, <3>2, Appended
  <2>3. rd' \in [Peers -> [at : {"read", "append", "end"}, n : 0 .. BufSize]]
    BY <1>2, <1>3 DEF ReadTypes
  <2> QED
    BY <1>2, <1>3, <2>1, <2>2, <2>3 DEF ReadTypes
<1>5. ASSUME NEW q \in Peers PROVE ReadOK(q)'
  <2>1. rd'[q].at = "append" => rd'[q] = rd[q]
    BY <1>2, <1>3 DEF ReadTypes
  <2> QED
    BY <1>2, <1>3, <2>1 DEF ReadOK
<1> QED
  BY <1>1, <1>4, <1>5 DEF DataInv, ReadInv

(* The places of a sequence without its k-th.                               *)
LEMMA Removed ==
    ASSUME NEW S, NEW s \in Seq(S), NEW k \in 1 .. Len(s), NEW r, r = RemoveAt(s, k)
    PROVE  /\ r \in Seq(S) /\ Len(r) = Len(s) - 1
           /\ \A i \in 1 .. Len(r) : r[i] = IF i < k THEN s[i] ELSE s[i + 1]
<1>1. PICK a : a = SubSeq(s, 1, k - 1)
  OBVIOUS
<1>2. PICK b : b = SubSeq(s, k + 1, Len(s))
  OBVIOUS
<1>3. Len(s) \in Nat /\ k \in Nat /\ 1 <= k /\ k <= Len(s) /\ r = a \o b
  BY <1>1, <1>2 DEF RemoveAt
<1>4. a \in Seq(S) /\ Len(a) = k - 1 /\ \A i \in 1 .. k - 1 : a[i] = s[i]
  BY <1>1, <1>3
<1>5. b \in Seq(S) /\ Len(b) = Len(s) - k
  BY <1>2, <1>3
<1>6. \A i \in 1 .. Len(s) - k : b[i] = s[i + k]
  <2> SUFFICES ASSUME NEW i \in 1 .. Len(s) - k PROVE b[i] = s[i + k]
    OBVIOUS
  <2>1. b[i] = s[(k + 1) + i - 1]
    BY <1>2, <1>3
  <2>2. (k + 1) + i - 1 = i + k
    BY <1>3
  <2> QED
    BY <2>1, <2>2
<1>7. r \in Seq(S)
  BY <1>3, <1>4, <1>5
<1>8. Len(r) = Len(s) - 1
  <2>1. Len(r) = Len(a) + Len(b)
    <3>1. a \in Seq(S) /\ b \in Seq(S) /\ r = a \o b
      BY <1>3, <1>4, <1>5
    <3>2. Len(a \o b) = Len(a) + Len(b)
      BY <3>1, ConcatAt
    <3> QED
      BY <3>1, <3>2, Zenon
  <2> QED
    BY <1>3, <1>4, <1>5, <2>1
<1>9. \A i \in 1 .. Len(a) : r[i] = a[i]
  BY <1>3, <1>4, <1>5
<1>10. \A i \in 1 .. Len(b) : r[i + Len(a)] = b[i]
  BY <1>3, <1>4, <1>5
<1>11. ASSUME NEW i \in 1 .. Len(r)
       PROVE  r[i] = IF i < k THEN s[i] ELSE s[i + 1]
  <2>1. CASE i < k
    BY <1>3, <1>4, <1>8, <1>9, <2>1
  <2>2. CASE i >= k
    <3>1. /\ i - (k - 1) \in 1 .. Len(s) - k /\ (i - (k - 1)) + (k - 1) = i
          /\ (i - (k - 1)) + k = i + 1
      BY <1>3, <1>8, <2>2
    <3>2. r[i] = b[i - (k - 1)]
      BY <1>4, <1>5, <1>10, <3>1
    <3>3. b[i - (k - 1)] = s[i + 1]
      BY <1>6, <3>1
    <3> QED
      BY <2>2, <3>2, <3>3
  <2> QED
    BY <1>3, <1>8, <2>1, <2>2
<1> QED
  BY <1>7, <1>8, <1>11

(* A datagram that is cut begins as it did.                                 *)
LEMMA CutIs ==
    ASSUME NEW d \in Msgs
    PROVE  Cut(d) \in Msgs /\ Cut(d)[1] = d[1]
<1>1. d \in Seq(Tokens) /\ Len(d) \in Nat \ {0} /\ BufSize \in Nat \ {0}
  BY MessagePathAssumption DEF Msgs
<1>2. CASE Len(d) <= BufSize
  BY <1>2 DEF Cut
<1>3. CASE Len(d) > BufSize
  <2>1. PICK c : c = SubSeq(d, 1, BufSize)
    OBVIOUS
  <2>2. c \in Seq(Tokens) /\ Len(c) = BufSize /\ c[1] = d[1]
    BY <1>1, <1>3, <2>1
  <2>3. Cut(d) = c
    BY <1>1, <1>3, <2>1 DEF Cut
  <2> QED
    BY <1>1, <2>2, <2>3 DEF Msgs
<1> QED
  BY <1>1, <1>2, <1>3

(* ReadDatagram keeps it.                                                   *)
LEMMA DatagramKeeps ==
    ASSUME DataInv, NEW p \in Peers, ReadDatagram(p)
    PROVE  DataInv'
<1>1. ChainTypes' /\ AppInv' /\ ViewInv'
  BY KeptChain, KeptApp, KeptViews DEF DataInv, ReadDatagram
<1>2. ReadTypes /\ \A q \in Peers : ReadOK(q)
  BY DEF DataInv, ReadInv
<1>3. PICK i \in DOMAIN wire[p] :
        /\ wire' = [wire EXCEPT ![p] = RemoveAt(@, i)]
        /\ queue' = Append(queue, [src |-> p, chunk |-> Cut(wire[p][i])])
  BY DEF ReadDatagram
<1>4. transport = "datagram" /\ UNCHANGED <<transport, buf, rd, acc>>
  BY DEF ReadDatagram
<1>5. wire \in [Peers -> Seq(Msgs)] /\ i \in 1 .. Len(wire[p]) /\ wire[p][i] \in Msgs
  BY <1>2, <1>4 DEF ReadTypes
<1>6. wire' \in [Peers -> Seq(Msgs)]
  <2>1. RemoveAt(wire[p], i) \in Seq(Msgs)
    BY <1>5, Removed
  <2> QED
    BY <1>3, <1>5, <2>1
<1>7. queue' \in Seq([src : Peers, chunk : Msgs])
  <2>1. [src |-> p, chunk |-> Cut(wire[p][i])] \in [src : Peers, chunk : Msgs]
    BY <1>5, CutIs
  <2>2. queue \in Seq([src : Peers, chunk : Msgs])
    BY <1>2 DEF ReadTypes
  <2> QED
    BY <1>3, <2>1, <2>2, Appended
<1>8. ReadTypes'
  BY <1>2, <1>4, <1>6, <1>7 DEF ReadTypes
<1>9. ASSUME NEW q \in Peers PROVE ReadOK(q)'
  BY <1>2, <1>4 DEF ReadOK
<1> QED
  BY <1>1, <1>8, <1>9 DEF DataInv, ReadInv

(* A datagram lost keeps it.                                                *)
LEMMA LoseKeeps ==
    ASSUME DataInv, NEW p \in Peers, Lose(p)
    PROVE  DataInv'
<1>1. ChainTypes' /\ AppInv' /\ ViewInv'
  BY KeptChain, KeptApp, KeptViews DEF DataInv, Lose
<1>2. ReadTypes /\ \A q \in Peers : ReadOK(q)
  BY DEF DataInv, ReadInv
<1>3. /\ transport = "datagram" /\ wire[p] # << >> /\ UNCHANGED <<transport, buf, rd, acc, queue>>
      /\ wire' = [wire EXCEPT ![p] = Tail(@)]
  BY DEF Lose, readVars
<1>4. wire \in [Peers -> Seq(Msgs)]
  BY <1>2, <1>3 DEF ReadTypes
<1>5. wire' \in [Peers -> Seq(Msgs)]
  <2>1. Tail(wire[p]) \in Seq(Msgs)
    BY <1>3, <1>4
  <2> QED
    BY <1>3, <1>4, <2>1
<1>6. ReadTypes'
  BY <1>2, <1>3, <1>5 DEF ReadTypes
<1>7. ASSUME NEW q \in Peers PROVE ReadOK(q)'
  BY <1>2, <1>3 DEF ReadOK
<1> QED
  BY <1>1, <1>6, <1>7 DEF DataInv, ReadInv

(* And so does one that is delivered twice.                                 *)
LEMMA DuplicateKeeps ==
    ASSUME DataInv, NEW p \in Peers, Duplicate(p)
    PROVE  DataInv'
<1>1. ChainTypes' /\ AppInv' /\ ViewInv'
  BY KeptChain, KeptApp, KeptViews DEF DataInv, Duplicate
<1>2. ReadTypes /\ \A q \in Peers : ReadOK(q)
  BY DEF DataInv, ReadInv
<1>3. /\ transport = "datagram" /\ UNCHANGED <<transport, buf, rd, acc, queue>>
      /\ \E i \in DOMAIN wire[p] : wire' = [wire EXCEPT ![p] = Append(@, wire[p][i])]
  BY DEF Duplicate, readVars
<1>4. wire \in [Peers -> Seq(Msgs)]
  BY <1>2, <1>3 DEF ReadTypes
<1>5. wire' \in [Peers -> Seq(Msgs)]
  <2>1. PICK i \in DOMAIN wire[p] : wire' = [wire EXCEPT ![p] = Append(@, wire[p][i])]
    BY <1>3
  <2>2. wire[p] \in Seq(Msgs) /\ wire[p][i] \in Msgs
    BY <1>4, <2>1
  <2>3. Append(wire[p], wire[p][i]) \in Seq(Msgs)
    BY <2>2
  <2> QED
    BY <1>4, <2>1, <2>3
<1>6. ReadTypes'
  BY <1>2, <1>3, <1>5 DEF ReadTypes
<1>7. ASSUME NEW q \in Peers PROVE ReadOK(q)'
  BY <1>2, <1>3 DEF ReadOK
<1> QED
  BY <1>1, <1>6, <1>7 DEF DataInv, ReadInv

-----------------------------------------------------------------------------
(* The job of handle_protocol_chain. *)

(* HandleChunk keeps it: what it shows is what the chain makes of the       *)
(* chunk.                                                                   *)
LEMMA HandleKeeps ==
    ASSUME DataInv, HandleChunk, aborted = Nothing
    PROVE  DataInv'
<1>1. ChainTypes' /\ AppInv'
  BY KeptChain, KeptApp DEF DataInv, HandleChunk
<1>2. ReadTypes /\ (\A q \in Peers : ReadOK(q)) /\ ViewTypes /\ ViewsOK /\ ChainTypes
  BY DEF DataInv, ReadInv, ViewInv
<1>3. PICK job : job = Head(queue)
  OBVIOUS
<1>4. PICK u : u = UnpackChain(job.chunk)
  OBVIOUS
<1>5. /\ queue # << >> /\ queue' = Tail(queue)
      /\ \/ /\ u.res \in {"ok", "garbled"} /\ aborted' = aborted
            /\ shown' = Append(shown, [src |-> job.src, chunk |-> job.chunk, how |-> u.res,
                                       content |-> u.body, owner |-> u.owner])
         \/ u.res \in {"abort", "garbled"} /\ aborted' = job /\ shown' = shown
      /\ UNCHANGED <<chain, transport, wire, buf, rd, acc>>
  BY <1>3, <1>4 DEF HandleChunk
<1>6. job \in [src : Peers, chunk : Msgs] /\ Tail(queue) \in Seq([src : Peers, chunk : Msgs])
  <2>1. queue \in Seq([src : Peers, chunk : Msgs])
    BY <1>2 DEF ReadTypes
  <2> QED
    BY <1>3, <1>5, <2>1, Taken
<1>7. ReadInv'
  <2>1. ReadTypes'
    BY <1>2, <1>5, <1>6 DEF ReadTypes
  <2>2. ASSUME NEW q \in Peers PROVE ReadOK(q)'
    BY <1>2, <1>5 DEF ReadOK
  <2> QED
    BY <2>1, <2>2 DEF ReadInv
<1>8. job.src \in Peers /\ job.chunk \in Msgs /\ job.chunk \in Seq(Tokens)
  BY <1>6 DEF Msgs
<1>9. chain \in Seq(Protocols) /\ Len(chain) \in Nat
  BY <1>2 DEF ChainTypes
<1>10. Unpacks(chain, job.chunk, u)
  BY <1>4, <1>9, UnpackSteps
<1>11. u \in Results
  BY <1>8, <1>9, <1>10, UnpacksTyped
<1>12. CASE /\ u.res \in {"ok", "garbled"} /\ aborted' = aborted
            /\ shown' = Append(shown, [src |-> job.src, chunk |-> job.chunk, how |-> u.res,
                                       content |-> u.body, owner |-> u.owner])
  <2>1. PICK v : v = [src |-> job.src, chunk |-> job.chunk, how |-> u.res,
                      content |-> u.body, owner |-> u.owner]
    OBVIOUS
  <2>2. v \in Views
    BY <1>8, <1>11, <1>12, <2>1 DEF Views, Results
  <2>3. v.chunk = job.chunk /\ v.how = u.res /\ v.content = u.body /\ v.owner = u.owner
    BY <2>1
  <2>4. shown \in Seq(Views)
    BY <1>2 DEF ViewTypes
  <2>5. /\ shown' \in Seq(Views) /\ Len(shown') = Len(shown) + 1
        /\ \A i \in 1 .. Len(shown') : shown'[i] = IF i <= Len(shown) THEN shown[i] ELSE v
    BY <1>12, <2>1, <2>2, <2>4, Appended
  <2>6. ViewTypes'
    BY <1>2, <1>12, <2>5 DEF ViewTypes
  <2>7. ASSUME NEW i \in 1 .. Len(shown')
        PROVE  \E x : /\ Unpacks(chain', shown'[i].chunk, x)
                      /\ shown'[i].how = x.res /\ shown'[i].content = x.body /\ shown'[i].owner = x.owner
    <3>1. CASE i <= Len(shown)
      <4>1. i \in 1 .. Len(shown) /\ shown'[i] = shown[i]
        BY <2>4, <2>5, <3>1
      <4> QED
        BY <1>2, <1>5, <4>1 DEF ViewsOK
    <3>2. CASE ~ (i <= Len(shown))
      <4>1. shown'[i] = v
        BY <2>5, <3>2
      <4> QED
        BY <1>5, <1>10, <2>3, <4>1
    <3> QED
      BY <3>1, <3>2
  <2>8. ViewsOK'
    BY <1>12, <2>7 DEF ViewsOK
  <2> QED
    BY <1>1, <1>7, <2>6, <2>8 DEF DataInv, ViewInv
<1>13. CASE u.res \in {"abort", "garbled"} /\ aborted' = job /\ shown' = shown
  <2>1. ViewTypes'
    BY <1>2, <1>6, <1>13 DEF ViewTypes
  <2>2. ViewsOK'
    BY <1>2, <1>5, <1>10, <1>13 DEF ViewsOK
  <2> QED
    BY <1>1, <1>7, <2>1, <2>2 DEF DataInv, ViewInv
<1> QED
  BY <1>5, <1>12, <1>13

-----------------------------------------------------------------------------
(* The theorems. *)

(* Every step keeps the invariant.                                          *)
LEMMA NextInv == DataInv /\ [Next]_vars => DataInv'
<1> SUFFICES ASSUME DataInv, [Next]_vars PROVE DataInv'
  OBVIOUS
<1>1. CASE UNCHANGED vars
  <2>1. UNCHANGED <<chain, handle, transport, appVars, wire, readVars, shown, sent, aborted>>
    BY <1>1 DEF vars
  <2> QED
    BY <2>1, KeptChain, KeptApp, KeptRead, KeptViews DEF DataInv
<1>2. CASE HandleChunk /\ aborted = Nothing
  BY <1>2, HandleKeeps
<1>3. ASSUME NEW p \in Peers, App(p)
      PROVE  DataInv'
  BY <1>3, CreateKeeps, DropKeeps, SendKeeps, WriteKeeps, FailsKeeps, EndsKeeps DEF App
<1>4. ASSUME NEW p \in Peers,
             \/ Read(p) \/ AppendMsg(p) \/ ReadEnd(p)
             \/ ReadDatagram(p) \/ Lose(p) \/ Duplicate(p)
      PROVE  DataInv'
  BY <1>4, ReadKeeps, AppendKeeps, EndKeeps, DatagramKeeps, LoseKeeps, DuplicateKeeps
<1> QED
  BY <1>1, <1>2, <1>3, <1>4 DEF Next

(* It holds in every state.                                                 *)
LEMMA DataSafe == Spec => []DataInv
<1> QED
  BY InitInv, NextInv, PTL DEF Spec

(* The variables have their types; no more chains than                      *)
(* MAX_PROTOCOL_CHAIN_INSTANCES are ever in the map, nor payloads that left *)
(* one there.                                                               *)
THEOREM TypeCorrect == Spec => []TypeOK
<1>1. ASSUME DataInv
      PROVE  TypeOK
  <2>1. ChainTypes /\ AppTypes /\ ReadTypes /\ ViewTypes /\ \A p \in Peers : AppOK(p)
    BY <1>1 DEF DataInv, AppInv, ReadInv, ViewInv
  <2>2. chain \in Chains /\ handle \in 1 .. Len(chain) /\ transport \in Transports
    BY <2>1 DEF ChainTypes
  <2>3. sends \in [Peers -> 0 .. MaxSends] /\ {keep, writing} \subseteq [Peers -> BOOLEAN]
    BY <2>1 DEF AppTypes
  <2>4. ASSUME NEW p \in Peers
        PROVE  /\ pay[p].there \in BOOLEAN /\ pay[p].alive \in BOOLEAN
               /\ pay[p].alive => pay[p].there
               /\ DOMAIN segs[p] = DOMAIN chain
               /\ rd[p].n \in 0 .. BufSize
    <3>1. pay[p] \in [there : BOOLEAN, alive : BOOLEAN, content : Seq(Tokens)]
      BY <2>1 DEF AppTypes
    <3>2. pay[p].there \in BOOLEAN /\ pay[p].alive \in BOOLEAN
      BY <3>1
    <3>3. pay[p].alive => pay[p].there
      BY <2>1 DEF AppOK
    <3>4. DOMAIN segs[p] = DOMAIN chain
      BY <2>1 DEF AppTypes, ChainTypes
    <3>5. rd[p].n \in 0 .. BufSize
      BY <2>1 DEF ReadTypes
    <3> QED
      BY <3>2, <3>3, <3>4, <3>5
  <2>5. chains \in [Peers -> 0 .. MaxInstances] /\ dropped \in [Peers -> 0 .. MaxInstances]
    <3>1. ASSUME NEW p \in Peers
          PROVE  chains[p] \in 0 .. MaxInstances /\ dropped[p] \in 0 .. MaxInstances
      <4>1. chains[p] \in Nat /\ dropped[p] \in Nat /\ MaxInstances \in Nat
        BY <2>1, MessagePathAssumption DEF AppTypes
      <4>2. AppOK(p)
        BY <2>1
      <4>3. chains[p] <= MaxInstances /\ (chains[p] = dropped[p] \/ chains[p] = dropped[p] + 1)
        BY <4>1, <4>2 DEF AppOK
      <4> QED
        BY <4>1, <4>3
    <3> QED
      BY <2>1, <3>1 DEF AppTypes
  <2>6. Len(buf) <= BufSize /\ aborted.src \in Peers \cup {Nobody}
    BY <2>1 DEF ReadTypes, ViewTypes, Nothing
  <2> QED
    BY <2>2, <2>3, <2>4, <2>5, <2>6, Zenon DEF TypeOK
<1> QED
  BY <1>1, DataSafe, PTL

(* The map of the chains holds a chain for each payload that can be sent,   *)
(* and those whose payload was dropped unsent; so it is full after          *)
(* MAX_PROTOCOL_CHAIN_INSTANCES such payloads and never before.             *)
THEOREM ChainsAreCounted == Spec => []ChainsCounted
<1>1. DataInv => ChainsCounted
  BY DEF DataInv, AppInv, AppOK, ChainsCounted
<1> QED
  BY <1>1, DataSafe, PTL

(* For every chain of protocols, every size of message and of buffer: what  *)
(* begins with a segment written is unpacked to the message sent.           *)
THEOREM MessagesArriveWhole == Spec => []RoundTrip
<1>1. ASSUME DataInv
      PROVE  RoundTrip
  <2>1. ChainTypes /\ ViewTypes /\ ViewsOK /\ WrittenOK
    BY <1>1 DEF DataInv, AppInv, ViewInv
  <2> SUFFICES ASSUME SentThroughChain, NEW s \in sent
               PROVE  /\ aborted # Nothing => ~BeginsWith(aborted, s)
                      /\ \A i \in DOMAIN shown :
                            BeginsWith(shown[i], s) =>
                                /\ shown[i].how = "ok"
                                /\ shown[i].content = s.content
                                /\ chain[1] = "ucmd" => shown[i].owner = s.from
    BY DEF RoundTrip
  <2>2. /\ chain \in Seq(Protocols) /\ chain # << >> /\ handle = Len(chain)
        /\ Len(chain) \in Nat \ {0} /\ Len(chain) \in 1 .. Len(chain) /\ DOMAIN chain = 1 .. Len(chain)
    BY <2>1 DEF ChainTypes, SentThroughChain
  <2>3. PICK n, lv : /\ n \in Nat /\ s.from \in Peers
                     /\ Clean(s.from, n, s.content)
                     /\ Packing(chain, Len(chain), s.from, n, s.content, lv)
                     /\ lv[Len(chain)] = s.seg
    BY <2>1, <2>2 DEF WrittenOK, PackedAs
  <2>4. ASSUME NEW src, NEW chunk \in Msgs, BeginsWith([src |-> src, chunk |-> chunk], s),
               NEW u, Unpacks(chain, chunk, u)
        PROVE  /\ u.res = "ok" /\ u.body = s.content
               /\ chain[1] = "ucmd" => u.owner = s.from
    <3>1. s.seg \in Seq(Tokens) /\ chunk \in Seq(Tokens)
      <4>1. Len(chain) \in 0 .. Len(chain)
        BY <2>2
      <4>2. Clean(s.from, n, lv[Len(chain)])
        BY <2>2, <2>3, <4>1, PackingClean
      <4> QED
        BY <2>3, <4>2 DEF Clean, Msgs
    <3>2. Bare(1) => chunk = s.seg
      BY <2>2, <2>4 DEF BeginsWith, Bare
    <3>3. IsPrefix(s.seg, chunk)
      <4>1. CASE Bare(1)
        BY <3>1, <3>2, <4>1, PrefixFacts
      <4>2. CASE ~ Bare(1)
        BY <2>2, <2>4, <4>2 DEF BeginsWith, Bare
      <4> QED
        BY <4>1, <4>2
    <3>4. IsPrefix(lv[Len(chain)], chunk) /\ (Bare(1) => chunk = lv[Len(chain)])
      BY <2>3, <3>2, <3>3
    <3>5. u.res = "ok" /\ u.body = s.content
      BY <2>2, <2>3, <2>4, <3>1, <3>4, UnpackPacking
    <3>6. chain[1] = "ucmd" => u.owner = s.from
      BY <2>2, <2>3, <2>4, <3>1, <3>4, UnpackPacking
    <3> QED
      BY <3>5, <3>6
  <2>5. ASSUME aborted # Nothing, BeginsWith(aborted, s)
        PROVE  FALSE
    <3>1. PICK u : Unpacks(chain, aborted.chunk, u) /\ u.res # "ok"
      BY <2>1, <2>5 DEF ViewsOK
    <3>2. aborted.chunk \in Msgs /\ BeginsWith([src |-> aborted.src, chunk |-> aborted.chunk], s)
      BY <2>1, <2>5 DEF ViewTypes, BeginsWith
    <3> QED
      BY <2>4, <3>1, <3>2
  <2>6. ASSUME NEW i \in DOMAIN shown, BeginsWith(shown[i], s)
        PROVE  /\ shown[i].how = "ok"
               /\ shown[i].content = s.content
               /\ chain[1] = "ucmd" => shown[i].owner = s.from
    <3>1. i \in 1 .. Len(shown) /\ shown[i] \in Views
      BY <2>1 DEF ViewTypes
    <3>2. PICK u : /\ Unpacks(chain, shown[i].chunk, u)
                   /\ shown[i].how = u.res /\ shown[i].content = u.body /\ shown[i].owner = u.owner
      BY <2>1, <3>1 DEF ViewsOK
    <3>3. shown[i].chunk \in Msgs /\ BeginsWith([src |-> shown[i].src, chunk |-> shown[i].chunk], s)
      BY <2>6, <3>1 DEF Views, BeginsWith
    <3>4. u.res = "ok" /\ u.body = s.content /\ (chain[1] = "ucmd" => u.owner = s.from)
      BY <2>4, <3>2, <3>3
    <3> QED
      BY <3>2, <3>4
  <2> QED
    BY <2>5, <2>6
<1> QED
  BY <1>1, DataSafe, PTL

-----------------------------------------------------------------------------
(* The order of the messages of a peer: those shown, those of the jobs that *)
(* wait, the one that is put together, what is under way on the stream.     *)
(* Each is known by its first token.                                        *)

(* Peer p has written a segment, one of S, that begins with t. *)
Begins(S, p, t) == \E s \in S : s.from = p /\ s.seg[1] = t

Follows(S, p, t, u) == Begins(S, p, t) /\ Begins(S, p, u) => t.send < u.send

Firsts(f, p) == {f[i].chunk[1] : i \in {j \in 1 .. Len(f) : f[j].src = p}}

Members(c) == {c[i] : i \in 1 .. Len(c)}

Leads(a, b, r) == IF a # << >> THEN {a[1]} ELSE IF r.at = "append" THEN {b[1]} ELSE {}

Before(S, p, A, B) == \A t \in A, u \in B : Follows(S, p, t, u)

Pairs(S, p, f) ==
    \A i, j \in 1 .. Len(f) : i < j /\ f[i].src = p /\ f[j].src = p =>
                                  Follows(S, p, f[i].chunk[1], f[j].chunk[1])

Steps(S, p, c) == \A i, j \in 1 .. Len(c) : i < j => Follows(S, p, c[i], c[j])

(* sh, qu, ld and c, one behind the other, are in order. *)
Line(S, p, sh, qu, ld, c) ==
    /\ Pairs(S, p, sh) /\ Pairs(S, p, qu) /\ Steps(S, p, c)
    /\ Before(S, p, Firsts(sh, p), Firsts(qu, p))
    /\ Before(S, p, Firsts(sh, p), ld)
    /\ Before(S, p, Firsts(sh, p), Members(c))
    /\ Before(S, p, Firsts(qu, p), ld)
    /\ Before(S, p, Firsts(qu, p), Members(c))
    /\ Before(S, p, ld, Members(c))

(* The first tokens of a queue with one more.                               *)
LEMMA FirstsAppend ==
    ASSUME NEW X, NEW f \in Seq(X), NEW x \in X, NEW r, r = Append(f, x), NEW p
    PROVE  /\ Firsts(f, p) \subseteq Firsts(r, p)
           /\ Firsts(r, p) \subseteq Firsts(f, p) \cup (IF x.src = p THEN {x.chunk[1]} ELSE {})
<1>1. /\ r \in Seq(X) /\ Len(r) = Len(f) + 1 /\ Len(f) \in Nat
      /\ \A i \in 1 .. Len(r) : r[i] = IF i <= Len(f) THEN f[i] ELSE x
  BY Appended
<1>2. ASSUME NEW i \in 1 .. Len(r), r[i].src = p
      PROVE  r[i].chunk[1] \in Firsts(f, p) \cup (IF x.src = p THEN {x.chunk[1]} ELSE {})
  <2>1. CASE i <= Len(f)
    <3>1. i \in 1 .. Len(f) /\ r[i] = f[i]
      BY <1>1, <2>1
    <3> QED
      BY <1>2, <3>1 DEF Firsts
  <2>2. CASE ~ (i <= Len(f))
    BY <1>1, <1>2, <2>2
  <2> QED
    BY <2>1, <2>2
<1>3. ASSUME NEW i \in 1 .. Len(f), f[i].src = p
      PROVE  f[i].chunk[1] \in Firsts(r, p)
  <2>1. i \in 1 .. Len(r) /\ r[i] = f[i]
    BY <1>1
  <2> QED
    BY <1>3, <2>1 DEF Firsts
<1> QED
  BY <1>2, <1>3 DEF Firsts

(* The first tokens of a queue without its first.                           *)
LEMMA FirstsTail ==
    ASSUME NEW X, NEW f \in Seq(X), f # << >>, NEW r, r = Tail(f), NEW p
    PROVE  Firsts(r, p) \subseteq Firsts(f, p)
<1>1. Len(f) \in Nat /\ r \in Seq(X) /\ Len(r) = Len(f) - 1
      /\ \A i \in 1 .. Len(f) - 1 : r[i] = f[i + 1]
  BY Taken
<1> SUFFICES ASSUME NEW i \in 1 .. Len(r), r[i].src = p
             PROVE  r[i].chunk[1] \in Firsts(f, p)
  BY DEF Firsts
<1>2. i + 1 \in 1 .. Len(f) /\ r[i] = f[i + 1]
  BY <1>1
<1> QED
  BY <1>2 DEF Firsts

(* A queue without its first is in order, and behind that one.              *)
LEMMA PairsTail ==
    ASSUME NEW X, NEW f \in Seq(X), f # << >>, NEW r, r = Tail(f),
           NEW S, NEW p, Pairs(S, p, f)
    PROVE  /\ Pairs(S, p, r)
           /\ Head(f).src = p => Before(S, p, {Head(f).chunk[1]}, Firsts(r, p))
<1>1. Len(f) \in Nat /\ Len(f) # 0 /\ Head(f) = f[1] /\ Len(r) = Len(f) - 1
      /\ \A i \in 1 .. Len(f) - 1 : r[i] = f[i + 1]
  BY Taken
<1>2. \A i \in 1 .. Len(r) : i + 1 \in 1 .. Len(f) /\ r[i] = f[i + 1]
  BY <1>1
<1>3. Pairs(S, p, r)
  <2> SUFFICES ASSUME NEW i \in 1 .. Len(r), NEW j \in 1 .. Len(r), i < j,
                      r[i].src = p, r[j].src = p
               PROVE  Follows(S, p, r[i].chunk[1], r[j].chunk[1])
    BY DEF Pairs
  <2>1. i + 1 \in 1 .. Len(f) /\ r[i] = f[i + 1] /\ j + 1 \in 1 .. Len(f) /\ r[j] = f[j + 1]
    BY <1>2
  <2>2. i + 1 < j + 1
    OBVIOUS
  <2> QED
    BY <2>1, <2>2 DEF Pairs
<1>4. ASSUME Head(f).src = p, NEW i \in 1 .. Len(r), r[i].src = p
      PROVE  Follows(S, p, Head(f).chunk[1], r[i].chunk[1])
  <2>1. 1 \in 1 .. Len(f) /\ i + 1 \in 1 .. Len(f) /\ r[i] = f[i + 1] /\ 1 < i + 1
    BY <1>1, <1>2
  <2> QED
    BY <1>1, <1>4, <2>1 DEF Pairs
<1> QED
  BY <1>3, <1>4 DEF Before, Firsts

(* A queue with one more is in order when that one is behind all.           *)
LEMMA PairsAppend ==
    ASSUME NEW X, NEW f \in Seq(X), NEW x \in X, NEW r, r = Append(f, x),
           NEW S, NEW p, Pairs(S, p, f),
           x.src = p => Before(S, p, Firsts(f, p), {x.chunk[1]})
    PROVE  Pairs(S, p, r)
<1>1. /\ Len(r) = Len(f) + 1 /\ Len(f) \in Nat
      /\ \A i \in 1 .. Len(r) : r[i] = IF i <= Len(f) THEN f[i] ELSE x
  BY Appended
<1> SUFFICES ASSUME NEW i \in 1 .. Len(r), NEW j \in 1 .. Len(r), i < j,
                    r[i].src = p, r[j].src = p
             PROVE  Follows(S, p, r[i].chunk[1], r[j].chunk[1])
  BY DEF Pairs
<1>2. i \in 1 .. Len(f) /\ r[i] = f[i]
  BY <1>1
<1>3. CASE j <= Len(f)
  <2>1. j \in 1 .. Len(f) /\ r[j] = f[j]
    BY <1>1, <1>3
  <2> QED
    BY <1>2, <2>1 DEF Pairs
<1>4. CASE ~ (j <= Len(f))
  <2>1. r[j] = x
    BY <1>1, <1>4
  <2>2. f[i].chunk[1] \in Firsts(f, p)
    BY <1>2 DEF Firsts
  <2> QED
    BY <1>2, <2>1, <2>2 DEF Before
<1> QED
  BY <1>3, <1>4

(* The first job is shown, or dropped. *)
LEMMA LineHandled ==
    ASSUME NEW X, NEW sh \in Seq(X), NEW Y, NEW qu \in Seq(Y), qu # << >>,
           NEW S, NEW p, NEW ld, NEW c, Line(S, p, sh, qu, ld, c),
           NEW v \in X, v.src = Head(qu).src, v.chunk = Head(qu).chunk,
           NEW sh2, sh2 = Append(sh, v), NEW qu2, qu2 = Tail(qu)
    PROVE  Line(S, p, sh2, qu2, ld, c)
<1>1. Firsts(qu2, p) \subseteq Firsts(qu, p)
  BY FirstsTail
<1>2. Firsts(sh2, p) \subseteq Firsts(sh, p) \cup (IF v.src = p THEN {v.chunk[1]} ELSE {})
  BY FirstsAppend
<1>3. Pairs(S, p, qu) /\ Pairs(S, p, sh)
  BY DEF Line
<1>4. Pairs(S, p, qu2)
  BY <1>3, PairsTail
<1>5. v.src = p => Before(S, p, {v.chunk[1]}, Firsts(qu2, p))
  BY <1>3, PairsTail
<1>6. v.src = p => v.chunk[1] \in Firsts(qu, p)
  <2>1. Head(qu) = qu[1] /\ 1 \in 1 .. Len(qu)
    BY Taken
  <2> QED
    BY <2>1 DEF Firsts
<1>7. Pairs(S, p, sh2)
  <2>1. v.src = p => Before(S, p, Firsts(sh, p), {v.chunk[1]})
    BY <1>6 DEF Line, Before
  <2> QED
    BY <1>3, <2>1, PairsAppend
<1> QED
  BY <1>1, <1>2, <1>4, <1>5, <1>6, <1>7 DEF Line, Before

(* The first job is dropped.                                                *)
LEMMA LineDropped ==
    ASSUME NEW Y, NEW qu \in Seq(Y), qu # << >>,
           NEW S, NEW p, NEW sh, NEW ld, NEW c, Line(S, p, sh, qu, ld, c),
           NEW qu2, qu2 = Tail(qu)
    PROVE  Line(S, p, sh, qu2, ld, c)
<1>1. Firsts(qu2, p) \subseteq Firsts(qu, p)
  BY FirstsTail
<1>2. Pairs(S, p, qu2)
  BY PairsTail DEF Line
<1> QED
  BY <1>1, <1>2 DEF Line, Before

(* A job of p is added: it begins with what was behind the others. *)
LEMMA LineQueued ==
    ASSUME NEW Y, NEW qu \in Seq(Y), NEW job \in Y,
           NEW S, NEW p, NEW sh, NEW ld, NEW c, Line(S, p, sh, qu, ld, c),
           NEW qu2, qu2 = Append(qu, job),
           NEW ld2, ld2 \subseteq ld, NEW c2, Steps(S, p, c2), Members(c2) \subseteq Members(c),
           job.src = p => /\ job.chunk[1] \in ld \cup Members(c)
                          /\ Before(S, p, {job.chunk[1]}, ld2 \cup Members(c2))
    PROVE  Line(S, p, sh, qu2, ld2, c2)
<1>1. Firsts(qu2, p) \subseteq Firsts(qu, p) \cup (IF job.src = p THEN {job.chunk[1]} ELSE {})
  BY FirstsAppend
<1>2. job.src = p => Before(S, p, Firsts(qu, p) \cup Firsts(sh, p), {job.chunk[1]})
  BY DEF Line, Before
<1>3. Pairs(S, p, qu2)
  <2>1. job.src = p => Before(S, p, Firsts(qu, p), {job.chunk[1]})
    BY <1>2 DEF Before
  <2>2. Pairs(S, p, qu)
    BY DEF Line
  <2> QED
    BY <2>1, <2>2, PairsAppend
<1> QED
  BY <1>1, <1>2, <1>3 DEF Line, Before

(* What leads, or is under way, becomes less. *)
LEMMA LineLess ==
    ASSUME NEW S, NEW p, NEW sh, NEW qu, NEW ld, NEW c, Line(S, p, sh, qu, ld, c),
           NEW ld2, ld2 \subseteq ld, NEW c2, Steps(S, p, c2), Members(c2) \subseteq Members(c)
    PROVE  Line(S, p, sh, qu, ld2, c2)
  BY DEF Line, Before

(* What is under way after a read. *)
LEMMA StepsRest ==
    ASSUME NEW w \in Seq(Tokens), NEW n \in 1 .. Len(w), NEW r, r = SubSeq(w, n + 1, Len(w)),
           NEW S, NEW p, Steps(S, p, w)
    PROVE  /\ Steps(S, p, r) /\ Members(r) \subseteq Members(w)
           /\ Before(S, p, {w[1]}, Members(r))
<1>1. /\ Len(w) \in Nat /\ n \in Nat \ {0} /\ Len(r) = Len(w) - n
      /\ \A i \in 1 .. Len(r) : i + n \in 1 .. Len(w) /\ r[i] = w[i + n]
  BY Rest
<1>2. Steps(S, p, r)
  <2> SUFFICES ASSUME NEW i \in 1 .. Len(r), NEW j \in 1 .. Len(r), i < j
               PROVE  Follows(S, p, r[i], r[j])
    BY DEF Steps
  <2>1. i + n < j + n
    BY <1>1
  <2> QED
    BY <1>1, <2>1 DEF Steps
<1>3. Members(r) \subseteq Members(w)
  BY <1>1 DEF Members
<1>4. ASSUME NEW i \in 1 .. Len(r)
      PROVE  Follows(S, p, w[1], r[i])
  <2>1. 1 \in 1 .. Len(w) /\ 1 < i + n
    BY <1>1
  <2> QED
    BY <1>1, <2>1 DEF Steps
<1> QED
  BY <1>2, <1>3, <1>4 DEF Before, Members

(* What is written comes last. *)
LEMMA LineGrown ==
    ASSUME NEW S, NEW p, NEW sh, NEW qu, NEW ld, NEW c \in Seq(Tokens),
           Line(S, p, sh, qu, ld, c), NEW e \in Seq(Tokens), Steps(S, p, e),
           Before(S, p, Firsts(sh, p) \cup Firsts(qu, p) \cup ld \cup Members(c), Members(e)),
           NEW d, d = c \o e
    PROVE  Line(S, p, sh, qu, ld, d)
<1>1. Len(c) \in Nat /\ Len(e) \in Nat
  OBVIOUS
<1>2. /\ Len(d) = Len(c) + Len(e)
      /\ \A i \in 1 .. Len(c) : d[i] = c[i]
      /\ \A i \in 1 .. Len(e) : d[i + Len(c)] = e[i]
  BY ConcatAt
<1>3. ASSUME NEW i \in 1 .. Len(d), ~ (i <= Len(c))
      PROVE  i - Len(c) \in 1 .. Len(e) /\ d[i] = e[i - Len(c)]
  <2>1. i - Len(c) \in 1 .. Len(e) /\ (i - Len(c)) + Len(c) = i
    BY <1>1, <1>2, <1>3
  <2> QED
    BY <1>2, <2>1
<1>4. ASSUME NEW i \in 1 .. Len(d), i <= Len(c)
      PROVE  i \in 1 .. Len(c) /\ d[i] = c[i]
  BY <1>1, <1>2, <1>4
<1>5. Members(d) \subseteq Members(c) \cup Members(e)
  <2> SUFFICES ASSUME NEW i \in 1 .. Len(d)
               PROVE  d[i] \in Members(c) \cup Members(e)
    BY DEF Members
  <2> QED
    BY <1>3, <1>4 DEF Members
<1>6. Steps(S, p, d)
  <2> SUFFICES ASSUME NEW i \in 1 .. Len(d), NEW j \in 1 .. Len(d), i < j
               PROVE  Follows(S, p, d[i], d[j])
    BY DEF Steps
  <2>1. CASE j <= Len(c)
    <3>1. i <= Len(c)
      BY <1>1, <1>2, <2>1
    <3> QED
      BY <1>4, <2>1, <3>1 DEF Line, Steps
  <2>2. CASE ~ (j <= Len(c)) /\ i <= Len(c)
    <3>1. d[j] \in Members(e) /\ d[i] \in Members(c)
      BY <1>3, <1>4, <2>2 DEF Members
    <3> QED
      BY <3>1 DEF Before
  <2>3. CASE ~ (j <= Len(c)) /\ ~ (i <= Len(c))
    <3>1. i - Len(c) < j - Len(c)
      BY <1>1, <1>2
    <3> QED
      BY <1>3, <2>3, <3>1 DEF Steps
  <2> QED
    BY <2>1, <2>2, <2>3
<1> QED
  BY <1>5, <1>6 DEF Line, Before

(* Order with respect to more segments. *)
LEMMA LineMore ==
    ASSUME NEW S, NEW T, NEW p, NEW sh, NEW qu, NEW ld, NEW c,
           Line(S, p, sh, qu, ld, c),
           \A t, u \in Firsts(sh, p) \cup Firsts(qu, p) \cup ld \cup Members(c) :
               Follows(S, p, t, u) => Follows(T, p, t, u)
    PROVE  Line(T, p, sh, qu, ld, c)
<1>1. Pairs(T, p, sh)
  <2>1. \A i \in 1 .. Len(sh) : sh[i].src = p => sh[i].chunk[1] \in Firsts(sh, p)
    BY DEF Firsts
  <2> QED
    BY <2>1 DEF Line, Pairs
<1>2. Pairs(T, p, qu)
  <2>1. \A i \in 1 .. Len(qu) : qu[i].src = p => qu[i].chunk[1] \in Firsts(qu, p)
    BY DEF Firsts
  <2> QED
    BY <2>1 DEF Line, Pairs
<1>3. Steps(T, p, c)
  <2>1. \A i \in 1 .. Len(c) : c[i] \in Members(c)
    BY DEF Members
  <2> QED
    BY <2>1 DEF Line, Steps
<1> QED
  BY <1>1, <1>2, <1>3 DEF Line, Before

(* The tokens A are of sends before the n-th, as are the segments S, and e   *)
(* is of the n-th.                                                          *)
EarlierTokens(p, n, A) == \A t \in A : t \in Tokens /\ (t.from = p => t.send < n)

EarlierSegments(p, n, S) ==
    \A s \in S : s.seg[1] \in Tokens /\ s.seg[1].from = s.from /\ (s.from = p => s.seg[1].send < n)

Written(p, n, e) ==
    /\ e \in Seq(Tokens) /\ e # << >>
    /\ \A i \in 1 .. Len(e) : e[i].from = p /\ e[i].send = n
    /\ \A i \in 2 .. Len(e) : e[i] # e[1]

Places(p, sh, qu, ld, c) == Firsts(sh, p) \cup Firsts(qu, p) \cup ld \cup Members(c)

(* Peer p writes a segment in its send n. *)
LEMMA LineWritten ==
    ASSUME NEW S, NEW p, NEW sh, NEW qu, NEW ld,
           NEW c \in Seq(Tokens), Line(S, p, sh, qu, ld, c), NEW n \in Nat,
           EarlierTokens(p, n, Places(p, sh, qu, ld, c)), EarlierSegments(p, n, S),
           NEW x, x.from = p, NEW e, Written(p, n, e), x.seg[1] = e[1],
           NEW T, T = S \cup {x}, NEW d, d = c \o e
    PROVE  Line(T, p, sh, qu, ld, d)
<1>1. PICK A : A = Firsts(sh, p) \cup Firsts(qu, p) \cup ld \cup Members(c)
  OBVIOUS
<1>2. /\ \A t \in A : t \in Tokens /\ (t.from = p => t.send < n)
      /\ \A s \in S : s.seg[1] \in Tokens /\ s.seg[1].from = s.from
                      /\ (s.from = p => s.seg[1].send < n)
      /\ e \in Seq(Tokens) /\ e # << >>
      /\ \A i \in 1 .. Len(e) : e[i].from = p /\ e[i].send = n
      /\ \A i \in 2 .. Len(e) : e[i] # e[1]
  BY <1>1 DEF EarlierTokens, EarlierSegments, Written, Places
<1> USE <1>1, <1>2
<1>3. Len(e) \in Nat \ {0} /\ 1 \in 1 .. Len(e) /\ e[1].from = p /\ e[1].send = n
  OBVIOUS
<1>4. ASSUME NEW t, Begins(T, p, t)
      PROVE  t = e[1] \/ Begins(S, p, t)
  BY <1>4 DEF Begins
<1>5. ASSUME NEW t, Begins(S, p, t)
      PROVE  t \in Tokens /\ t.from = p /\ t.send < n
  BY <1>5 DEF Begins
<1>6. \A t \in A : t # e[1]
  BY <1>3 DEF Tokens
<1>7. \A t, u \in A : Follows(S, p, t, u) => Follows(T, p, t, u)
  BY <1>4, <1>6 DEF Follows
<1>8. Line(T, p, sh, qu, ld, c)
  BY <1>7, LineMore
<1>9. ASSUME NEW t \in A, NEW i \in 1 .. Len(e)
      PROVE  Follows(T, p, t, e[i])
  <2>1. e[i].send = n
    OBVIOUS
  <2>2. Begins(T, p, t) => t.send < n
    BY <1>4, <1>5, <1>6
  <2> QED
    BY <2>1, <2>2 DEF Follows
<1>10. ASSUME NEW i \in 1 .. Len(e), NEW j \in 1 .. Len(e), i < j
      PROVE  Follows(T, p, e[i], e[j])
  <2>1. j \in 2 .. Len(e)
    BY <1>3, <1>10
  <2>2. ~ Begins(T, p, e[j])
    <3>1. ~ Begins(S, p, e[j])
      <4>1. e[j].send = n
        OBVIOUS
      <4> QED
        BY <1>5, <4>1
    <3> QED
      BY <1>4, <2>1, <3>1
  <2> QED
    BY <2>1, <2>2 DEF Follows
<1>11. Steps(T, p, e)
  BY <1>10 DEF Steps
<1>12. Before(T, p, A, Members(e))
  BY <1>9 DEF Before, Members
<1> QED
  BY <1>8, <1>11, <1>12, LineGrown

-----------------------------------------------------------------------------
(* The invariant of the order. *)

(* Nothing that t is in is still to be written. *)
Old(sn, o, t) ==
    /\ t \in Tokens
    /\ t.send <= sn[t.from]
    /\ o[t.from] # << >> => t.send < sn[t.from]

OldInv ==
    /\ \A p \in Peers : \A t \in Members(wire[p]) : Old(sends, out, t) /\ t.from = p
    /\ buf # << >> => Old(sends, out, buf[1])
    /\ \A p \in Peers : acc[p] # << >> => Old(sends, out, acc[p][1])
    /\ \A p \in Peers : \A t \in Firsts(queue, p) \cup Firsts(shown, p) :
          Old(sends, out, t)
    /\ \A s \in sent : Old(sends, out, s.seg[1]) /\ s.seg[1].from = s.from

LineOf(p) ==
    Line(sent, p, shown, queue, Leads(acc[p], buf, rd[p]), wire[p])

OrderInv == OldInv /\ \A p \in Peers : LineOf(p)

(* The order holds at the start.                                            *)
LEMMA InitOrder == Init => OrderInv
<1> SUFFICES ASSUME Init PROVE OrderInv
  OBVIOUS
<1>1. ASSUME NEW p \in Peers
      PROVE  /\ Members(wire[p]) = {} /\ Len(wire[p]) = 0
             /\ acc[p] = << >> /\ Leads(acc[p], buf, rd[p]) = {}
  <2>1. wire[p] = << >> /\ acc[p] = << >> /\ rd[p].at = "read"
    BY DEF Init
  <2>2. Members(<< >>) = {} /\ Len(<< >>) = 0
    BY DEF Members
  <2> QED
    BY <2>1, <2>2 DEF Leads
<1>2. queue = << >> /\ shown = << >> /\ sent = {} /\ buf = << >>
  BY DEF Init
<1>3. \A p : Firsts(queue, p) = {} /\ Firsts(shown, p) = {}
  BY <1>2 DEF Firsts
<1>4. OldInv
  BY <1>1, <1>2, <1>3 DEF OldInv
<1>5. ASSUME NEW p \in Peers PROVE LineOf(p)
  <2>1. Pairs(sent, p, shown) /\ Pairs(sent, p, queue)
    BY <1>2 DEF Pairs
  <2>2. Steps(sent, p, wire[p])
    BY <1>1 DEF Steps
  <2> QED
    BY <1>1, <1>3, <2>1, <2>2 DEF LineOf, Line, Before
<1> QED
  BY <1>4, <1>5 DEF OrderInv

(* What is old stays old. *)
OldStays == \A t : Old(sends, out, t) => Old(sends', out', t)

(* What the application does without writing keeps the order.               *)
LEMMA AppOrder ==
    ASSUME OrderInv, OldStays, UNCHANGED <<sent, wire, readVars, shown>>
    PROVE  OrderInv'
<1>1. UNCHANGED <<sent, wire, buf, rd, acc, queue, shown>>
  BY DEF readVars
<1>2. OldInv'
  BY <1>1 DEF OrderInv, OldInv, OldStays
<1>3. ASSUME NEW p \in Peers PROVE LineOf(p)'
  BY <1>1 DEF OrderInv, LineOf
<1> QED
  BY <1>2, <1>3 DEF OrderInv

(* Where sends and out are kept, what is old is old.                        *)
LEMMA SameOld ==
    ASSUME UNCHANGED <<sends, out>>
    PROVE  OldStays
  BY DEF OldStays

(* And where a sender has nothing to write any more.                        *)
LEMMA ClearedOld ==
    ASSUME out \in [Peers -> Seq(Msgs)], UNCHANGED sends, NEW p, out' = [out EXCEPT ![p] = << >>]
    PROVE  OldStays
<1>1. \A q \in Peers : out'[q] # << >> => out[q] # << >>
  OBVIOUS
<1> QED
  BY <1>1 DEF OldStays, Old, Tokens

(* And where one begins its next send.                                      *)
LEMMA SendOld ==
    ASSUME DataInv, NEW p \in Peers, SendPayload(p)
    PROVE  OldStays
<1>1. sends' = [sends EXCEPT ![p] = sends[p] + 1]
  BY DEF SendPayload
<1>2. PICK all : out' = [out EXCEPT ![p] = all]
  BY DEF SendPayload
<1>3. sends \in [Peers -> 0 .. MaxSends] /\ out \in [Peers -> Seq(Msgs)]
  BY DEF DataInv, AppInv, AppTypes
<1> SUFFICES ASSUME NEW t, Old(sends, out, t)
             PROVE  Old(sends', out', t)
  BY DEF OldStays
<1>4. t \in Tokens /\ t.from \in Peers /\ t.send \in Nat /\ t.send <= sends[t.from]
  BY DEF Old, Tokens
<1>5. CASE t.from = p
  <2>1. sends'[t.from] = sends[t.from] + 1 /\ sends[t.from] \in Nat
    BY <1>1, <1>3, <1>5, MessagePathAssumption
  <2> QED
    BY <1>4, <2>1 DEF Old
<1>6. CASE t.from # p
  <2>1. sends'[t.from] = sends[t.from] /\ out'[t.from] = out[t.from]
    BY <1>1, <1>2, <1>3, <1>4, <1>6
  <2> QED
    BY <2>1 DEF Old
<1> QED
  BY <1>5, <1>6

(* The steps of the application but for those of write_msg. *)
LEMMA AppStepOrder ==
    ASSUME DataInv, OrderInv, NEW p \in Peers,
           CreatePayload(p) \/ DropPayload(p) \/ SendPayload(p) \/ WriteEnds(p)
    PROVE  OrderInv'
<1>1. out \in [Peers -> Seq(Msgs)]
  BY DEF DataInv, AppInv, AppTypes
<1>2. OldStays
  <2>1. CASE CreatePayload(p) \/ DropPayload(p)
    BY <2>1, SameOld DEF CreatePayload, DropPayload
  <2>2. CASE SendPayload(p)
    BY <2>2, SendOld
  <2>3. CASE WriteEnds(p)
    BY <1>1, <2>3, ClearedOld DEF WriteEnds
  <2> QED
    BY <2>1, <2>2, <2>3
<1>3. UNCHANGED <<sent, wire, readVars, shown>>
  BY DEF CreatePayload, DropPayload, SendPayload, WriteEnds, DestroyChain
<1> QED
  BY <1>2, <1>3, AppOrder

(* The members of two sequences put together.                               *)
LEMMA MembersConcat ==
    ASSUME NEW c \in Seq(Tokens), NEW e \in Seq(Tokens)
    PROVE  Members(c \o e) \subseteq Members(c) \cup Members(e)
<1>1. PICK d : d = c \o e
  OBVIOUS
<1>2. /\ Len(d) = Len(c) + Len(e) /\ Len(c) \in Nat /\ Len(e) \in Nat
      /\ \A i \in 1 .. Len(c) : d[i] = c[i]
      /\ \A i \in 1 .. Len(e) : d[i + Len(c)] = e[i]
  BY <1>1, ConcatAt
<1>3. ASSUME NEW i \in 1 .. Len(d)
      PROVE  d[i] \in Members(c) \cup Members(e)
  <2>1. CASE i <= Len(c)
    BY <1>2, <2>1 DEF Members
  <2>2. CASE ~ (i <= Len(c))
    <3>1. i - Len(c) \in 1 .. Len(e) /\ (i - Len(c)) + Len(c) = i
      BY <1>2, <2>2
    <3>2. d[i] = e[i - Len(c)]
      BY <1>2, <3>1
    <3> QED
      BY <3>1, <3>2 DEF Members
  <2> QED
    BY <2>1, <2>2
<1> QED
  BY <1>1, <1>3 DEF Members

(* The message that is put together begins with what is old. *)
LEMMA LeadOld ==
    ASSUME DataInv, OldInv, NEW p \in Peers, NEW t \in Leads(acc[p], buf, rd[p])
    PROVE  Old(sends, out, t)
<1>1. ReadOK(p) /\ ReadTypes
  BY DEF DataInv, ReadInv
<1>2. CASE acc[p] # << >>
  <2>1. t = acc[p][1]
    BY <1>2 DEF Leads
  <2> QED
    BY <1>2, <2>1 DEF OldInv
<1>3. CASE acc[p] = << >>
  <2>1. t = buf[1] /\ rd[p].at = "append"
    BY <1>3 DEF Leads
  <2>2. buf # << >>
    <3>1. rd[p].n \in 1 .. BufSize /\ rd[p].n <= Len(buf)
      BY <1>1, <2>1 DEF ReadOK
    <3>2. buf \in Seq(Tokens) /\ Len(buf) # 0
      BY <1>1, <3>1, MessagePathAssumption DEF ReadTypes
    <3> QED
      BY <3>1, <3>2
  <2> QED
    BY <2>1, <2>2 DEF OldInv
<1> QED
  BY <1>2, <1>3

(* WriteSegment keeps the order: its segment is of a later send than all.   *)
LEMMA WriteOrder ==
    ASSUME DataInv, transport = "stream", OrderInv, NEW p \in Peers, WriteSegment(p)
    PROVE  OrderInv'
<1>1. PICK seg : seg = Head(out[p])
  OBVIOUS
<1>2. PICK x : x = [from |-> p, seg |-> seg, content |-> pay[p].content]
  OBVIOUS
<1>3. /\ out[p] # << >>
      /\ wire' = [wire EXCEPT ![p] = @ \o seg]
      /\ sent' = sent \cup {x} /\ out' = [out EXCEPT ![p] = Tail(@)]
      /\ UNCHANGED <<sends, buf, rd, acc, queue, shown>>
  BY <1>1, <1>2 DEF WriteSegment, readVars
<1>4. PICK n : n = sends[p]
  OBVIOUS
<1>5. /\ sends \in [Peers -> 0 .. MaxSends] /\ out \in [Peers -> Seq(Msgs)] /\ n \in Nat
      /\ wire \in [Peers -> Seq(Tokens)]
  BY <1>4, MessagePathAssumption DEF DataInv, AppInv, AppTypes, ReadInv, ReadTypes
<1>6. seg \in Msgs /\ Clean(p, n, seg) /\ Tail(out[p]) = << >>
  BY <1>1, <1>3, <1>4, NextSegment
<1>7. /\ seg \in Seq(Tokens) /\ Len(seg) \in Nat \ {0} /\ seg # << >>
      /\ \A i \in 1 .. Len(seg) : seg[i] \in Tokens /\ seg[i].from = p /\ seg[i].send = n
      /\ \A i \in 2 .. Len(seg) : seg[i] # seg[1]
  BY <1>6 DEF Clean, Msgs
<1>8. out'[p] = << >> /\ \A q \in Peers : q # p => out'[q] = out[q]
  BY <1>3, <1>5, <1>6
<1>9. OldStays
  <2>1. out' = [out EXCEPT ![p] = << >>]
    BY <1>3, <1>6
  <2> QED
    BY <1>3, <1>5, <2>1, ClearedOld
<1>10. ASSUME NEW t \in Tokens, t.from = p, t.send = n
       PROVE  Old(sends', out', t)
  BY <1>3, <1>4, <1>5, <1>8, <1>10 DEF Old
<1>11. PICK c, d : c = wire[p] /\ d = c \o seg
  OBVIOUS
<1>12. c \in Seq(Tokens) /\ wire'[p] = d /\ \A q \in Peers : q # p => wire'[q] = wire[q]
  BY <1>3, <1>5, <1>11
<1>13. Members(d) \subseteq Members(c) \cup Members(seg)
  BY <1>7, <1>11, <1>12, MembersConcat
<1>14. OldInv'
  <2>1. OldInv
    BY DEF OrderInv
  <2>2. ASSUME NEW q \in Peers, NEW t \in Members(wire'[q])
        PROVE  Old(sends', out', t) /\ t.from = q
    <3>1. CASE q # p
      BY <1>9, <1>12, <2>1, <2>2, <3>1 DEF OldInv, OldStays
    <3>2. CASE q = p
      <4>1. CASE t \in Members(c)
        BY <1>9, <1>11, <2>1, <3>2, <4>1 DEF OldInv, OldStays
      <4>2. CASE t \in Members(seg)
        <5>1. t \in Tokens /\ t.from = p /\ t.send = n
          BY <1>7, <4>2 DEF Members
        <5> QED
          BY <1>10, <3>2, <5>1
      <4> QED
        BY <1>12, <1>13, <2>2, <3>2, <4>1, <4>2
    <3> QED
      BY <3>1, <3>2
  <2>3. ASSUME NEW s \in sent'
        PROVE  Old(sends', out', s.seg[1]) /\ s.seg[1].from = s.from
    <3>1. CASE s \in sent
      BY <1>9, <2>1, <3>1 DEF OldInv, OldStays
    <3>2. CASE s = x
      <4>1. s.seg = seg /\ s.from = p /\ seg[1] \in Tokens /\ seg[1].from = p /\ seg[1].send = n
        BY <1>2, <1>7, <3>2
      <4> QED
        BY <1>10, <4>1
    <3> QED
      BY <1>3, <3>1, <3>2
  <2>4. buf' # << >> => Old(sends', out', buf'[1])
    BY <1>3, <1>9, <2>1 DEF OldInv, OldStays
  <2>5. \A q \in Peers : acc'[q] # << >> => Old(sends', out', acc'[q][1])
    BY <1>3, <1>9, <2>1 DEF OldInv, OldStays
  <2>6. \A q \in Peers : \A t \in Firsts(queue', q) \cup Firsts(shown', q) : Old(sends', out', t)
    BY <1>3, <1>9, <2>1 DEF OldInv, OldStays
  <2> QED
    BY <2>2, <2>3, <2>4, <2>5, <2>6 DEF OldInv
<1>15. ASSUME NEW q \in Peers PROVE LineOf(q)'
  <2>1. CASE q # p
    <3>1. Line(sent, q, shown, queue, Leads(acc[q], buf, rd[q]), wire[q])
      BY DEF OrderInv, LineOf
    <3>2. \A t : Begins(sent', q, t) <=> Begins(sent, q, t)
      <4>1. x.from = p
        BY <1>2
      <4> QED
        BY <1>3, <2>1, <4>1 DEF Begins
    <3>3. \A t, u : Follows(sent, q, t, u) => Follows(sent', q, t, u)
      BY <3>2 DEF Follows
    <3>4. Line(sent', q, shown, queue, Leads(acc[q], buf, rd[q]), wire[q])
      BY <3>1, <3>3, LineMore
    <3> QED
      BY <1>3, <1>12, <2>1, <3>4 DEF LineOf
  <2>2. CASE q = p
    <3>1. PICK ld : ld = Leads(acc[p], buf, rd[p])
      OBVIOUS
    <3>2. Line(sent, p, shown, queue, ld, c)
      BY <1>11, <3>1 DEF OrderInv, LineOf
    <3>3. EarlierTokens(p, n, Places(p, shown, queue, ld, c))
      <4>1. \A t \in ld : Old(sends, out, t)
        BY <3>1, LeadOld DEF OrderInv
      <4>2. \A t \in Places(p, shown, queue, ld, c) : Old(sends, out, t)
        BY <1>11, <4>1 DEF OrderInv, OldInv, Places
      <4> QED
        BY <1>3, <1>4, <4>2 DEF Old, EarlierTokens
    <3>4. EarlierSegments(p, n, sent)
      BY <1>3, <1>4 DEF OrderInv, OldInv, Old, EarlierSegments
    <3>5. x.from = p /\ x.seg[1] = seg[1]
      BY <1>2
    <3>6. Written(p, n, seg)
      BY <1>7 DEF Written
    <3>7. Line(sent', p, shown, queue, ld, d)
      <4>1. PICK S, T : S = sent /\ T = sent'
        OBVIOUS
      <4>2. T = S \cup {x}
        BY <1>3, <4>1
      <4>3. Line(S, p, shown, queue, ld, c) /\ EarlierSegments(p, n, S)
        BY <3>2, <3>4, <4>1
      <4>4. n \in Nat /\ c \in Seq(Tokens) /\ d = c \o seg
        BY <1>5, <1>11, <1>12
      <4>5. Line(T, p, shown, queue, ld, d)
        BY <3>3, <3>5, <3>6, <4>2, <4>3, <4>4, LineWritten
      <4> QED
        BY <4>1, <4>5
    <3> QED
      BY <1>3, <1>12, <2>2, <3>1, <3>7 DEF LineOf
  <2> QED
    BY <2>1, <2>2
<1> QED
  BY <1>14, <1>15 DEF OrderInv

(* Tokens that begin no segment written disturb no order.                   *)
LEMMA LineTorn ==
    ASSUME NEW S, NEW p, NEW sh, NEW qu, NEW ld, NEW c \in Seq(Tokens), Line(S, p, sh, qu, ld, c),
           NEW e \in Seq(Tokens), \A i \in 1 .. Len(e) : ~ Begins(S, p, e[i]),
           NEW d, d = c \o e
    PROVE  Line(S, p, sh, qu, ld, d)
<1>1. Steps(S, p, e)
  BY DEF Steps, Follows
<1>2. Before(S, p, Firsts(sh, p) \cup Firsts(qu, p) \cup ld \cup Members(c), Members(e))
  BY DEF Before, Follows, Members
<1> QED
  BY <1>1, <1>2, LineGrown

(* WriteFails keeps the order: what it leaves on the stream is of a segment *)
(* that is never written.                                                   *)
LEMMA FailOrder ==
    ASSUME DataInv, transport = "stream", OrderInv, NEW p \in Peers, WriteFails(p)
    PROVE  OrderInv'
<1>1. /\ out[p] # << >> /\ out' = [out EXCEPT ![p] = << >>]
      /\ UNCHANGED <<sends, sent, buf, rd, acc, queue, shown>>
  BY DEF WriteFails, readVars
<1>2. out \in [Peers -> Seq(Msgs)] /\ wire \in [Peers -> Seq(Tokens)]
  BY DEF DataInv, AppInv, AppTypes, ReadInv, ReadTypes
<1>3. OldStays
  BY <1>1, <1>2, ClearedOld
<1>4. CASE UNCHANGED wire
  <2>1. UNCHANGED readVars
    BY DEF WriteFails
  <2> QED
    BY <1>1, <1>3, <1>4, <2>1, AppOrder
<1>5. ASSUME NEW k \in 1 .. Len(Head(out[p])) - 1,
             wire' = [wire EXCEPT ![p] = @ \o SubSeq(Head(out[p]), 1, k)]
      PROVE  OrderInv'
  <2>0. PICK n, seg, c : n = sends[p] /\ seg = Head(out[p]) /\ c = wire[p]
    OBVIOUS
  <2>1. PICK e : e = SubSeq(seg, 1, k)
    OBVIOUS
  <2>12. PICK d : d = c \o e
    OBVIOUS
  <2>2. Clean(p, n, seg) /\ n \in Nat /\ k \in 1 .. Len(seg) - 1
    BY <1>1, <1>5, <2>0, NextSegment
  <2>3. e \in Seq(Tokens) /\ \A i \in 1 .. Len(e) : e[i].from = p /\ e[i].send = n
    BY <2>1, <2>2, TornTokens
  <2>4. c \in Seq(Tokens) /\ wire'[p] = d /\ \A q \in Peers : q # p => wire'[q] = wire[q]
    BY <1>2, <1>5, <2>0, <2>1, <2>12
  <2>5. Members(d) \subseteq Members(c) \cup Members(e)
    BY <2>0, <2>1, <2>12, <2>3, <2>4, MembersConcat
  <2>6. \A t \in Members(e) : Old(sends', out', t) /\ t.from = p
    <3>1. \A t \in Members(e) : t \in Tokens /\ t.from = p /\ t.send = n
      BY <2>3 DEF Members
    <3>2. out'[p] = << >> /\ sends'[p] = n
      BY <1>1, <1>2, <2>0, <2>1, <2>12
    <3> QED
      BY <2>2, <3>1, <3>2 DEF Old
  <2>7. ASSUME NEW q \in Peers, NEW t \in Members(wire'[q])
        PROVE  Old(sends', out', t) /\ t.from = q
    <3>1. CASE t \in Members(wire[q])
      BY <1>3, <3>1 DEF OrderInv, OldInv, OldStays
    <3>2. CASE ~ (t \in Members(wire[q]))
      BY <2>0, <2>1, <2>12, <2>4, <2>5, <2>6, <2>7, <3>2
    <3> QED
      BY <3>1, <3>2
  <2>8. OldInv'
    <3>1. buf' # << >> => Old(sends', out', buf'[1])
      BY <1>1, <1>3 DEF OrderInv, OldInv, OldStays
    <3>2. \A q \in Peers : acc'[q] # << >> => Old(sends', out', acc'[q][1])
      BY <1>1, <1>3 DEF OrderInv, OldInv, OldStays
    <3>3. \A q \in Peers : \A t \in Firsts(queue', q) \cup Firsts(shown', q) : Old(sends', out', t)
      BY <1>1, <1>3 DEF OrderInv, OldInv, OldStays
    <3>4. \A s \in sent' : Old(sends', out', s.seg[1]) /\ s.seg[1].from = s.from
      BY <1>1, <1>3 DEF OrderInv, OldInv, OldStays
    <3> QED
      BY <2>7, <3>1, <3>2, <3>3, <3>4 DEF OldInv
  <2>9. \A i \in 1 .. Len(e) : ~ Begins(sent, p, e[i])
    <3>1. \A s \in sent : s.from = p => s.seg[1].send < n /\ s.seg[1].send \in Nat
      BY <1>1, <2>0, <2>1, <2>12 DEF OrderInv, OldInv, Old, Tokens
    <3> QED
      BY <2>2, <2>3, <3>1 DEF Begins
  <2>10. ASSUME NEW q \in Peers PROVE LineOf(q)'
    <3>1. CASE q = p
      <4>1. PICK ld : ld = Leads(acc[p], buf, rd[p])
        OBVIOUS
      <4>2. Line(sent, p, shown, queue, ld, c)
        BY <2>0, <2>1, <2>12, <4>1 DEF OrderInv, LineOf
      <4>3. Line(sent, p, shown, queue, ld, d)
        BY <2>0, <2>1, <2>12, <2>3, <2>4, <2>9, <4>2, LineTorn
      <4> QED
        BY <1>1, <2>4, <3>1, <4>1, <4>3 DEF LineOf
    <3>2. CASE q # p
      BY <1>1, <2>4, <3>2 DEF OrderInv, LineOf
    <3> QED
      BY <3>1, <3>2
  <2> QED
    BY <2>8, <2>10 DEF OrderInv
<1> QED
  BY <1>4, <1>5 DEF WriteFails

(* Read keeps the order, that of a peer whose receiver shares the buffer,   *)
(* too.                                                                     *)
LEMMA ReadOrder ==
    ASSUME DataInv, OrderInv, NEW p \in Peers, Read(p)
    PROVE  OrderInv'
<1>1. PICK n \in 1 .. Len(wire[p]) :
        /\ buf' = SubSeq(wire[p], 1, n) \o SubSeq(buf, n + 1, Len(buf))
        /\ wire' = [wire EXCEPT ![p] = SubSeq(@, n + 1, Len(@))]
        /\ rd' = [rd EXCEPT ![p] = [at |-> "append", n |-> n]]
  BY DEF Read
<1>2. /\ transport = "stream" /\ rd[p].at = "read"
      /\ UNCHANGED <<sends, out, sent, acc, queue, shown>>
  BY DEF Read, appVars
<1>3. wire \in [Peers -> Seq(Tokens)] /\ buf \in Seq(Tokens)
  BY <1>2 DEF DataInv, ReadInv, ReadTypes
<1>4. PICK w, r, b : w = wire[p] /\ r = SubSeq(w, n + 1, Len(w)) /\ b = buf'
  OBVIOUS
<1>5. w \in Seq(Tokens) /\ n \in 1 .. Len(w) /\ wire'[p] = r /\ \A q \in Peers : q # p => wire'[q] = wire[q]
  BY <1>1, <1>3, <1>4
<1>6. b[1] = w[1]
  BY <1>1, <1>3, <1>4, <1>5, Overwrite
<1>7. rd'[p].at = "append" /\ \A q \in Peers : q # p => rd'[q] = rd[q]
  BY <1>1 DEF DataInv, ReadInv, ReadTypes
<1>8. 1 \in 1 .. Len(w) /\ w[1] \in Members(w)
  BY <1>5 DEF Members
<1>10. Old(sends, out, w[1]) /\ w[1].from = p
  BY <1>4, <1>8 DEF OrderInv, OldInv
<1>11. Members(r) \subseteq Members(w)
  <2>1. \A i \in 1 .. Len(r) : i + n \in 1 .. Len(w) /\ r[i] = w[i + n]
    BY <1>4, <1>5, Rest
  <2> QED
    BY <2>1 DEF Members
<1>12. OldInv'
  <2>1. OldInv
    BY DEF OrderInv
  <2>2. ASSUME NEW q \in Peers, NEW t \in Members(wire'[q])
        PROVE  Old(sends, out, t) /\ t.from = q
    <3>1. t \in Members(wire[q])
      BY <1>4, <1>5, <1>11
    <3> QED
      BY <2>1, <3>1 DEF OldInv
  <2> QED
    BY <1>2, <1>4, <1>6, <1>10, <2>1, <2>2 DEF OldInv
<1>13. ASSUME NEW q \in Peers PROVE LineOf(q)'
  <2>1. Line(sent, q, shown, queue, Leads(acc[q], buf, rd[q]), wire[q])
    BY DEF OrderInv, LineOf
  <2>2. CASE q = p
    <3>1. Steps(sent, p, w)
      BY <1>4, <2>1, <2>2 DEF Line
    <3>2. Steps(sent, p, r) /\ Before(sent, p, {w[1]}, Members(r))
      BY <1>4, <1>5, <3>1, StepsRest
    <3>3. CASE acc[p] # << >>
      <4>1. Leads(acc[p], b, rd'[p]) = Leads(acc[p], buf, rd[p])
        BY <3>3 DEF Leads
      <4>2. Line(sent, p, shown, queue, Leads(acc[p], b, rd'[p]), r)
        BY <1>11, <1>4, <2>1, <2>2, <3>2, <4>1, LineLess
      <4> QED
        BY <1>2, <1>4, <1>5, <2>2, <4>2 DEF LineOf
    <3>4. CASE acc[p] = << >>
      <4>1. Leads(acc[p], b, rd'[p]) = {w[1]}
        BY <1>6, <1>7, <3>4 DEF Leads
      <4>2. Line(sent, p, shown, queue, {w[1]}, r)
        BY <1>4, <1>8, <1>11, <2>1, <2>2, <3>2 DEF Line, Before
      <4> QED
        BY <1>2, <1>4, <1>5, <2>2, <4>1, <4>2 DEF LineOf
    <3> QED
      BY <3>3, <3>4
  <2>3. CASE q # p
    <3>1. ~ Begins(sent, q, w[1])
      BY <1>10, <2>3 DEF Begins, OrderInv, OldInv
    <3>2. \A t : Follows(sent, q, t, w[1]) /\ Follows(sent, q, w[1], t)
      BY <1>2, <3>1 DEF Follows
    <3>3. Leads(acc[q], b, rd'[q]) \subseteq Leads(acc[q], buf, rd[q]) \cup {w[1]}
      BY <1>6, <1>7, <2>3 DEF Leads
    <3>4. Line(sent, q, shown, queue, Leads(acc[q], b, rd'[q]), wire[q])
      BY <2>1, <3>2, <3>3 DEF Line, Before
    <3> QED
      BY <1>2, <1>4, <1>5, <2>3, <3>4 DEF LineOf
  <2> QED
    BY <2>2, <2>3
<1> QED
  BY <1>12, <1>13 DEF OrderInv

(* AppendMsg keeps the order.                                               *)
LEMMA AppendOrder ==
    ASSUME DataInv, OrderInv, NEW p \in Peers, AppendMsg(p)
    PROVE  OrderInv'
<1>1. PICK msg : msg = acc[p] \o SubSeq(buf, 1, rd[p].n)
  OBVIOUS
<1>2. PICK job : job = [src |-> p, chunk |-> msg]
  OBVIOUS
<1>3. /\ rd[p].at = "append" /\ UNCHANGED <<sends, out, sent, wire, buf, shown>>
      /\ rd' = [rd EXCEPT ![p] = [at |-> "read", n |-> 0]]
      /\ \/ acc' = [acc EXCEPT ![p] = msg] /\ queue' = queue
         \/ acc' = [acc EXCEPT ![p] = << >>] /\ queue' = Append(queue, job)
  BY <1>1, <1>2 DEF AppendMsg, appVars
<1>4. /\ ReadOK(p) /\ acc \in [Peers -> Seq(Tokens)] /\ buf \in Seq(Tokens) /\ Len(buf) \in Nat
      /\ queue \in Seq([src : Peers, chunk : Msgs])
      /\ rd \in [Peers -> [at : {"read", "append", "end"}, n : 0 .. BufSize]]
  BY DEF DataInv, ReadInv, ReadTypes
<1>5. rd[p].n \in 1 .. Len(buf) /\ acc[p] \in Seq(Tokens)
  BY <1>3, <1>4, MessagePathAssumption DEF ReadOK
<1>6. msg \in Msgs /\ msg[1] = IF acc[p] = << >> THEN buf[1] ELSE acc[p][1]
  <2>1. acc[p] \in Seq(Tokens) /\ buf \in Seq(Tokens) /\ rd[p].n \in 1 .. Len(buf)
    BY <1>4, <1>5
  <2>2. msg \in Msgs
    BY <1>1, <2>1, Joined
  <2>3. msg[1] = IF acc[p] = << >> THEN buf[1] ELSE acc[p][1]
    BY <1>1, <2>1, Joined
  <2> QED
    BY <2>2, <2>3
<1>7. msg # << >> /\ Leads(acc[p], buf, rd[p]) = {msg[1]}
  BY <1>3, <1>6 DEF Leads, Msgs
<1>8. Old(sends, out, msg[1])
  BY <1>7, LeadOld DEF OrderInv
<1>9. /\ rd'[p].at = "read" /\ \A q \in Peers : q # p => rd'[q] = rd[q] /\ acc'[q] = acc[q]
      /\ acc'[p] = msg \/ acc'[p] = << >>
  BY <1>3, <1>4
<1>10. job.src = p /\ job.chunk = msg /\ job \in [src : Peers, chunk : Msgs]
  BY <1>2, <1>6
<1>11. OldInv'
  <2>1. OldInv
    BY DEF OrderInv
  <2>2. ASSUME NEW q \in Peers, acc'[q] # << >>
        PROVE  Old(sends, out, acc'[q][1])
    BY <1>8, <1>9, <2>1, <2>2 DEF OldInv
  <2>3. ASSUME NEW q \in Peers, NEW t \in Firsts(queue', q)
        PROVE  Old(sends, out, t)
    <3>1. CASE queue' = queue
      BY <2>1, <2>3, <3>1 DEF OldInv
    <3>2. CASE queue' = Append(queue, job)
      <4>1. t \in Firsts(queue, q) \cup {job.chunk[1]}
        <5>1. PICK r : r = queue'
          OBVIOUS
        <5>2. PICK J : queue \in Seq(J) /\ job \in J
          BY <1>4, <1>10
        <5>3. r = Append(queue, job)
          BY <3>2, <5>1
        <5>4. Firsts(r, q) \subseteq Firsts(queue, q) \cup
                                    (IF job.src = q THEN {job.chunk[1]} ELSE {})
          BY <5>2, <5>3, FirstsAppend
        <5>5. t \in Firsts(r, q)
          BY <2>3, <5>1
        <5> QED
          BY <5>4, <5>5
      <4> QED
        BY <1>8, <1>10, <2>1, <4>1 DEF OldInv
    <3> QED
      BY <1>3, <3>1, <3>2
  <2> QED
    BY <1>3, <1>5, <2>1, <2>2, <2>3 DEF OldInv
<1>12. ASSUME NEW q \in Peers PROVE LineOf(q)'
  <2>1. PICK ld, ld2, c : /\ ld = Leads(acc[q], buf, rd[q]) /\ ld2 = Leads(acc'[q], buf, rd'[q])
                          /\ c = wire[q]
    OBVIOUS
  <2>2. Line(sent, q, shown, queue, ld, c)
    BY <2>1 DEF OrderInv, LineOf
  <2>3. Steps(sent, q, c) /\ Members(c) \subseteq Members(c)
    BY <2>2 DEF Line
  <2>4. Line(sent, q, shown, queue', ld2, c)
    <3>1. CASE queue' = queue /\ acc' = [acc EXCEPT ![p] = msg]
      <4>1. ld2 \subseteq ld
        <5>1. CASE q = p
          <6>1. acc'[q] = msg
            BY <1>4, <3>1, <5>1
          <6> QED
            BY <1>7, <2>1, <5>1, <6>1 DEF Leads
        <5>2. CASE q # p
          BY <1>9, <2>1, <5>2
        <5> QED
          BY <5>1, <5>2
      <4> QED
        BY <2>2, <2>3, <3>1, <4>1, LineLess
    <3>2. CASE queue' = Append(queue, job) /\ acc' = [acc EXCEPT ![p] = << >>]
      <4>1. CASE q = p
        <5>1. ld2 = {}
          BY <1>4, <1>9, <2>1, <3>2, <4>1 DEF Leads
        <5>2. ld = {job.chunk[1]}
          BY <1>7, <1>10, <2>1, <4>1
        <5>3. Before(sent, q, {job.chunk[1]}, ld2 \cup Members(c))
          BY <2>2, <5>1, <5>2 DEF Line, Before
        <5> QED
          BY <1>4, <1>10, <2>2, <2>3, <3>2, <5>1, <5>2, <5>3, LineQueued
      <4>2. CASE q # p
        <5>1. ld2 = ld
          BY <1>9, <2>1, <4>2
        <5> QED
          BY <1>4, <1>10, <2>2, <2>3, <3>2, <4>2, <5>1, LineQueued
      <4> QED
        BY <4>1, <4>2
    <3> QED
      BY <1>3, <3>1, <3>2
  <2> QED
    BY <1>3, <2>1, <2>4 DEF LineOf
<1> QED
  BY <1>11, <1>12 DEF OrderInv

(* ReadEnd keeps the order.                                                 *)
LEMMA EndOrder ==
    ASSUME DataInv, OrderInv, NEW p \in Peers, ReadEnd(p)
    PROVE  OrderInv'
<1>1. PICK job : job = [src |-> p, chunk |-> acc[p]]
  OBVIOUS
<1>2. /\ UNCHANGED <<sends, out, sent, wire, buf, shown>>
      /\ rd' = [rd EXCEPT ![p].at = "end"] /\ acc' = [acc EXCEPT ![p] = << >>]
      /\ \/ acc[p] # << >> /\ queue' = Append(queue, job)
         \/ queue' = queue
  BY <1>1 DEF ReadEnd, appVars
<1>3. /\ acc \in [Peers -> Seq(Tokens)] /\ queue \in Seq([src : Peers, chunk : Msgs])
      /\ rd \in [Peers -> [at : {"read", "append", "end"}, n : 0 .. BufSize]]
  BY DEF DataInv, ReadInv, ReadTypes
<1>4. /\ rd'[p].at = "end" /\ acc'[p] = << >>
      /\ \A q \in Peers : q # p => rd'[q] = rd[q] /\ acc'[q] = acc[q]
  BY <1>2, <1>3
<1>5. job.src = p /\ job.chunk = acc[p] /\ (acc[p] # << >> => job \in [src : Peers, chunk : Msgs])
  BY <1>1, <1>3 DEF Msgs
<1>6. OldInv'
  <2>1. OldInv
    BY DEF OrderInv
  <2>2. ASSUME NEW q \in Peers, acc'[q] # << >>
        PROVE  Old(sends, out, acc'[q][1])
    BY <1>4, <2>1, <2>2 DEF OldInv
  <2>3. ASSUME NEW q \in Peers, NEW t \in Firsts(queue', q)
        PROVE  Old(sends, out, t)
    <3>1. CASE queue' = queue
      BY <2>1, <2>3, <3>1 DEF OldInv
    <3>2. CASE queue' = Append(queue, job) /\ acc[p] # << >>
      <4>1. t \in Firsts(queue, q) \cup {job.chunk[1]}
        <5>1. PICK r : r = queue'
          OBVIOUS
        <5>2. PICK J : queue \in Seq(J) /\ job \in J
          BY <1>3, <1>5, <3>2
        <5>3. r = Append(queue, job)
          BY <3>2, <5>1
        <5>4. Firsts(r, q) \subseteq Firsts(queue, q) \cup
                                    (IF job.src = q THEN {job.chunk[1]} ELSE {})
          BY <5>2, <5>3, FirstsAppend
        <5>5. t \in Firsts(r, q)
          BY <2>3, <5>1
        <5> QED
          BY <5>4, <5>5
      <4> QED
        BY <1>5, <2>1, <3>2, <4>1 DEF OldInv
    <3> QED
      BY <1>2, <3>1, <3>2
  <2> QED
    BY <1>2, <2>1, <2>2, <2>3 DEF OldInv
<1>7. ASSUME NEW q \in Peers PROVE LineOf(q)'
  <2>1. PICK ld, ld2, c : /\ ld = Leads(acc[q], buf, rd[q]) /\ ld2 = Leads(acc'[q], buf, rd'[q])
                          /\ c = wire[q]
    OBVIOUS
  <2>2. Line(sent, q, shown, queue, ld, c)
    BY <2>1 DEF OrderInv, LineOf
  <2>3. Steps(sent, q, c) /\ Members(c) \subseteq Members(c)
    BY <2>2 DEF Line
  <2>4. q = p => ld2 = {}
    BY <1>4, <2>1 DEF Leads
  <2>5. q # p => ld2 = ld
    BY <1>4, <2>1
  <2>6. Line(sent, q, shown, queue', ld2, c)
    <3>1. CASE queue' = queue
      BY <2>2, <2>3, <2>4, <2>5, <3>1, LineLess
    <3>2. CASE queue' = Append(queue, job) /\ acc[p] # << >>
      <4>1. CASE q = p
        <5>1. ld = {job.chunk[1]}
          BY <1>5, <2>1, <3>2, <4>1 DEF Leads
        <5>2. Before(sent, q, {job.chunk[1]}, ld2 \cup Members(c))
          BY <2>2, <2>4, <4>1, <5>1 DEF Line, Before
        <5> QED
          BY <1>3, <1>5, <2>2, <2>3, <2>4, <3>2, <4>1, <5>1, <5>2, LineQueued
      <4>2. CASE q # p
        <5>1. job \in [src : Peers, chunk : Msgs] /\ job.src # q /\ ld2 \subseteq ld
          BY <1>5, <2>5, <3>2, <4>2
        <5> QED
          BY <1>3, <2>2, <2>3, <3>2, <5>1, LineQueued
      <4> QED
        BY <4>1, <4>2
    <3> QED
      BY <1>2, <3>1, <3>2
  <2> QED
    BY <1>2, <2>1, <2>6 DEF LineOf
<1> QED
  BY <1>6, <1>7 DEF OrderInv

(* HandleChunk keeps the order.                                             *)
LEMMA HandleOrder ==
    ASSUME DataInv, OrderInv, HandleChunk
    PROVE  OrderInv'
<1>1. PICK job, r : job = Head(queue) /\ r = Tail(queue)
  OBVIOUS
<1>2. PICK u : u = UnpackChain(job.chunk)
  OBVIOUS
<1>3. PICK v : v = [src |-> job.src, chunk |-> job.chunk, how |-> u.res,
                    content |-> u.body, owner |-> u.owner]
  OBVIOUS
<1>4. /\ queue # << >> /\ queue' = r /\ shown' \in {shown, Append(shown, v)}
      /\ UNCHANGED <<sends, out, sent, wire, buf, rd, acc>>
  BY <1>1, <1>2, <1>3 DEF HandleChunk, appVars
<1>5. queue \in Seq([src : Peers, chunk : Msgs]) /\ shown \in Seq(Views)
  BY DEF DataInv, ReadInv, ReadTypes, ViewInv, ViewTypes
<1>6. v.src = job.src /\ v.chunk = job.chunk
  BY <1>3
<1>7. PICK J : queue \in Seq(J)
  BY <1>5
<1>8. PICK V : shown \in Seq(V) /\ v \in V
  <2>1. shown \in Seq(Views \cup {v}) /\ v \in Views \cup {v}
    BY <1>5
  <2> QED
    BY <2>1
<1>9. PICK s : s = shown'
  OBVIOUS
<1>10. ASSUME NEW q \in Peers PROVE LineOf(q)'
  <2>1. PICK ld, c : ld = Leads(acc[q], buf, rd[q]) /\ c = wire[q]
    OBVIOUS
  <2>2. Line(sent, q, shown, queue, ld, c)
    BY <2>1 DEF OrderInv, LineOf
  <2>3. Line(sent, q, s, r, ld, c)
    <3>1. CASE s = shown
      BY <1>1, <1>4, <1>7, <2>2, <3>1, LineDropped
    <3>2. CASE s = Append(shown, v)
      <4>1. v.src = Head(queue).src /\ v.chunk = Head(queue).chunk
        BY <1>1, <1>6
      <4> QED
        BY <1>1, <1>4, <1>7, <1>8, <2>2, <3>2, <4>1, LineHandled
    <3> QED
      BY <1>4, <1>9, <3>1, <3>2
  <2> QED
    BY <1>4, <1>9, <2>1, <2>3 DEF LineOf
<1>11. \A q : Firsts(r, q) \subseteq Firsts(queue, q)
  BY <1>1, <1>4, <1>7, FirstsTail
<1>12. \A q : Firsts(s, q) \subseteq Firsts(shown, q) \cup Firsts(queue, q)
  <2>1. CASE s = shown
    BY <2>1
  <2>2. CASE s = Append(shown, v)
    <3> TAKE q
    <3>1. Firsts(s, q) \subseteq Firsts(shown, q) \cup (IF v.src = q THEN {v.chunk[1]} ELSE {})
      BY <1>8, <2>2, FirstsAppend
    <3>2. Head(queue) = queue[1] /\ 1 \in 1 .. Len(queue)
      BY <1>4, <1>7, Taken
    <3>3. v.src = q => v.chunk[1] \in Firsts(queue, q)
      BY <1>1, <1>6, <3>2 DEF Firsts
    <3> QED
      BY <3>1, <3>3
  <2> QED
    BY <1>4, <1>9, <2>1, <2>2
<1>13. OldInv'
  BY <1>4, <1>9, <1>11, <1>12 DEF OrderInv, OldInv
<1> QED
  BY <1>10, <1>13 DEF OrderInv

(* Every step keeps the order on a stream.                                  *)
LEMMA NextOrder ==
    DataInv /\ (transport = "stream" => OrderInv) /\ [Next]_vars => (transport = "stream" => OrderInv)'
<1>0. SUFFICES ASSUME DataInv, transport = "stream" => OrderInv, [Next]_vars, (transport = "stream")'
               PROVE  OrderInv'
  OBVIOUS
<1>1. CASE UNCHANGED vars
  <2>1. UNCHANGED <<sends, out, transport>> /\ UNCHANGED <<sent, wire, readVars, shown>>
    BY <1>1 DEF vars, appVars
  <2> QED
    BY <1>0, <2>1, SameOld, AppOrder
<1>2. CASE HandleChunk
  <2>1. transport = "stream" /\ OrderInv
    BY <1>0, <1>2 DEF HandleChunk
  <2> QED
    BY <1>0, <1>2, <2>1, HandleOrder
<1>3. ASSUME NEW p \in Peers, App(p)
      PROVE  OrderInv'
  <2>1. transport = "stream" /\ OrderInv
    BY <1>0, <1>3 DEF App, CreatePayload, DropPayload, SendPayload, WriteSegment, WriteFails, WriteEnds
  <2> QED
    BY <1>0, <1>3, <2>1, AppStepOrder, WriteOrder, FailOrder DEF App
<1>4. ASSUME NEW p \in Peers, Read(p) \/ AppendMsg(p) \/ ReadEnd(p)
      PROVE  OrderInv'
  <2>1. transport = "stream" /\ OrderInv
    BY <1>0, <1>4 DEF Read, AppendMsg, ReadEnd
  <2> QED
    BY <1>0, <1>4, <2>1, ReadOrder, AppendOrder, EndOrder
<1>5. ASSUME NEW p \in Peers, ReadDatagram(p) \/ Lose(p) \/ Duplicate(p)
      PROVE  FALSE
  BY <1>0, <1>5 DEF ReadDatagram, Lose, Duplicate
<1> QED
  BY <1>0, <1>1, <1>2, <1>3, <1>4, <1>5 DEF Next

(* On a stream no message of a peer is shown twice, and each is shown       *)
(* behind those sent before it: for every chain, buffer and number of       *)
(* peers that share the buffer, and wherever a write fails.                 *)
THEOREM MessagesShownOnce == Spec => []ShownOnce
<1>1. ASSUME DataInv, transport = "stream" => OrderInv
      PROVE  ShownOnce
  <2> SUFFICES ASSUME transport = "stream",
                      NEW i \in DOMAIN shown, NEW j \in DOMAIN shown, i < j,
                      shown[i].src = shown[j].src,
                      NEW s \in sent, BeginsWith(shown[i], s),
                      NEW z \in sent, BeginsWith(shown[j], z)
               PROVE  shown[i].chunk[1].send < shown[j].chunk[1].send
    BY DEF ShownOnce
  <2>1. PICK p, t, x : p = shown[i].src /\ t = shown[i].chunk[1] /\ x = shown[j].chunk[1]
    OBVIOUS
  <2>2. i \in 1 .. Len(shown) /\ j \in 1 .. Len(shown) /\ shown[i] \in Views /\ shown[j] \in Views
    BY <1>1 DEF DataInv, ViewInv, ViewTypes
  <2>3. p \in Peers /\ shown[i].chunk \in Msgs /\ shown[j].chunk \in Msgs
    BY <2>1, <2>2 DEF Views
  <2>4. ASSUME NEW y \in sent, NEW m, m.chunk \in Msgs, BeginsWith(m, y)
        PROVE  y.from = m.src /\ y.seg[1] = m.chunk[1]
    <3>1. PICK n, lv : /\ n \in Nat /\ y.from \in Peers /\ Clean(y.from, n, y.content)
                       /\ Packing(chain, handle, y.from, n, y.content, lv) /\ lv[handle] = y.seg
      BY <1>1 DEF DataInv, AppInv, WrittenOK, PackedAs
    <3>2. handle \in 0 .. handle /\ handle \in Nat /\ chain \in Seq(Protocols) /\ handle \in 1 .. Len(chain)
      BY <1>1 DEF DataInv, ChainTypes
    <3>3. \A k \in 0 .. handle : Clean(y.from, n, lv[k])
      <4>1. handle \in 0 .. Len(chain)
        BY <3>2
      <4> QED
        BY <3>1, <3>2, <4>1, PackingClean
    <3>4. y.seg \in Seq(Tokens) /\ y.seg # << >>
      <4>1. handle \in 0 .. Len(chain) /\ handle \in 1 .. handle
        BY <3>2
      <4>2. lv[handle] # << >>
        BY <3>1, <3>2, <4>1, PackingClean
      <4> QED
        BY <3>1, <3>2, <3>3, <4>2 DEF Clean
    <3>5. y.from = m.src /\ (m.chunk = y.seg \/ IsPrefix(y.seg, m.chunk))
      BY <2>4 DEF BeginsWith
    <3>6. m.chunk \in Seq(Tokens)
      BY <2>4 DEF Msgs
    <3>7. IsPrefix(y.seg, m.chunk) => y.seg[1] = m.chunk[1]
      BY <3>4, <3>6, PrefixFacts
    <3> QED
      BY <3>5, <3>7
  <2>5. Begins(sent, p, t) /\ Begins(sent, p, x)
    BY <2>1, <2>3, <2>4 DEF Begins
  <2>6. Pairs(sent, p, shown)
    BY <1>1, <2>3 DEF OrderInv, LineOf, Line
  <2>7. Follows(sent, p, t, x)
    BY <2>1, <2>2, <2>6 DEF Pairs
  <2> QED
    BY <2>1, <2>5, <2>7 DEF Follows
<1> QED
  BY <1>1, InitInv, InitOrder, NextInv, NextOrder, PTL DEF Spec

-----------------------------------------------------------------------------
(* Whose bytes are shown.  What the shared buffer of a stream mixes up, it  *)
(* cannot when there is one peer, nor when a datagram is a message.         *)

Own(p, m) == \A i \in 1 .. Len(m) : m[i].from = p

AllOwn(f) == \A i \in 1 .. Len(f) : Own(f[i].src, f[i].chunk)

SourceInv ==
    transport = "datagram" =>
        /\ \A p \in Peers : \A i \in 1 .. Len(wire[p]) : Own(p, wire[p][i])
        /\ AllOwn(queue) /\ AllOwn(shown)

(* A queue with one more, or without its first. *)
LEMMA OwnAppend ==
    ASSUME NEW X, NEW f \in Seq(X), NEW x \in X, AllOwn(f), Own(x.src, x.chunk),
           NEW r, r = Append(f, x)
    PROVE  AllOwn(r)
<1>1. /\ r \in Seq(X) /\ Len(r) = Len(f) + 1 /\ Len(f) \in Nat
      /\ \A i \in 1 .. Len(r) : r[i] = IF i <= Len(f) THEN f[i] ELSE x
  BY Appended
<1>2. ASSUME NEW i \in 1 .. Len(r)
      PROVE  r[i] = x \/ \E j \in 1 .. Len(f) : r[i] = f[j]
  BY <1>1
<1> QED
  BY <1>2 DEF AllOwn

LEMMA OwnTail ==
    ASSUME NEW X, NEW f \in Seq(X), f # << >>, AllOwn(f), NEW r, r = Tail(f)
    PROVE  AllOwn(r) /\ Own(Head(f).src, Head(f).chunk)
<1>1. /\ Len(f) \in Nat \ {0} /\ r \in Seq(X) /\ Len(r) = Len(f) - 1 /\ Head(f) = f[1]
      /\ \A i \in 1 .. Len(f) - 1 : r[i] = f[i + 1]
  BY Taken
<1>2. 1 \in 1 .. Len(f) /\ \A i \in 1 .. Len(r) : i + 1 \in 1 .. Len(f) /\ r[i] = f[i + 1]
  BY <1>1
<1> QED
  BY <1>1, <1>2 DEF AllOwn

(* A datagram, cut or not, has the tokens of who sent it. *)
LEMMA OwnCut ==
    ASSUME NEW d \in Msgs, NEW p, Own(p, d)
    PROVE  Own(p, Cut(d))
<1>1. d \in Seq(Tokens) /\ Len(d) \in Nat /\ BufSize \in Nat \ {0}
  BY MessagePathAssumption DEF Msgs
<1>2. CASE Len(d) <= BufSize
  BY <1>2 DEF Cut
<1>3. CASE Len(d) > BufSize
  <2>1. PICK c : c = SubSeq(d, 1, BufSize)
    OBVIOUS
  <2>2. Len(c) = BufSize /\ \A i \in 1 .. BufSize : c[i] = d[i] /\ i \in 1 .. Len(d)
    BY <1>1, <1>3, <2>1
  <2>3. Cut(d) = c
    BY <1>1, <1>3, <2>1 DEF Cut
  <2> QED
    BY <2>2, <2>3 DEF Own
<1> QED
  BY <1>1, <1>2, <1>3

(* It holds at the start, and where nothing of it changes. *)
LEMMA InitSource == Init => SourceInv
  BY DEF Init, SourceInv, AllOwn

LEMMA KeptSource ==
    ASSUME SourceInv, UNCHANGED <<transport, wire, queue, shown>>
    PROVE  SourceInv'
  BY DEF SourceInv

(* WriteSegment keeps it: a segment is made of its sender's tokens. *)
LEMMA WriteSource ==
    ASSUME DataInv, SourceInv, NEW p \in Peers, WriteSegment(p)
    PROVE  SourceInv'
<1> SUFFICES ASSUME transport = "datagram"
             PROVE  SourceInv'
  BY DEF WriteSegment, SourceInv
<1>1. PICK w, r, seg : w = wire[p] /\ seg = Head(out[p]) /\ r = Append(w, seg)
  OBVIOUS
<1>2. /\ out[p] # << >> /\ wire' = [wire EXCEPT ![p] = r]
      /\ UNCHANGED <<transport, queue, shown>>
  BY <1>1 DEF WriteSegment, readVars
<1>3. wire \in [Peers -> Seq(Msgs)] /\ out \in [Peers -> Seq(Msgs)]
  BY DEF DataInv, ReadInv, ReadTypes, AppInv, AppTypes
<1>4. seg \in Msgs /\ seg = out[p][1]
  <2>1. out[p] \in Seq(Msgs) /\ out[p] # << >>
    BY <1>2, <1>3
  <2> QED
    BY <1>1, <2>1, Taken
<1>5. Own(p, seg)
  <2>1. PackedAs(chain, handle, p, sends[p], pay[p].content, seg)
    BY <1>2, <1>4 DEF DataInv, AppInv, WrittenOK
  <2>2. PICK lv : /\ Clean(p, sends[p], pay[p].content)
                  /\ Packing(chain, handle, p, sends[p], pay[p].content, lv) /\ lv[handle] = seg
    BY <2>1 DEF PackedAs
  <2>3. /\ chain \in Seq(Protocols) /\ handle \in 0 .. Len(chain) /\ handle \in 0 .. handle
        /\ sends[p] \in Nat
    BY MessagePathAssumption DEF DataInv, ChainTypes, AppInv, AppTypes
  <2>4. \A k \in 0 .. handle : Clean(p, sends[p], lv[k])
    BY <2>2, <2>3, PackingClean
  <2> QED
    BY <2>2, <2>3, <2>4 DEF Clean, Own
<1>6. w \in Seq(Msgs) /\ wire'[p] = r /\ \A q \in Peers : q # p => wire'[q] = wire[q]
  BY <1>1, <1>2, <1>3
<1>7. \A i \in 1 .. Len(r) : Own(p, r[i])
  <2>1. Len(w) \in Nat /\ Len(r) = Len(w) + 1 /\ \A i \in 1 .. Len(r) : r[i] = IF i <= Len(w) THEN w[i] ELSE seg
    BY <1>1, <1>4, <1>6, Appended
  <2>2. \A i \in 1 .. Len(w) : Own(p, w[i])
    BY <1>1 DEF SourceInv
  <2>3. ASSUME NEW i \in 1 .. Len(r) PROVE r[i] = seg \/ (i \in 1 .. Len(w) /\ r[i] = w[i])
    BY <2>1
  <2> QED
    BY <1>5, <2>2, <2>3
<1> QED
  BY <1>2, <1>6, <1>7 DEF SourceInv

(* ReadDatagram keeps it. *)
LEMMA DatagramSource ==
    ASSUME DataInv, SourceInv, NEW p \in Peers, ReadDatagram(p)
    PROVE  SourceInv'
<1>1. PICK i \in DOMAIN wire[p] :
        /\ wire' = [wire EXCEPT ![p] = RemoveAt(@, i)]
        /\ queue' = Append(queue, [src |-> p, chunk |-> Cut(wire[p][i])])
  BY DEF ReadDatagram
<1>2. transport = "datagram" /\ UNCHANGED <<transport, shown>>
  BY DEF ReadDatagram
<1>3. PICK w, r, job : w = wire[p] /\ r = RemoveAt(w, i) /\ job = [src |-> p, chunk |-> Cut(w[i])]
  OBVIOUS
<1>4. wire \in [Peers -> Seq(Msgs)] /\ queue \in Seq([src : Peers, chunk : Msgs])
  BY <1>2 DEF DataInv, ReadInv, ReadTypes
<1>5. w \in Seq(Msgs) /\ i \in 1 .. Len(w) /\ w[i] \in Msgs /\ \A j \in 1 .. Len(w) : Own(p, w[j])
  BY <1>2, <1>3, <1>4 DEF SourceInv
<1>6. wire'[p] = r /\ \A q \in Peers : q # p => wire'[q] = wire[q]
  BY <1>1, <1>3, <1>4
<1>7. \A j \in 1 .. Len(r) : Own(p, r[j])
  <2>1. r = RemoveAt(w, i) /\ w \in Seq(Msgs) /\ i \in 1 .. Len(w)
    BY <1>3, <1>5
  <2>2. Len(r) = Len(w) - 1
    BY <2>1, Removed
  <2>3. \A j \in 1 .. Len(r) : r[j] = IF j < i THEN w[j] ELSE w[j + 1]
    BY <2>1, Removed
  <2>4. ASSUME NEW j \in 1 .. Len(r) PROVE \E k \in 1 .. Len(w) : r[j] = w[k]
    <3>1. Len(w) \in Nat /\ j \in 1 .. Len(w) /\ j + 1 \in 1 .. Len(w)
      BY <2>1, <2>2
    <3> QED
      BY <2>3, <3>1
  <2> QED
    BY <1>5, <2>4
<1>8. AllOwn(queue')
  <2>1. PICK s, J : s = queue' /\ J = [src : Peers, chunk : Msgs]
    OBVIOUS
  <2>2. queue \in Seq(J) /\ job \in J /\ s = Append(queue, job)
    BY <1>1, <1>3, <1>4, <1>5, <2>1, CutIs
  <2>3. Own(job.src, job.chunk)
    BY <1>3, <1>5, OwnCut
  <2>4. AllOwn(queue)
    BY <1>2 DEF SourceInv
  <2>5. AllOwn(s)
    BY <2>2, <2>3, <2>4, OwnAppend
  <2> QED
    BY <2>1, <2>5
<1> QED
  BY <1>2, <1>6, <1>7, <1>8 DEF SourceInv

(* A datagram lost keeps it. *)
LEMMA LoseSource ==
    ASSUME DataInv, SourceInv, NEW p \in Peers, Lose(p)
    PROVE  SourceInv'
<1>1. /\ transport = "datagram" /\ wire[p] # << >> /\ UNCHANGED <<transport, queue, shown>>
      /\ wire' = [wire EXCEPT ![p] = Tail(@)]
  BY DEF Lose, readVars
<1>2. PICK w, r : w = wire[p] /\ r = Tail(w)
  OBVIOUS
<1>3. wire \in [Peers -> Seq(Msgs)]
  BY <1>1 DEF DataInv, ReadInv, ReadTypes
<1>4. w \in Seq(Msgs) /\ w # << >> /\ \A j \in 1 .. Len(w) : Own(p, w[j])
  BY <1>1, <1>2, <1>3 DEF SourceInv
<1>5. Len(r) = Len(w) - 1 /\ \A j \in 1 .. Len(w) - 1 : r[j] = w[j + 1]
  BY <1>2, <1>4, Taken
<1>6. \A j \in 1 .. Len(r) : Own(p, r[j])
  <2>1. ASSUME NEW j \in 1 .. Len(r) PROVE r[j] = w[j + 1] /\ j + 1 \in 1 .. Len(w)
    BY <1>4, <1>5
  <2> QED
    BY <1>4, <2>1
<1>7. wire'[p] = r /\ \A q \in Peers : q # p => wire'[q] = wire[q]
  BY <1>1, <1>2, <1>3
<1> QED
  BY <1>1, <1>6, <1>7 DEF SourceInv

(* And so does one that is delivered twice. *)
LEMMA DuplicateSource ==
    ASSUME DataInv, SourceInv, NEW p \in Peers, Duplicate(p)
    PROVE  SourceInv'
<1>1. PICK i \in DOMAIN wire[p] : wire' = [wire EXCEPT ![p] = Append(@, wire[p][i])]
  BY DEF Duplicate
<1>2. transport = "datagram" /\ UNCHANGED <<transport, queue, shown>>
  BY DEF Duplicate, readVars
<1>3. PICK w, r, x : w = wire[p] /\ x = w[i] /\ r = Append(w, x)
  OBVIOUS
<1>4. wire \in [Peers -> Seq(Msgs)]
  BY <1>2 DEF DataInv, ReadInv, ReadTypes
<1>5. w \in Seq(Msgs) /\ i \in 1 .. Len(w) /\ x \in Msgs /\ \A j \in 1 .. Len(w) : Own(p, w[j])
  BY <1>2, <1>3, <1>4 DEF SourceInv
<1>6. \A j \in 1 .. Len(r) : r[j] = x \/ (j \in 1 .. Len(w) /\ r[j] = w[j])
  <2>1. Len(r) = Len(w) + 1 /\ Len(w) \in Nat
        /\ \A j \in 1 .. Len(r) : r[j] = IF j <= Len(w) THEN w[j] ELSE x
    BY <1>3, <1>5, Appended
  <2> QED
    BY <2>1
<1>7. \A j \in 1 .. Len(r) : Own(p, r[j])
  BY <1>3, <1>5, <1>6
<1>8. wire'[p] = r /\ \A q \in Peers : q # p => wire'[q] = wire[q]
  BY <1>1, <1>3, <1>4
<1> QED
  BY <1>2, <1>7, <1>8 DEF SourceInv

(* HandleChunk keeps it: what is shown is the chunk of the job. *)
LEMMA HandleSource ==
    ASSUME DataInv, SourceInv, HandleChunk
    PROVE  SourceInv'
<1> SUFFICES ASSUME transport = "datagram"
             PROVE  SourceInv'
  BY DEF HandleChunk, SourceInv
<1>1. PICK job, r : job = Head(queue) /\ r = Tail(queue)
  OBVIOUS
<1>2. PICK u : u = UnpackChain(job.chunk)
  OBVIOUS
<1>3. PICK v : v = [src |-> job.src, chunk |-> job.chunk, how |-> u.res,
                    content |-> u.body, owner |-> u.owner]
  OBVIOUS
<1>4. /\ queue # << >> /\ queue' = r /\ shown' \in {shown, Append(shown, v)}
      /\ UNCHANGED <<transport, wire>>
  BY <1>1, <1>2, <1>3 DEF HandleChunk
<1>5. queue \in Seq([src : Peers, chunk : Msgs]) /\ shown \in Seq(Views)
  BY DEF DataInv, ReadInv, ReadTypes, ViewInv, ViewTypes
<1>6. PICK J : queue \in Seq(J)
  BY <1>5
<1>7. PICK V : shown \in Seq(V) /\ v \in V
  <2>1. shown \in Seq(Views \cup {v}) /\ v \in Views \cup {v}
    BY <1>5
  <2> QED
    BY <2>1
<1>8. PICK s : s = shown'
  OBVIOUS
<1>9. AllOwn(queue) /\ AllOwn(shown)
  BY DEF SourceInv
<1>10. AllOwn(r) /\ Own(job.src, job.chunk)
  BY <1>1, <1>4, <1>6, <1>9, OwnTail
<1>11. Own(v.src, v.chunk)
  BY <1>3, <1>10
<1>12. AllOwn(s)
  <2>1. CASE s = shown
    BY <1>9, <2>1
  <2>2. CASE s = Append(shown, v)
    BY <1>7, <1>9, <1>11, <2>2, OwnAppend
  <2> QED
    BY <1>4, <1>8, <2>1, <2>2
<1> QED
  BY <1>4, <1>8, <1>10, <1>12 DEF SourceInv

(* Every step keeps it. *)
LEMMA NextSource == DataInv /\ SourceInv /\ [Next]_vars => SourceInv'
<1> SUFFICES ASSUME DataInv, SourceInv, [Next]_vars PROVE SourceInv'
  OBVIOUS
<1>1. CASE UNCHANGED vars
  BY <1>1, KeptSource DEF vars, readVars
<1>2. CASE HandleChunk
  BY <1>2, HandleSource
<1>3. ASSUME NEW p \in Peers, App(p)
      PROVE  SourceInv'
  <2>1. CASE WriteSegment(p)
    BY <2>1, WriteSource
  <2>2. CASE CreatePayload(p) \/ DropPayload(p) \/ SendPayload(p) \/ WriteEnds(p)
    <3>1. UNCHANGED <<transport, wire, queue, shown>>
      BY <2>2 DEF CreatePayload, DropPayload, SendPayload, WriteEnds, DestroyChain, readVars
    <3> QED
      BY <3>1, KeptSource
  <2>3. CASE WriteFails(p)
    <3>1. UNCHANGED transport /\ (transport = "datagram" => UNCHANGED <<wire, queue, shown>>)
      BY <2>3 DEF WriteFails, readVars
    <3>2. CASE transport = "datagram"
      BY <3>1, <3>2, KeptSource
    <3>3. CASE transport # "datagram"
      BY <3>1, <3>3 DEF SourceInv
    <3> QED
      BY <3>2, <3>3
  <2> QED
    BY <1>3, <2>1, <2>2, <2>3 DEF App
<1>4. ASSUME NEW p \in Peers, Read(p) \/ AppendMsg(p) \/ ReadEnd(p)
      PROVE  SourceInv'
  <2>1. transport # "datagram" /\ UNCHANGED transport
    BY <1>4 DEF DataInv, ReadInv, ReadOK, Read, AppendMsg, ReadEnd
  <2> QED
    BY <2>1 DEF SourceInv
<1>5. ASSUME NEW p \in Peers, ReadDatagram(p) \/ Lose(p) \/ Duplicate(p)
      PROVE  SourceInv'
  BY <1>5, DatagramSource, LoseSource, DuplicateSource
<1> QED
  BY <1>1, <1>2, <1>3, <1>4, <1>5 DEF Next

(* What is shown as a message of a peer was sent by that peer, over         *)
(* datagrams, and where there is one peer only.  That SourceIsSender fails, *)
(* as a run shows, takes two receivers of a stream that share read_buf.     *)
THEOREM SourceUnlessShared ==
    Spec => [](transport = "datagram" \/ (\A p, q \in Peers : p = q) => SourceIsSender)
<1>1. ASSUME DataInv, SourceInv, transport = "datagram" \/ (\A p, q \in Peers : p = q)
      PROVE  SourceIsSender
  <2>1. shown \in Seq(Views)
    BY <1>1 DEF DataInv, ViewInv, ViewTypes
  <2> SUFFICES ASSUME NEW i \in DOMAIN shown, NEW t \in ToSet(shown[i].chunk)
               PROVE  t.from = shown[i].src
    BY DEF SourceIsSender
  <2>2. i \in 1 .. Len(shown) /\ shown[i] \in Views
    BY <2>1
  <2>3. shown[i].src \in Peers /\ shown[i].chunk \in Seq(Tokens)
    BY <2>2 DEF Views, Msgs
  <2>4. PICK k \in 1 .. Len(shown[i].chunk) : t = shown[i].chunk[k]
    BY <2>3 DEF ToSet
  <2>5. t \in Tokens
    BY <2>3, <2>4
  <2>6. CASE transport = "datagram"
    BY <1>1, <2>2, <2>4, <2>6 DEF SourceInv, AllOwn, Own
  <2>7. CASE \A p, q \in Peers : p = q
    <3>1. t.from \in Peers
      BY <2>5 DEF Tokens
    <3> QED
      BY <2>3, <2>7, <3>1
  <2> QED
    BY <1>1, <2>6, <2>7
<1> QED
  BY <1>1, InitInv, InitSource, NextInv, NextSource, PTL DEF Spec
===============================================================================
