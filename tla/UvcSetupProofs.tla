--------------------------- MODULE UvcSetupProofs ---------------------------
(***************************************************************************)
(* Theorems about UvcSetup, for every number usb:ds may give the first     *)
(* interface and every place an attempt may fail.                          *)
(***************************************************************************)
EXTENDS UvcSetup, SequenceTheorems, FiniteSetTheorems, TLAPS

(***************************************************************************)
(* The inductive invariant. An attempt that has made its first n - 1 calls *)
(* has a session that is a function of n and of the number usb:ds gave the *)
(* first interface: the calls are those of the script, in its order, and   *)
(* nothing of an earlier attempt is left in it.                            *)
(***************************************************************************)
\* The call that comes next; past the last one while the device is initialised.
Made == IF pc = "init" THEN step ELSE IF initialized THEN 25 ELSE 1

Numbered(i)    == IF i = VC THEN 3 ELSE 4
EnabledBy(i)   == IF i = VC THEN 12 ELSE 23

\* Everything that is appended to an interface for a speed.
Whole(i, speed, base) ==
    IF i = VC
    THEN <<<<"iad", base>>, <<"vc", base>>, <<"vcHeader", base + 1>>>>
    ELSE IF speed = "high"
         THEN <<<<"vs", base + 1>>, <<"vsHeader", base + 2>>,
                <<"endpoint", base + 2, 512>>>>
         ELSE <<<<"vs", base + 1>>, <<"vsHeader", base + 2>>,
                <<"endpoint", base + 2, 1024>>, <<"companion">>>>

\* How much of it, before the n-th call.
Clamp(n, most) == IF n <= 0 THEN 0 ELSE IF n >= most THEN most ELSE n
Appended(i, speed, n) ==
    IF i = VC
    THEN IF speed = "high" THEN Clamp(n - 6, 3) ELSE Clamp(n - 9, 3)
    ELSE IF speed = "high"
         THEN IF n <= 15 THEN Clamp(n - 13, 2) ELSE Clamp(n - 14, 3)
         ELSE IF n <= 19 THEN Clamp(n - 17, 2) ELSE Clamp(n - 18, 4)

Prefix(whole, n) == [k \in 1 .. n |-> whole[k]]

Data(n, base) ==
    [i \in Interfaces |-> [s \in Speeds |->
        Prefix(Whole(i, s, base), Appended(i, s, n))]]

Registered(n)    == {i \in Interfaces : Numbered(i) < n}
Enabled(n)       == {i \in Interfaces : EnabledBy(i) < n}
Endpoint(n, base) == IF n > 22 THEN base + 2 ELSE Null
Running(n)       == IF n > 24 THEN TRUE ELSE FALSE

Usb(open, base, registered, enabled, data, endpoint, on) ==
    [open |-> open, base |-> base, registered |-> registered, enabled |-> enabled,
     data |-> data, endpoint |-> endpoint, on |-> on]

Session(n, base) ==
    Usb(TRUE, base, Registered(n), Enabled(n), Data(n, base), Endpoint(n, base),
        Running(n))

Typed ==
    /\ pc \in {"out", "init"} /\ initialized \in BOOLEAN /\ hos5 \in BOOLEAN
    /\ step \in 0 .. 24 /\ (pc = "init" => step # 0 /\ ~initialized)
    /\ result \in {"none", "ok", "failed", "incompatible", "alreadyInitialized"}
    /\ ctx \in [Interfaces -> Nat \union {Null}]
    /\ desc \in [iad : Nat, vc : Nat, vcHeader : Nat, vs : Nat,
                 address : Nat \ {0}, vsHeader : Nat \ {0}, packet : {512, 1024}]

Described ==
    LET base == usb.base
    IN /\ Made = 1 => usb = NoSession
       /\ Made > 1 => base \in Nat /\ usb = Session(Made, base)
       /\ Made > 3 => ctx[VC] = base
       /\ Made > 4 => ctx[VS] = base + 1
       /\ Made > 5 => /\ desc.iad = base /\ desc.vc = base
                      /\ desc.vcHeader = base + 1 /\ desc.vs = base + 1
                      /\ desc.address = base + 2 /\ desc.vsHeader = base + 2
       /\ Made = 16 => desc.packet = 512
       /\ Made = 20 => desc.packet = 1024

IInv == Typed /\ Described


(***************************************************************************)
(* The script, call by call.                                               *)
(***************************************************************************)
Kinds == {"none", "iad", "vc", "vcHeader", "vs", "vsHeader", "endpoint", "companion"}
Calls == [do : {"open", "describe", "register", "number", "append", "packet",
                "enableInterface", "registerEndpoint", "enable"},
          iface : Interfaces, speed : Speeds, kind : Kinds]
Append1(i, speed, kind) ==
    [do |-> "append", iface |-> i, speed |-> speed, kind |-> kind]

LEMMA CallType ==
    /\ \A i \in Interfaces, speed \in Speeds, kind \in Kinds :
          Append1(i, speed, kind) \in Calls
    /\ \A i \in Interfaces :
          \A what \in {"open", "describe", "register", "number", "enableInterface",
                       "registerEndpoint", "enable"} : On(i, what) \in Calls
    /\ \A speed \in Speeds : Packet(speed) \in Calls
BY DEF Append1, On, Packet, Calls, Kinds, Interfaces, Speeds

\* Concatenation, element by element.
LEMMA Joins ==
    ASSUME NEW s \in Seq(Calls), NEW t \in Seq(Calls)
    PROVE  /\ s \o t \in Seq(Calls) /\ Len(s \o t) = Len(s) + Len(t)
           /\ \A k \in 1 .. Len(s) : (s \o t)[k] = s[k]
           /\ \A k \in 1 .. Len(t) : (s \o t)[Len(s) + k] = t[k]
<1>1. /\ s \o t \in Seq(Calls)
      /\ Len(s \o t) = Len(s) + Len(t)
      /\ \A k \in 1 .. Len(s) + Len(t) :
            (s \o t)[k] = IF k <= Len(s) THEN s[k] ELSE t[k - Len(s)]
  BY ConcatProperties, Zenon
<1>0. Len(s) \in Nat /\ Len(t) \in Nat
  OBVIOUS
<1>2. ASSUME NEW k \in 1 .. Len(s) PROVE (s \o t)[k] = s[k]
  BY <1>0, <1>1
<1>3. ASSUME NEW k \in 1 .. Len(t) PROVE (s \o t)[Len(s) + k] = t[k]
  <2>1. /\ Len(s) + k \in 1 .. Len(s) + Len(t)
        /\ ~(Len(s) + k <= Len(s)) /\ (Len(s) + k) - Len(s) = k
    BY <1>0
  <2>2. QED
    BY <1>1, <2>1
<1>4. QED
  BY <1>1, <1>2, <1>3

\* Short sequences of calls.
LEMMA Short ==
    ASSUME NEW x \in Calls, NEW y \in Calls, NEW z \in Calls
    PROVE  /\ <<x>> \in Seq(Calls) /\ Len(<<x>>) = 1 /\ <<x>>[1] = x
           /\ <<x, y>> \in Seq(Calls) /\ Len(<<x, y>>) = 2
           /\ <<x, y>>[1] = x /\ <<x, y>>[2] = y
           /\ <<x, y, z>> \in Seq(Calls) /\ Len(<<x, y, z>>) = 3
           /\ <<x, y, z>>[1] = x /\ <<x, y, z>>[2] = y /\ <<x, y, z>>[3] = z
OBVIOUS

LEMMA VcScript ==
    /\ VcCalls \in Seq(Calls) /\ Len(VcCalls) = 7
    /\ VcCalls[1] = Append1(VC, "high", "iad")
    /\ VcCalls[2] = Append1(VC, "high", "vc")
    /\ VcCalls[3] = Append1(VC, "high", "vcHeader")
    /\ VcCalls[4] = Append1(VC, "super", "iad")
    /\ VcCalls[5] = Append1(VC, "super", "vc")
    /\ VcCalls[6] = Append1(VC, "super", "vcHeader")
    /\ VcCalls[7] = On(VC, "enableInterface")
<1> DEFINE A(speed, kind) == Append1(VC, speed, kind)
           e == On(VC, "enableInterface")
           h == <<A("high", "iad"), A("high", "vc"), A("high", "vcHeader")>>
           s == <<A("super", "iad"), A("super", "vc"), A("super", "vcHeader")>>
<1>0. VC \in Interfaces /\ "high" \in Speeds /\ "super" \in Speeds
      /\ "iad" \in Kinds /\ "vc" \in Kinds /\ "vcHeader" \in Kinds
  BY DEF Interfaces, Speeds, Kinds
<1>1. /\ AppendAll(VC, "high", <<"iad", "vc", "vcHeader">>) = h
      /\ AppendAll(VC, "super", <<"iad", "vc", "vcHeader">>) = s
  BY DEF AppendAll, Append1
<1>2. /\ \A speed \in Speeds, kind \in Kinds : A(speed, kind) \in Calls
      /\ e \in Calls
  BY <1>0, CallType
<1>3. VcCalls = h \o s \o <<e>>
  BY <1>1 DEF VcCalls
<1> HIDE DEF A, e
<1>4. /\ h \in Seq(Calls) /\ s \in Seq(Calls) /\ <<e>> \in Seq(Calls)
      /\ Len(h) = 3 /\ Len(s) = 3 /\ Len(<<e>>) = 1
      /\ h[1] = A("high", "iad") /\ h[2] = A("high", "vc") /\ h[3] = A("high", "vcHeader")
      /\ s[1] = A("super", "iad") /\ s[2] = A("super", "vc")
      /\ s[3] = A("super", "vcHeader") /\ <<e>>[1] = e
  BY <1>0, <1>2, Short, Zenon
<1> DEFINE l == <<e>>
<1>a. h \in Seq(Calls) /\ s \in Seq(Calls) /\ l \in Seq(Calls)
  BY <1>4
<1> HIDE DEF h, s, l
<1>5. /\ h \o s \in Seq(Calls) /\ Len(h \o s) = Len(h) + Len(s)
      /\ \A k \in 1 .. Len(h) : (h \o s)[k] = h[k]
      /\ \A k \in 1 .. Len(s) : (h \o s)[Len(h) + k] = s[k]
  BY <1>a, Joins, Zenon
<1>6. /\ h \o s \o l \in Seq(Calls)
      /\ Len(h \o s \o l) = Len(h \o s) + Len(l)
      /\ \A k \in 1 .. Len(h \o s) : (h \o s \o l)[k] = (h \o s)[k]
      /\ \A k \in 1 .. Len(l) : (h \o s \o l)[Len(h \o s) + k] = l[k]
  BY <1>a, <1>5, Joins, Zenon
<1>7. VcCalls = h \o s \o l
  BY <1>3 DEF l
<1>8. Len(h) = 3 /\ Len(s) = 3 /\ Len(l) = 1 /\ l[1] = e
  BY <1>4 DEF l
<1>9. QED
  BY <1>4, <1>5, <1>6, <1>7, <1>8 DEF A, e


LEMMA VsScript ==
    /\ VsCalls \in Seq(Calls) /\ Len(VsCalls) = 11
    /\ VsCalls[1] = Append1(VS, "high", "vs")
    /\ VsCalls[2] = Append1(VS, "high", "vsHeader")
    /\ VsCalls[3] = Packet("high")
    /\ VsCalls[4] = Append1(VS, "high", "endpoint")
    /\ VsCalls[5] = Append1(VS, "super", "vs")
    /\ VsCalls[6] = Append1(VS, "super", "vsHeader")
    /\ VsCalls[7] = Packet("super")
    /\ VsCalls[8] = Append1(VS, "super", "endpoint")
    /\ VsCalls[9] = Append1(VS, "super", "companion")
    /\ VsCalls[10] = On(VS, "registerEndpoint")
    /\ VsCalls[11] = On(VS, "enableInterface")
<1> DEFINE A(speed, kind) == Append1(VS, speed, kind)
           p(speed) == Packet(speed)
           d(what)  == On(VS, what)
           s1 == <<A("high", "vs"), A("high", "vsHeader")>>
           s2 == <<p("high")>>
           s3 == <<A("high", "endpoint")>>
           s4 == <<A("super", "vs"), A("super", "vsHeader")>>
           s5 == <<p("super")>>
           s6 == <<A("super", "endpoint"), A("super", "companion")>>
           s7 == <<d("registerEndpoint"), d("enableInterface")>>
<1>0. VS \in Interfaces /\ "high" \in Speeds /\ "super" \in Speeds
      /\ "vs" \in Kinds /\ "vsHeader" \in Kinds /\ "endpoint" \in Kinds
      /\ "companion" \in Kinds
  BY DEF Interfaces, Speeds, Kinds
<1>1. /\ AppendAll(VS, "high", <<"vs", "vsHeader">>) = s1
      /\ AppendAll(VS, "high", <<"endpoint">>) = s3
      /\ AppendAll(VS, "super", <<"vs", "vsHeader">>) = s4
      /\ AppendAll(VS, "super", <<"endpoint", "companion">>) = s6
  BY DEF AppendAll, Append1
<1>2. /\ \A speed \in Speeds, kind \in Kinds : A(speed, kind) \in Calls
      /\ \A speed \in Speeds : p(speed) \in Calls
      /\ d("registerEndpoint") \in Calls /\ d("enableInterface") \in Calls
  BY <1>0, CallType
<1>3. VsCalls = ((((s1 \o s2) \o s3) \o s4) \o s5) \o s6 \o s7
  BY <1>1 DEF VsCalls, VsData
<1> HIDE DEF A, p, d
<1>4. /\ s1 \in Seq(Calls) /\ s2 \in Seq(Calls) /\ s3 \in Seq(Calls)
      /\ s4 \in Seq(Calls) /\ s5 \in Seq(Calls) /\ s6 \in Seq(Calls)
      /\ s7 \in Seq(Calls)
  BY <1>0, <1>2, Short, Zenon
<1>5. /\ Len(s1) = 2 /\ s1[1] = A("high", "vs") /\ s1[2] = A("high", "vsHeader")
      /\ Len(s2) = 1 /\ s2[1] = p("high")
      /\ Len(s3) = 1 /\ s3[1] = A("high", "endpoint")
      /\ Len(s4) = 2 /\ s4[1] = A("super", "vs") /\ s4[2] = A("super", "vsHeader")
      /\ Len(s5) = 1 /\ s5[1] = p("super")
      /\ Len(s6) = 2 /\ s6[1] = A("super", "endpoint") /\ s6[2] = A("super", "companion")
      /\ Len(s7) = 2 /\ s7[1] = d("registerEndpoint") /\ s7[2] = d("enableInterface")
  BY <1>0, <1>2, Short, Zenon
<1> HIDE DEF s1, s2, s3, s4, s5, s6, s7
<1> DEFINE t2 == s1 \o s2
           t3 == t2 \o s3
           t4 == t3 \o s4
           t5 == t4 \o s5
           t6 == t5 \o s6
           t7 == t6 \o s7
<1>6. /\ t2 \in Seq(Calls) /\ Len(t2) = Len(s1) + Len(s2)
      /\ \A k \in 1 .. Len(s1) : t2[k] = s1[k]
      /\ \A k \in 1 .. Len(s2) : t2[Len(s1) + k] = s2[k]
  BY <1>4, Joins, Zenon
<1> HIDE DEF t2
<1>7. /\ t3 \in Seq(Calls) /\ Len(t3) = Len(t2) + Len(s3)
      /\ \A k \in 1 .. Len(t2) : t3[k] = t2[k]
      /\ \A k \in 1 .. Len(s3) : t3[Len(t2) + k] = s3[k]
  BY <1>4, <1>6, Joins, Zenon
<1> HIDE DEF t3
<1>8. /\ t4 \in Seq(Calls) /\ Len(t4) = Len(t3) + Len(s4)
      /\ \A k \in 1 .. Len(t3) : t4[k] = t3[k]
      /\ \A k \in 1 .. Len(s4) : t4[Len(t3) + k] = s4[k]
  BY <1>4, <1>7, Joins, Zenon
<1> HIDE DEF t4
<1>9. /\ t5 \in Seq(Calls) /\ Len(t5) = Len(t4) + Len(s5)
      /\ \A k \in 1 .. Len(t4) : t5[k] = t4[k]
      /\ \A k \in 1 .. Len(s5) : t5[Len(t4) + k] = s5[k]
  BY <1>4, <1>8, Joins, Zenon
<1> HIDE DEF t5
<1>10. /\ t6 \in Seq(Calls) /\ Len(t6) = Len(t5) + Len(s6)
       /\ \A k \in 1 .. Len(t5) : t6[k] = t5[k]
       /\ \A k \in 1 .. Len(s6) : t6[Len(t5) + k] = s6[k]
  BY <1>4, <1>9, Joins, Zenon
<1> HIDE DEF t6
<1>11. /\ t7 \in Seq(Calls) /\ Len(t7) = Len(t6) + Len(s7)
       /\ \A k \in 1 .. Len(t6) : t7[k] = t6[k]
       /\ \A k \in 1 .. Len(s7) : t7[Len(t6) + k] = s7[k]
  BY <1>4, <1>10, Joins, Zenon
<1>12. VsCalls = t7
  BY <1>3 DEF t2, t3, t4, t5, t6, t7
<1> HIDE DEF t7
<1>13. /\ Len(t2) = 3 /\ Len(t3) = 4 /\ Len(t4) = 6 /\ Len(t5) = 7 /\ Len(t6) = 9
       /\ Len(t7) = 11
  BY <1>5, <1>6, <1>7, <1>8, <1>9, <1>10, <1>11
<1>14. /\ t7[1] = s1[1] /\ t7[2] = s1[2] /\ t7[3] = s2[1] /\ t7[4] = s3[1]
       /\ t7[5] = s4[1] /\ t7[6] = s4[2] /\ t7[7] = s5[1] /\ t7[8] = s6[1]
       /\ t7[9] = s6[2] /\ t7[10] = s7[1] /\ t7[11] = s7[2]
  BY <1>5, <1>6, <1>7, <1>8, <1>9, <1>10, <1>11, <1>13
<1>15. QED
  BY <1>5, <1>11, <1>12, <1>13, <1>14 DEF A, p, d

\* The whole of it.
LEMMA ScriptCalls ==
    /\ Script \in Seq(Calls) /\ Len(Script) = 24
    /\ Script[1] = On(VC, "open")     /\ Script[2] = On(VC, "describe")
    /\ Script[3] = On(VC, "register") /\ Script[4] = On(VS, "register")
    /\ Script[5] = On(VC, "number")
    /\ \A k \in 1 .. 7  : Script[5 + k] = VcCalls[k]
    /\ \A k \in 1 .. 11 : Script[12 + k] = VsCalls[k]
    /\ Script[24] = On(VC, "enable")
<1> DEFINE o == On(VC, "open")
           d == On(VC, "describe")
           r == On(VC, "register")
           q == On(VS, "register")
           n == On(VC, "number")
           e == On(VC, "enable")
           s1 == <<o, d, r, q, n>>
           s2 == <<e>>
<1>1. o \in Calls /\ d \in Calls /\ r \in Calls /\ q \in Calls /\ n \in Calls
      /\ e \in Calls
  BY CallType DEF Interfaces
<1>2. Script = ((s1 \o VcCalls) \o VsCalls) \o s2
  BY DEF Script
<1> HIDE DEF o, d, r, q, n, e
<1>3. /\ s1 \in Seq(Calls) /\ Len(s1) = 5
      /\ s1[1] = o /\ s1[2] = d /\ s1[3] = r /\ s1[4] = q /\ s1[5] = n
  BY <1>1
<1>4. s2 \in Seq(Calls) /\ Len(s2) = 1 /\ s2[1] = e
  BY <1>1
<1> HIDE DEF s1, s2
<1>5. /\ VcCalls \in Seq(Calls) /\ Len(VcCalls) = 7
      /\ VsCalls \in Seq(Calls) /\ Len(VsCalls) = 11
  BY VcScript, VsScript, Zenon
<1>a. s1 \in Seq(Calls) /\ s2 \in Seq(Calls) /\ VcCalls \in Seq(Calls)
      /\ VsCalls \in Seq(Calls)
  BY <1>3, <1>4, <1>5
<1> DEFINE t1 == s1 \o VcCalls
           t2 == t1 \o VsCalls
           t3 == t2 \o s2
<1>6. /\ t1 \in Seq(Calls) /\ Len(t1) = Len(s1) + Len(VcCalls)
      /\ \A k \in 1 .. Len(s1) : t1[k] = s1[k]
      /\ \A k \in 1 .. Len(VcCalls) : t1[Len(s1) + k] = VcCalls[k]
  BY <1>a, Joins, Zenon
<1> HIDE DEF t1
<1>7. /\ t2 \in Seq(Calls) /\ Len(t2) = Len(t1) + Len(VsCalls)
      /\ \A k \in 1 .. Len(t1) : t2[k] = t1[k]
      /\ \A k \in 1 .. Len(VsCalls) : t2[Len(t1) + k] = VsCalls[k]
  BY <1>a, <1>6, Joins, Zenon
<1> HIDE DEF t2
<1>8. /\ t3 \in Seq(Calls) /\ Len(t3) = Len(t2) + Len(s2)
      /\ \A k \in 1 .. Len(t2) : t3[k] = t2[k]
      /\ \A k \in 1 .. Len(s2) : t3[Len(t2) + k] = s2[k]
  BY <1>a, <1>7, Joins, Zenon
<1>9. Script = t3
  BY <1>2 DEF t1, t2, t3
<1> HIDE DEF t3
<1>10. Len(t1) = 12 /\ Len(t2) = 23 /\ Len(t3) = 24
  BY <1>3, <1>4, <1>5, <1>6, <1>7, <1>8
<1>11. /\ t3[1] = o /\ t3[2] = d /\ t3[3] = r /\ t3[4] = q /\ t3[5] = n /\ t3[24] = e
  BY <1>3, <1>4, <1>5, <1>6, <1>7, <1>8, <1>10
<1>12. ASSUME NEW k \in 1 .. 7 PROVE t3[5 + k] = VcCalls[k]
  <2>1. 5 + k \in 1 .. 12 /\ 5 + k \in 1 .. 23
    OBVIOUS
  <2>2. t3[5 + k] = t2[5 + k] /\ t2[5 + k] = t1[5 + k]
    BY <1>7, <1>8, <1>10, <2>1
  <2>3. QED
    BY <1>3, <1>5, <1>6, <2>2
<1>13. ASSUME NEW k \in 1 .. 11 PROVE t3[12 + k] = VsCalls[k]
  <2>1. 12 + k \in 1 .. 23
    OBVIOUS
  <2>2. t3[12 + k] = t2[12 + k]
    BY <1>8, <1>10, <2>1
  <2>3. QED
    BY <1>5, <1>7, <1>10, <2>2
<1>14. QED
  BY <1>8, <1>9, <1>10, <1>11, <1>12, <1>13 DEF o, d, r, q, n, e


(***************************************************************************)
(* What has been appended, one call further.                               *)
(***************************************************************************)
\* One more element of a whole.
LEMMA PrefixStep ==
    ASSUME NEW whole, NEW n \in Nat
    PROVE  Prefix(whole, n) \o <<whole[n + 1]>> = Prefix(whole, n + 1)
<1> DEFINE S == {whole[k] : k \in 1 .. n + 1}
           s == Prefix(whole, n)
           x == whole[n + 1]
           t == <<x>>
           u == Prefix(whole, n + 1)
<1>1. s \in Seq(S) /\ Len(s) = n /\ \A k \in 1 .. n : s[k] = whole[k]
  BY DEF Prefix
<1>2. u \in Seq(S) /\ Len(u) = n + 1 /\ \A k \in 1 .. n + 1 : u[k] = whole[k]
  BY DEF Prefix
<1>3. x \in S
  OBVIOUS
<1> HIDE DEF s, u, x, S
<1>4. t \in Seq(S) /\ Len(t) = 1 /\ t[1] = x
  BY <1>3
<1> HIDE DEF t
<1>5. /\ s \o t \in Seq(S)
      /\ Len(s \o t) = Len(s) + Len(t)
      /\ \A k \in 1 .. Len(s) + Len(t) :
            (s \o t)[k] = IF k <= Len(s) THEN s[k] ELSE t[k - Len(s)]
  BY <1>1, <1>4, ConcatProperties, Zenon
<1>6. ASSUME NEW k \in 1 .. n + 1 PROVE (s \o t)[k] = u[k]
  <2>1. CASE k \in 1 .. n
    BY <1>1, <1>2, <1>5, <2>1
  <2>2. CASE k = n + 1
    BY <1>1, <1>2, <1>4, <1>5, <2>2 DEF x
  <2>3. k \in 1 .. n \/ k = n + 1
    OBVIOUS
  <2>4. QED
    BY <2>1, <2>2, <2>3
<1>7. s \o t = u
  BY <1>1, <1>2, <1>4, <1>5, <1>6, SeqEqual
<1>8. QED
  BY <1>7 DEF s, t, u, x


\* Counts of what has been appended.
LEMMA AppendedType ==
    ASSUME NEW i \in Interfaces, NEW s \in Speeds, NEW n \in 1 .. 25
    PROVE  Appended(i, s, n) \in Nat
BY DEF Appended, Clamp

\* A call that appends nothing leaves every count.
LEMMA AppendedStays ==
    ASSUME NEW n \in {1, 2, 3, 4, 5, 12, 15, 19, 22, 23, 24}, VC # VS
    PROVE  \A i \in Interfaces, s \in Speeds : Appended(i, s, n + 1) = Appended(i, s, n)
<1> SUFFICES ASSUME NEW i \in Interfaces, NEW s \in Speeds
             PROVE  Appended(i, s, n + 1) = Appended(i, s, n)
  OBVIOUS
<1> QED
  BY DEF Appended, Clamp, Interfaces, Speeds

\* One that does counts once, where it appends.
Steps(i, speed) ==
    IF i = VC THEN IF speed = "high" THEN {6, 7, 8} ELSE {9, 10, 11}
              ELSE IF speed = "high" THEN {13, 14, 16} ELSE {17, 18, 20, 21}

LEMMA AppendedGrows ==
    ASSUME VC # VS, NEW i \in Interfaces, NEW speed \in Speeds, NEW n \in Steps(i, speed)
    PROVE  \A j \in Interfaces, s \in Speeds :
              Appended(j, s, n + 1) = IF j = i /\ s = speed THEN Appended(j, s, n) + 1
                                                            ELSE Appended(j, s, n)
<1> SUFFICES ASSUME NEW j \in Interfaces, NEW s \in Speeds
             PROVE  Appended(j, s, n + 1) = IF j = i /\ s = speed
                                            THEN Appended(j, s, n) + 1
                                            ELSE Appended(j, s, n)
  OBVIOUS
<1>1. CASE i = VC /\ speed = "high"
  BY <1>1 DEF Steps, Appended, Clamp, Interfaces, Speeds
<1>2. CASE i = VC /\ speed = "super"
  BY <1>2 DEF Steps, Appended, Clamp, Interfaces, Speeds
<1>3. CASE i = VS /\ speed = "high"
  BY <1>3 DEF Steps, Appended, Clamp, Interfaces, Speeds
<1>4. CASE i = VS /\ speed = "super"
  BY <1>4 DEF Steps, Appended, Clamp, Interfaces, Speeds
<1>5. QED
  BY <1>1, <1>2, <1>3, <1>4 DEF Interfaces, Speeds

LEMMA DataStays ==
    ASSUME NEW n \in {1, 2, 3, 4, 5, 12, 15, 19, 22, 23, 24}, VC # VS, NEW base
    PROVE  Data(n + 1, base) = Data(n, base)
BY AppendedStays DEF Data

LEMMA DataGrows ==
    ASSUME VC # VS, NEW base, NEW i \in Interfaces, NEW speed \in Speeds,
           NEW n \in Steps(i, speed), NEW x,
           x = Whole(i, speed, base)[Appended(i, speed, n) + 1]
    PROVE  [Data(n, base) EXCEPT ![i][speed] = @ \o <<x>>] = Data(n + 1, base)
<1> DEFINE w == Whole(i, speed, base)
           c == Appended(i, speed, n)
<1>1. n \in 1 .. 25
  BY DEF Steps
<1>2. c \in Nat
  BY <1>1, AppendedType
<1>3. Prefix(w, c) \o <<x>> = Prefix(w, c + 1)
  BY <1>2, PrefixStep
<1>4. Data(n, base)[i][speed] \o <<x>> = Data(n + 1, base)[i][speed]
  BY <1>3, AppendedGrows DEF Data
<1>5. \A j \in Interfaces, s \in Speeds :
         j # i \/ s # speed => Data(n + 1, base)[j][s] = Data(n, base)[j][s]
  BY AppendedGrows DEF Data
<1> DEFINE old == Data(n, base)
           new == Data(n + 1, base)
           y   == old[i][speed] \o <<x>>
<1>6. /\ old = [j \in Interfaces |-> [s \in Speeds |-> old[j][s]]]
      /\ new = [j \in Interfaces |-> [s \in Speeds |-> new[j][s]]]
  BY DEF Data
<1>7. new[i][speed] = y /\ \A j \in Interfaces, s \in Speeds :
         j # i \/ s # speed => new[j][s] = old[j][s]
  BY <1>4, <1>5
<1> HIDE DEF old, new, y
<1>8. [old EXCEPT ![i][speed] = y] = new
  <2> DEFINE row == [old[i] EXCEPT ![speed] = y]
  <2>1. \A j \in Interfaces : /\ old[j] = [s \in Speeds |-> old[j][s]]
                              /\ new[j] = [s \in Speeds |-> new[j][s]]
    BY <1>6
  <2>2. row = [s \in Speeds |-> IF s = speed THEN y ELSE old[i][s]]
    BY <2>1
  <2>3. row = new[i]
    BY <1>7, <2>1, <2>2
  <2>4. \A j \in Interfaces : j # i => old[j] = new[j]
    BY <1>7, <2>1
  <2> HIDE DEF row
  <2>5. [old EXCEPT ![i] = row] = new
    BY <1>6, <2>3, <2>4
  <2>6. QED
    BY <2>5 DEF row
<1>9. QED
  BY <1>8 DEF old, new, y


(***************************************************************************)
(* Which call is made at which step.                                       *)
(***************************************************************************)
LEMMA CallAt ==
    /\ Script[1] = On(VC, "open")              /\ Script[2] = On(VC, "describe")
    /\ Script[3] = On(VC, "register")          /\ Script[4] = On(VS, "register")
    /\ Script[5] = On(VC, "number")
    /\ Script[6] = Append1(VC, "high", "iad")  /\ Script[7] = Append1(VC, "high", "vc")
    /\ Script[8] = Append1(VC, "high", "vcHeader")
    /\ Script[9] = Append1(VC, "super", "iad") /\ Script[10] = Append1(VC, "super", "vc")
    /\ Script[11] = Append1(VC, "super", "vcHeader")
    /\ Script[12] = On(VC, "enableInterface")
    /\ Script[13] = Append1(VS, "high", "vs")
    /\ Script[14] = Append1(VS, "high", "vsHeader")
    /\ Script[15] = Packet("high")
    /\ Script[16] = Append1(VS, "high", "endpoint")
    /\ Script[17] = Append1(VS, "super", "vs")
    /\ Script[18] = Append1(VS, "super", "vsHeader")
    /\ Script[19] = Packet("super")
    /\ Script[20] = Append1(VS, "super", "endpoint")
    /\ Script[21] = Append1(VS, "super", "companion")
    /\ Script[22] = On(VS, "registerEndpoint")
    /\ Script[23] = On(VS, "enableInterface")  /\ Script[24] = On(VC, "enable")
<1> HIDE DEF Script, VcCalls, VsCalls
<1>1. \A k \in 1 .. 7 : Script[5 + k] = VcCalls[k]
  BY ScriptCalls
<1>2. \A k \in 1 .. 11 : Script[12 + k] = VsCalls[k]
  BY ScriptCalls
<1>3. /\ Script[6] = VcCalls[1] /\ Script[7] = VcCalls[2] /\ Script[8] = VcCalls[3]
      /\ Script[9] = VcCalls[4] /\ Script[10] = VcCalls[5] /\ Script[11] = VcCalls[6]
      /\ Script[12] = VcCalls[7]
  BY <1>1
<1>4. /\ Script[13] = VsCalls[1] /\ Script[14] = VsCalls[2] /\ Script[15] = VsCalls[3]
      /\ Script[16] = VsCalls[4] /\ Script[17] = VsCalls[5] /\ Script[18] = VsCalls[6]
      /\ Script[19] = VsCalls[7] /\ Script[20] = VsCalls[8] /\ Script[21] = VsCalls[9]
      /\ Script[22] = VsCalls[10] /\ Script[23] = VsCalls[11]
  BY <1>2
<1>5. QED
  BY <1>3, <1>4, ScriptCalls, VcScript, VsScript, Zenon

KindsOf(i, speed) ==
    IF i = VC THEN <<"iad", "vc", "vcHeader">>
    ELSE IF speed = "high" THEN <<"vs", "vsHeader", "endpoint">>
         ELSE <<"vs", "vsHeader", "endpoint", "companion">>

LEMMA Calling ==
    ASSUME VC # VS, NEW k \in 1 .. 24, NEW c, c = Script[k]
    PROVE  /\ c.do = "open" => k = 1
           /\ c.do = "describe" => k = 2
           /\ c.do = "register" => (k = 3 /\ c.iface = VC) \/ (k = 4 /\ c.iface = VS)
           /\ c.do = "number" => k = 5
           /\ c.do = "packet" =>
                 (k = 15 /\ c.speed = "high") \/ (k = 19 /\ c.speed = "super")
           /\ c.do = "registerEndpoint" => k = 22
           /\ c.do = "enableInterface" =>
                 (k = 12 /\ c.iface = VC) \/ (k = 23 /\ c.iface = VS)
           /\ c.do = "enable" => k = 24
           /\ c.do = "append" =>
                 /\ c.iface \in Interfaces /\ c.speed \in Speeds
                 /\ k \in Steps(c.iface, c.speed)
                 /\ Appended(c.iface, c.speed, k) + 1 \in
                       1 .. (IF c.iface = VS /\ c.speed = "super" THEN 4 ELSE 3)
                 /\ c.kind =
                       KindsOf(c.iface, c.speed)[Appended(c.iface, c.speed, k) + 1]
<1> USE DEF Interfaces, Speeds
<1>1. CASE k \in {1, 2, 3, 4, 5, 12, 22, 23, 24}
  <2>1. c \in {On(VC, "open"), On(VC, "describe"), On(VC, "number"), On(VC, "enable"),
               On(VC, "register"), On(VS, "register"), On(VC, "enableInterface"),
               On(VS, "enableInterface"), On(VS, "registerEndpoint")}
    BY <1>1, CallAt
  <2>2. QED
    BY <1>1, CallAt DEF On
<1>2. CASE k \in {15, 19}
  BY <1>2, CallAt DEF Packet
<1>3. CASE k \in {6, 7, 8}
  BY <1>3, CallAt DEF Append1, Steps, Appended, Clamp, KindsOf
<1>4. CASE k \in {9, 10, 11}
  BY <1>4, CallAt DEF Append1, Steps, Appended, Clamp, KindsOf
<1>5. CASE k \in {13, 14, 16}
  BY <1>5, CallAt DEF Append1, Steps, Appended, Clamp, KindsOf
<1>6. CASE k \in {17, 18, 20, 21}
  BY <1>6, CallAt DEF Append1, Steps, Appended, Clamp, KindsOf
<1>7. QED
  BY <1>1, <1>2, <1>3, <1>4, <1>5, <1>6

\* What usb:ds copies of a descriptor is what the whole says, once the numbers
\* are in place and, for an endpoint, the packet size is the speed's.
LEMMA CopiesWhole ==
    ASSUME VC # VS, NEW base \in Nat, NEW i \in Interfaces, NEW speed \in Speeds,
           desc.iad = base, desc.vc = base, desc.vcHeader = base + 1,
           desc.vs = base + 1, desc.address = base + 2, desc.vsHeader = base + 2,
           NEW m \in 1 .. (IF i = VS /\ speed = "super" THEN 4 ELSE 3),
           i = VS /\ m = 3 => desc.packet = IF speed = "high" THEN 512 ELSE 1024
    PROVE  Copy(KindsOf(i, speed)[m]) = Whole(i, speed, base)[m]
<1>1. CASE i = VC
  <2>1. m \in {1, 2, 3}
    BY <1>1
  <2>2. QED
    BY <1>1, <2>1 DEF Copy, KindsOf, Whole
<1>2. CASE i = VS /\ speed = "high"
  <2>1. m \in {1, 2, 3}
    BY <1>2
  <2>2. QED
    BY <1>2, <2>1 DEF Copy, KindsOf, Whole
<1>3. CASE i = VS /\ speed = "super"
  <2>1. m \in {1, 2, 3, 4}
    BY <1>3
  <2>2. QED
    BY <1>3, <2>1 DEF Copy, KindsOf, Whole
<1>4. QED
  BY <1>1, <1>2, <1>3 DEF Interfaces, Speeds


(***************************************************************************)
(* The session, one call further.                                          *)
(***************************************************************************)
\* Which call changes which part of the session.
LEMMA RegisteredSteps ==
    ASSUME VC # VS
    PROVE  /\ Registered(2) = {} /\ Registered(3) = {} /\ Registered(4) = {VC}
           /\ Registered(5) = Registered(4) \union {VS}
           /\ \A n \in 5 .. 25 : Registered(n) = Interfaces
           /\ Cardinality(Registered(3)) = 0 /\ Cardinality(Registered(4)) = 1
<1>1. /\ Registered(2) = {} /\ Registered(3) = {} /\ Registered(4) = {VC}
      /\ Registered(5) = Registered(4) \union {VS}
      /\ \A n \in 5 .. 25 : Registered(n) = Interfaces
  BY DEF Registered, Numbered, Interfaces
<1>2. QED
  BY <1>1, FS_EmptySet, FS_Singleton

LEMMA EnabledSteps ==
    ASSUME VC # VS
    PROVE  /\ \A n \in 2 .. 12 : Enabled(n) = {}
           /\ \A n \in 13 .. 23 : Enabled(n) = {VC}
           /\ \A n \in 24 .. 25 : Enabled(n) = Interfaces
BY DEF Enabled, EnabledBy, Interfaces

LEMMA SessionOpens ==
    ASSUME VC # VS, NEW base
    PROVE  [NoSession EXCEPT !.open = TRUE, !.base = base] = Session(2, base)
<1> DEFINE empty == [i \in Interfaces |-> [s \in Speeds |-> << >>]]
<1>1. Data(2, base) = empty
  <2>1. \A i \in Interfaces, s \in Speeds : Appended(i, s, 2) = 0
    BY DEF Appended, Clamp, Interfaces, Speeds
  <2>2. \A w : Prefix(w, 0) = << >>
    BY DEF Prefix
  <2>3. QED
    BY <2>1, <2>2 DEF Data
<1>2. Registered(2) = {} /\ Enabled(2) = {}
  BY RegisteredSteps, EnabledSteps
<1>3. Endpoint(2, base) = Null /\ Running(2) = FALSE
  BY DEF Endpoint, Running
<1>4. NoSession = [open |-> FALSE, base |-> 0, registered |-> {}, enabled |-> {},
                   data |-> empty, endpoint |-> Null, on |-> FALSE]
  BY DEF NoSession
<1> DEFINE yes == TRUE
           no  == FALSE
           u(open, b) == Usb(open, b, {}, {}, empty, Null, no)
<1>5. NoSession = u(no, 0) /\ Session(2, base) = u(yes, base)
  BY <1>1, <1>2, <1>3, <1>4 DEF Session, Usb
<1> HIDE DEF empty, yes, no
<1>6. [u(no, 0) EXCEPT !.open = yes] = u(yes, 0)
  BY DEF Usb
<1>7. [u(yes, 0) EXCEPT !.base = base] = u(yes, base)
  BY DEF Usb
<1>8. [u(no, 0) EXCEPT !.open = yes, !.base = base] =
        [[u(no, 0) EXCEPT !.open = yes] EXCEPT !.base = base]
  OBVIOUS
<1> HIDE DEF u
<1>9. [u(no, 0) EXCEPT !.open = yes, !.base = base] = u(yes, base)
  BY <1>6, <1>7, <1>8, Zenon
<1>10. QED
  BY <1>5, <1>9 DEF yes

LEMMA SessionStays ==
    ASSUME VC # VS, NEW base, NEW n \in {2, 5, 15, 19}
    PROVE  Session(n + 1, base) = Session(n, base)
<1>1. Data(n + 1, base) = Data(n, base)
  BY DataStays
<1>2. Registered(n + 1) = Registered(n) /\ Enabled(n + 1) = Enabled(n)
  BY RegisteredSteps, EnabledSteps
<1>3. Endpoint(n + 1, base) = Endpoint(n, base) /\ Running(n + 1) = Running(n)
  BY DEF Endpoint, Running
<1>4. QED
  BY <1>1, <1>2, <1>3, Zenon DEF Session

LEMMA SessionRegisters ==
    ASSUME VC # VS, NEW base, NEW n \in {3, 4}, NEW i,
           i = IF n = 3 THEN VC ELSE VS
    PROVE  [Session(n, base) EXCEPT !.registered = @ \union {i}] = Session(n + 1, base)
<1> DEFINE yes == TRUE
<1>a. \A k : Session(k, base) = Usb(yes, base, Registered(k), Enabled(k),
                              Data(k, base), Endpoint(k, base), Running(k))
  BY DEF Session
<1> HIDE DEF yes
<1>1. Data(n + 1, base) = Data(n, base)
  BY DataStays
<1>2. Registered(n + 1) = Registered(n) \union {i} /\ Enabled(n + 1) = Enabled(n)
  BY RegisteredSteps, EnabledSteps
<1>3. Endpoint(n + 1, base) = Endpoint(n, base) /\ Running(n + 1) = Running(n)
  BY DEF Endpoint, Running
<1>4. [Session(n, base) EXCEPT !.registered = @ \union {i}] =
        Usb(yes, base, Registered(n) \union {i}, Enabled(n), Data(n, base),
               Endpoint(n, base), Running(n))
  BY <1>a DEF Usb
<1>5. QED
  BY <1>1, <1>2, <1>3, <1>4, <1>a, Zenon

LEMMA SessionEnables ==
    ASSUME VC # VS, NEW base, NEW n \in {12, 23}, NEW i,
           i = IF n = 12 THEN VC ELSE VS
    PROVE  [Session(n, base) EXCEPT !.enabled = @ \union {i}] = Session(n + 1, base)
<1> DEFINE yes == TRUE
<1>a. \A k : Session(k, base) = Usb(yes, base, Registered(k), Enabled(k),
                              Data(k, base), Endpoint(k, base), Running(k))
  BY DEF Session
<1> HIDE DEF yes
<1>1. Data(n + 1, base) = Data(n, base)
  BY DataStays
<1>2. Registered(n + 1) = Registered(n) /\ Enabled(n + 1) = Enabled(n) \union {i}
  BY RegisteredSteps, EnabledSteps DEF Interfaces
<1>3. Endpoint(n + 1, base) = Endpoint(n, base) /\ Running(n + 1) = Running(n)
  BY DEF Endpoint, Running
<1>4. [Session(n, base) EXCEPT !.enabled = @ \union {i}] =
        Usb(yes, base, Registered(n), Enabled(n) \union {i}, Data(n, base),
               Endpoint(n, base), Running(n))
  BY <1>a DEF Usb
<1>5. QED
  BY <1>1, <1>2, <1>3, <1>4, <1>a, Zenon

AppendTo(session, i, speed, x) == [session EXCEPT !.data[i][speed] = @ \o <<x>>]

LEMMA SessionAppends ==
    ASSUME VC # VS, NEW base, NEW i \in Interfaces, NEW speed \in Speeds,
           NEW n \in Steps(i, speed), NEW x,
           x = Whole(i, speed, base)[Appended(i, speed, n) + 1]
    PROVE  AppendTo(Session(n, base), i, speed, x) = Session(n + 1, base)
<1> DEFINE yes == TRUE
<1>a. \A k : Session(k, base) = Usb(yes, base, Registered(k), Enabled(k),
                              Data(k, base), Endpoint(k, base), Running(k))
  BY DEF Session
<1> HIDE DEF yes
<1> DEFINE data == [Data(n, base) EXCEPT ![i][speed] = @ \o <<x>>]
<1>1. data = Data(n + 1, base)
  BY DataGrows
<1>2. n \in 6 .. 21 /\ n # 12
  BY DEF Steps
<1>3. Registered(n + 1) = Registered(n) /\ Enabled(n + 1) = Enabled(n)
  BY <1>2, RegisteredSteps, EnabledSteps
<1>4. Endpoint(n + 1, base) = Endpoint(n, base) /\ Running(n + 1) = Running(n)
  BY <1>2 DEF Endpoint, Running
<1>5. Session(n, base).data = Data(n, base)
  BY <1>a DEF Usb
<1>6. AppendTo(Session(n, base), i, speed, x) =
        [Session(n, base) EXCEPT !.data = data]
  <2> DEFINE session == Session(n, base)
  <2>1. session.data = Data(n, base)
    BY <1>5
  <2> HIDE DEF session
  <2>2. [session EXCEPT !.data[i][speed] = @ \o <<x>>] =
           [session EXCEPT !.data = [session.data EXCEPT ![i][speed] = @ \o <<x>>]]
    OBVIOUS
  <2>3. QED
    BY <2>1, <2>2 DEF session, AppendTo
<1> HIDE DEF data
<1>7. [Session(n, base) EXCEPT !.data = data] =
        Usb(yes, base, Registered(n), Enabled(n), data, Endpoint(n, base), Running(n))
  BY <1>a DEF Usb
<1>8. QED
  BY <1>1, <1>3, <1>4, <1>6, <1>7, <1>a, Zenon

LEMMA SessionEnds ==
    ASSUME VC # VS, NEW base
    PROVE  /\ [Session(22, base) EXCEPT !.endpoint = base + 2] = Session(23, base)
           /\ [Session(24, base) EXCEPT !.on = TRUE] = Session(25, base)
<1> DEFINE yes == TRUE
<1>0. Running(25) = yes
  BY DEF Running
<1>a. \A k : Session(k, base) = Usb(yes, base, Registered(k), Enabled(k),
                              Data(k, base), Endpoint(k, base), Running(k))
  BY DEF Session
<1> HIDE DEF yes
<1>1. Data(22 + 1, base) = Data(22, base) /\ Data(24 + 1, base) = Data(24, base)
  BY DataStays
<1>b. Data(23, base) = Data(22, base) /\ Data(25, base) = Data(24, base)
  BY <1>1
<1>2. /\ Registered(23) = Registered(22) /\ Enabled(23) = Enabled(22)
      /\ Registered(25) = Registered(24) /\ Enabled(25) = Enabled(24)
  BY RegisteredSteps, EnabledSteps
<1>3. /\ Endpoint(23, base) = base + 2 /\ Running(23) = Running(22)
      /\ Endpoint(25, base) = Endpoint(24, base)
  BY DEF Endpoint, Running
<1>4. [Session(22, base) EXCEPT !.endpoint = base + 2] =
        Usb(yes, base, Registered(22), Enabled(22), Data(22, base), base + 2, Running(22))
  BY <1>a DEF Usb
<1>5. [Session(24, base) EXCEPT !.on = yes] =
        Usb(yes, base, Registered(24), Enabled(24), Data(24, base), Endpoint(24, base),
            yes)
  BY <1>a DEF Usb
<1>6. /\ [Session(22, base) EXCEPT !.endpoint = base + 2] = Session(23, base)
      /\ [Session(24, base) EXCEPT !.on = yes] = Session(25, base)
  BY <1>0, <1>b, <1>2, <1>3, <1>4, <1>5, <1>a, Zenon
<1>7. QED
  BY <1>6 DEF yes

\* The parts of a session.
LEMMA SessionParts ==
    ASSUME NEW n, NEW base
    PROVE  /\ Session(n, base).base = base
           /\ Session(n, base).registered = Registered(n)
           /\ Session(n, base).enabled = Enabled(n)
           /\ Session(n, base).data = Data(n, base)
           /\ Session(n, base).endpoint = Endpoint(n, base)
           /\ Session(n, base).open /\ (Session(n, base).on <=> n > 24)
           /\ Session(n, base).open \in BOOLEAN /\ Session(n, base).on \in BOOLEAN
<1> DEFINE yes == TRUE
           on  == Running(n)
<1>1. Session(n, base) = Usb(yes, base, Registered(n), Enabled(n), Data(n, base),
                             Endpoint(n, base), on)
  BY DEF Session
<1>2. yes /\ (on <=> n > 24) /\ yes \in BOOLEAN /\ on \in BOOLEAN
  BY DEF Running
<1> HIDE DEF yes, on
<1>3. /\ Session(n, base).base = base
      /\ Session(n, base).registered = Registered(n)
      /\ Session(n, base).enabled = Enabled(n)
      /\ Session(n, base).data = Data(n, base)
      /\ Session(n, base).endpoint = Endpoint(n, base)
      /\ Session(n, base).open = yes /\ Session(n, base).on = on
  BY <1>1 DEF Usb
<1>4. QED
  BY <1>2, <1>3, Zenon

(***************************************************************************)
(* The invariant.                                                          *)
(***************************************************************************)
LEMMA InvInit == Init => IInv
<1> SUFFICES ASSUME Init PROVE IInv
  OBVIOUS
<1>1. Typed
  <2>1. desc \in [iad : Nat, vc : Nat, vcHeader : Nat, vs : Nat,
                  address : Nat \ {0}, vsHeader : Nat \ {0}, packet : {512, 1024}]
    BY DEF Init, StaticDescriptors
  <2>2. ctx \in [Interfaces -> Nat \union {Null}]
    BY DEF Init
  <2>3. initialized \in BOOLEAN /\ hos5 \in BOOLEAN
    BY DEF Init
  <2>4. pc = "out" /\ step = 0 /\ result = "none"
    BY DEF Init
  <2>5. QED
    BY <2>1, <2>2, <2>3, <2>4 DEF Typed
<1>2. Made = 1 /\ usb = NoSession
  BY DEF Init, Made
<1>3. Described
  BY <1>2 DEF Described
<1>4. QED
  BY <1>1, <1>3 DEF IInv

\* What makes the next state a described one.
LEMMA DescribedNext ==
    ASSUME NEW n \in 2 .. 25, NEW base \in Nat, Made' = n, usb' = Session(n, base),
           n > 3 => ctx'[VC] = base,
           n > 4 => ctx'[VS] = base + 1,
           n > 5 => /\ desc'.iad = base /\ desc'.vc = base
                    /\ desc'.vcHeader = base + 1 /\ desc'.vs = base + 1
                    /\ desc'.address = base + 2 /\ desc'.vsHeader = base + 2,
           n = 16 => desc'.packet = 512,
           n = 20 => desc'.packet = 1024
    PROVE  Described'
<1>1. usb'.base = base
  BY SessionParts
<1>2. QED
  BY <1>1 DEF Described

\* An attempt that has failed is as if it had not been made.
LEMMA FailureForgets ==
    ASSUME Typed, pc' = "out", step' = 0, UNCHANGED <<initialized, ctx, desc, hos5>>,
           ~initialized, usb' = NoSession, result' \in {"failed", "incompatible"}
    PROVE  IInv'
<1>1. Typed'
  BY DEF Typed
<1>2. Made' = 1
  BY DEF Made
<1>3. Described'
  BY <1>2 DEF Described
<1>4. QED
  BY <1>1, <1>3 DEF IInv

\* The next call, and what the session is before it.
LEMMA AtCall ==
    ASSUME IInv, pc = "init"
    PROVE  /\ step \in 1 .. 24 /\ Made = step /\ ~initialized
           /\ step = 1 => usb = NoSession
           /\ step > 1 => usb.base \in Nat /\ usb = Session(step, usb.base)
           /\ step > 3 => ctx[VC] = usb.base
           /\ step > 4 => ctx[VS] = usb.base + 1
           /\ step > 5 => /\ desc.iad = usb.base /\ desc.vc = usb.base
                          /\ desc.vcHeader = usb.base + 1 /\ desc.vs = usb.base + 1
                          /\ desc.address = usb.base + 2
                          /\ desc.vsHeader = usb.base + 2
           /\ step = 16 => desc.packet = 512
           /\ step = 20 => desc.packet = 1024
<1>1. step \in 1 .. 24 /\ Made = step /\ ~initialized
  BY DEF IInv, Typed, Made
<1>2. QED
  BY <1>1 DEF IInv, Described

\* A call that is not the last one.
LEMMA OneFurther ==
    ASSUME IInv, pc = "init", Proceed, step # 24
    PROVE  /\ step + 1 \in 2 .. 24 /\ Made' = step + 1
           /\ pc' = "init" /\ step' = step + 1 /\ UNCHANGED <<result, initialized, hos5>>
<1>1. step \in 1 .. 24
  BY AtCall
<1>2. QED
  BY <1>1 DEF Proceed, Made

LEMMA InvBoundary ==
    ASSUME IInv, Initialize \/ InitializeAgain \/ Exit \/ OpenFails PROVE IInv'
<1> USE DEF IInv
<1>1. CASE Initialize
  <2>1. Typed'
    BY <1>1 DEF Initialize, Typed
  <2>2. Made = 1 /\ Made' = 1 /\ usb' = usb
    BY <1>1 DEF Initialize, Made
  <2>3. QED
    BY <2>1, <2>2 DEF Described
<1>2. CASE InitializeAgain
  <2>1. Typed'
    BY <1>2 DEF InitializeAgain, Returns, Typed
  <2>2. Made' = Made /\ UNCHANGED <<usb, ctx, desc>>
    BY <1>2 DEF InitializeAgain, Returns, Made
  <2>3. QED
    BY <2>1, <2>2 DEF Described
<1>3. CASE Exit
  <2>1. Typed'
    BY <1>3 DEF Exit, Typed
  <2>2. Made' = 1 /\ usb' = NoSession
    BY <1>3 DEF Exit, Made
  <2>3. QED
    BY <2>1, <2>2 DEF Described
<1>4. CASE OpenFails
  <2>1. Typed'
    BY <1>4 DEF OpenFails, At, Returns, Typed
  <2>2. step = 1
    BY <1>4, AtCall, Calling, ConstantsAssumption DEF OpenFails, At
  <2>3. Made = 1 /\ Made' = 1 /\ usb' = usb
    BY <1>4, <2>2, AtCall DEF OpenFails, At, Returns, Made
  <2>4. QED
    BY <2>1, <2>3 DEF Described
<1>5. QED
  BY <1>1, <1>2, <1>3, <1>4

LEMMA InvFailure ==
    ASSUME IInv, IncompatibleFirmware \/ CallFails PROVE IInv'
<1>1. pc = "init"
  BY DEF IncompatibleFirmware, CallFails, At
<1>2. ~initialized /\ Typed
  BY <1>1, AtCall DEF IInv
<1>3. /\ usb' = NoSession /\ pc' = "out" /\ step' = 0
      /\ UNCHANGED <<initialized, ctx, desc, hos5>>
      /\ result' \in {"failed", "incompatible"}
  BY DEF IncompatibleFirmware, CallFails, CleanUp, Returns
<1>4. QED
  BY <1>2, <1>3, FailureForgets

LEMMA InvOpening ==
    ASSUME IInv, Open \/ Describe \/ NumberDescriptors PROVE IInv'
<1>1. CASE Open
  <2>1. PICK base \in Bases : usb' = [NoSession EXCEPT !.open = TRUE, !.base = base]
    BY <1>1 DEF Open
  <2>a. pc = "init" /\ Script[step].do = "open" /\ Proceed /\ UNCHANGED <<ctx, desc>>
    BY <1>1, Zenon DEF Open, At
  <2>2. step = 1
    BY <2>a, AtCall, Calling, ConstantsAssumption
  <2>3. usb' = Session(2, base) /\ base \in Nat
    BY <2>1, SessionOpens, ConstantsAssumption
  <2>4. Made' = 2
    BY <2>a, <2>2, OneFurther
  <2>5. Described'
    BY <2>3, <2>4, DescribedNext
  <2>6. Typed'
    BY <2>a, <2>2 DEF IInv, Typed, Proceed
  <2>7. QED
    BY <2>5, <2>6 DEF IInv
<1>2. CASE Describe
  <2>1. pc = "init" /\ step = 2 /\ Proceed /\ UNCHANGED <<ctx, desc, usb>>
    BY <1>2, AtCall, Calling, ConstantsAssumption DEF Describe, At
  <2>2. usb' = Session(3, usb.base) /\ usb.base \in Nat
    BY <2>1, AtCall, SessionStays, ConstantsAssumption
  <2>3. Made' = 3
    BY <2>1, OneFurther
  <2>4. Described'
    BY <2>2, <2>3, DescribedNext
  <2>5. Typed'
    BY <2>1 DEF IInv, Typed, Proceed
  <2>6. QED
    BY <2>4, <2>5 DEF IInv
<1>3. CASE NumberDescriptors
  <2> DEFINE base == usb.base
  <2>1. pc = "init" /\ step = 5 /\ Proceed /\ UNCHANGED <<ctx, usb>>
    BY <1>3, AtCall, Calling, ConstantsAssumption DEF NumberDescriptors, At
  <2>2. /\ base \in Nat /\ usb = Session(5, base)
        /\ ctx[VC] = base /\ ctx[VS] = base + 1
    BY <2>1, AtCall
  <2>3. usb' = Session(6, base)
    BY <2>1, <2>2, SessionStays, ConstantsAssumption
  <2>a. desc \in [iad : Nat, vc : Nat, vcHeader : Nat, vs : Nat,
                  address : Nat \ {0}, vsHeader : Nat \ {0}, packet : {512, 1024}]
    BY DEF IInv, Typed
  <2> DEFINE number == base + 1
             address == base + 2
  <2>b. /\ ctx[VC] = base /\ ctx[VS] = number /\ AddressFor(ctx[VS]) = address
        /\ base \in Nat /\ number \in Nat /\ address \in Nat \ {0}
    BY <2>2 DEF AddressFor
  <2> HIDE DEF base, number, address
  <2>c. desc' = [iad |-> base, vc |-> base, vcHeader |-> number, vs |-> number,
                 address |-> address, vsHeader |-> address, packet |-> desc.packet]
    <3>1. desc' = [desc EXCEPT !.iad = base, !.vc = base, !.vcHeader = number,
                               !.vs = number, !.address = address, !.vsHeader = address]
      BY <1>3, <2>b, Zenon DEF NumberDescriptors
    <3> DEFINE d1 == [desc EXCEPT !.iad = base]
               d2 == [d1 EXCEPT !.vc = base]
               d3 == [d2 EXCEPT !.vcHeader = number]
               d4 == [d3 EXCEPT !.vs = number]
               d5 == [d4 EXCEPT !.address = address]
               d6 == [d5 EXCEPT !.vsHeader = address]
    <3>2. desc' = d6
      BY <3>1
    <3>3. desc = [iad |-> desc.iad, vc |-> desc.vc, vcHeader |-> desc.vcHeader,
                  vs |-> desc.vs, address |-> desc.address,
                  vsHeader |-> desc.vsHeader, packet |-> desc.packet]
      BY <2>a
    <3>4. d1 = [iad |-> base, vc |-> desc.vc, vcHeader |-> desc.vcHeader,
                vs |-> desc.vs, address |-> desc.address,
                vsHeader |-> desc.vsHeader, packet |-> desc.packet]
      BY <3>3
    <3> HIDE DEF d1
    <3>5. d2 = [iad |-> base, vc |-> base, vcHeader |-> desc.vcHeader,
                vs |-> desc.vs, address |-> desc.address,
                vsHeader |-> desc.vsHeader, packet |-> desc.packet]
      BY <3>4
    <3> HIDE DEF d2
    <3>6. d3 = [iad |-> base, vc |-> base, vcHeader |-> number,
                vs |-> desc.vs, address |-> desc.address,
                vsHeader |-> desc.vsHeader, packet |-> desc.packet]
      BY <3>5
    <3> HIDE DEF d3
    <3>7. d4 = [iad |-> base, vc |-> base, vcHeader |-> number,
                vs |-> number, address |-> desc.address,
                vsHeader |-> desc.vsHeader, packet |-> desc.packet]
      BY <3>6
    <3> HIDE DEF d4
    <3>8. d5 = [iad |-> base, vc |-> base, vcHeader |-> number,
                vs |-> number, address |-> address,
                vsHeader |-> desc.vsHeader, packet |-> desc.packet]
      BY <3>7
    <3> HIDE DEF d5
    <3>9. QED
      BY <3>2, <3>8
  <2>d. desc' \in [iad : Nat, vc : Nat, vcHeader : Nat, vs : Nat,
                   address : Nat \ {0}, vsHeader : Nat \ {0}, packet : {512, 1024}]
    BY <2>a, <2>b, <2>c
  <2>4. /\ desc'.iad = base /\ desc'.vc = base
        /\ desc'.vcHeader = base + 1 /\ desc'.vs = base + 1
        /\ desc'.address = base + 2 /\ desc'.vsHeader = base + 2
    BY <2>c DEF number, address
  <2>5. Made' = 6
    BY <2>1, OneFurther
  <2>6. Described'
    BY <2>1, <2>2, <2>3, <2>4, <2>5, DescribedNext
  <2>7. Typed'
    BY <2>1, <2>d DEF IInv, Typed, Proceed
  <2>8. QED
    BY <2>6, <2>7 DEF IInv
<1>4. QED
  BY <1>1, <1>2, <1>3

LEMMA InvRegistering ==
    ASSUME IInv, RegisterInterface PROVE IInv'
<1> DEFINE base == usb.base
           i == Current.iface
           number == base + Cardinality(usb.registered)
<1>1. pc = "init" /\ Script[step].do = "register" /\ Proceed /\ UNCHANGED desc
  BY DEF RegisterInterface, At
<1>2. step \in {3, 4} /\ i = IF step = 3 THEN VC ELSE VS
  BY <1>1, AtCall, Calling, ConstantsAssumption DEF Current
<1>3. base \in Nat /\ usb = Session(step, base) /\ (step > 3 => ctx[VC] = base)
  BY <1>1, <1>2, AtCall
<1>4. usb.registered = Registered(step)
  BY <1>3, SessionParts
<1>5. number = IF step = 3 THEN base ELSE base + 1
  BY <1>2, <1>3, <1>4, RegisteredSteps, ConstantsAssumption
<1>6. ctx' = [ctx EXCEPT ![i] = number] /\ usb' = [usb EXCEPT !.registered = @ \union {i}]
  BY DEF RegisterInterface
<1> HIDE DEF number, i, base
<1>7. ctx \in [Interfaces -> Nat \union {Null}] /\ number \in Nat /\ i \in Interfaces
  BY <1>2, <1>3, <1>5 DEF IInv, Typed, Interfaces
<1>8. /\ ctx' \in [Interfaces -> Nat \union {Null}]
      /\ ctx'[VC] = base /\ (step = 4 => ctx'[VS] = base + 1)
  BY <1>2, <1>3, <1>5, <1>6, <1>7, ConstantsAssumption DEF Interfaces
<1>9. usb' = Session(step + 1, base)
  BY <1>2, <1>3, <1>6, SessionRegisters, ConstantsAssumption
<1> DEFINE n == step + 1
<1>10. Made' = n /\ n \in {4, 5} /\ (n > 4 => step = 4)
  BY <1>1, <1>2, OneFurther
<1>a. usb' = Session(n, base)
  BY <1>9
<1> HIDE DEF n
<1>11. Described'
  <2>1. /\ n \in 2 .. 25 /\ Made' = n /\ usb' = Session(n, base)
        /\ base \in Nat
        /\ n > 3 => ctx'[VC] = base
        /\ n > 4 => ctx'[VS] = base + 1
        /\ ~(n > 5) /\ n # 16 /\ n # 20
    BY <1>3, <1>8, <1>10, <1>a
  <2>2. QED
    BY <2>1, DescribedNext, Zenon
<1>12. Typed'
  BY <1>1, <1>2, <1>8 DEF IInv, Typed, Proceed
<1>13. QED
  BY <1>11, <1>12 DEF IInv

LEMMA InvAppending ==
    ASSUME IInv, AppendConfigurationData PROVE IInv'
<1> DEFINE base == usb.base
           i == Current.iface
           speed == Current.speed
           m == Appended(i, speed, step) + 1
           x == Copy(Current.kind)
<1>1. pc = "init" /\ Script[step].do = "append" /\ Proceed /\ UNCHANGED <<ctx, desc>>
  BY DEF AppendConfigurationData, At
<1>a. usb' = AppendTo(usb, i, speed, x)
  BY DEF AppendConfigurationData, AppendTo
<1>2. step \in 1 .. 24
  BY <1>1, AtCall
<1>3. /\ i \in Interfaces /\ speed \in Speeds /\ step \in Steps(i, speed)
      /\ m \in 1 .. (IF i = VS /\ speed = "super" THEN 4 ELSE 3)
      /\ Current.kind = KindsOf(i, speed)[m]
  BY <1>1, <1>2, Calling, ConstantsAssumption DEF Current
<1>4. step \in 6 .. 21 /\ step # 15 /\ step # 19
  BY <1>3 DEF Steps
<1>5. /\ base \in Nat /\ usb = Session(step, base)
      /\ ctx[VC] = base /\ ctx[VS] = base + 1
      /\ desc.iad = base /\ desc.vc = base /\ desc.vcHeader = base + 1
      /\ desc.vs = base + 1 /\ desc.address = base + 2 /\ desc.vsHeader = base + 2
      /\ step = 16 => desc.packet = 512
      /\ step = 20 => desc.packet = 1024
  BY <1>1, <1>4, AtCall
<1>6. i = VS /\ m = 3 => step = IF speed = "high" THEN 16 ELSE 20
  BY <1>3, ConstantsAssumption DEF Steps, Appended, Clamp, Speeds
<1>7. i = VS /\ m = 3 => desc.packet = IF speed = "high" THEN 512 ELSE 1024
  BY <1>3, <1>5, <1>6 DEF Speeds
<1> HIDE DEF base, i, speed, m, x
<1>8. Copy(KindsOf(i, speed)[m]) = Whole(i, speed, base)[m]
  BY <1>3, <1>5, <1>7, CopiesWhole, ConstantsAssumption
<1>9. x = Whole(i, speed, base)[m]
  BY <1>3, <1>8 DEF x
<1>10. x = Whole(i, speed, base)[Appended(i, speed, step) + 1]
  BY <1>9 DEF m
<1>11. VC # VS
  BY ConstantsAssumption
<1>b. usb' = Session(step + 1, base)
  BY <1>a, <1>3, <1>5, <1>10, <1>11, SessionAppends
<1> DEFINE n == step + 1
<1>12. usb' = Session(n, base)
  BY <1>b
<1>13. Made' = n /\ n \in 7 .. 22 /\ n # 16 /\ n # 20
  BY <1>1, <1>4, OneFurther
<1> HIDE DEF n
<1>14. Described'
  <2>1. /\ n \in 2 .. 25 /\ Made' = n /\ usb' = Session(n, base)
        /\ base \in Nat /\ n # 16 /\ n # 20
        /\ ctx'[VC] = base /\ ctx'[VS] = base + 1
        /\ desc'.iad = base /\ desc'.vc = base
        /\ desc'.vcHeader = base + 1 /\ desc'.vs = base + 1
        /\ desc'.address = base + 2 /\ desc'.vsHeader = base + 2
    BY <1>1, <1>5, <1>12, <1>13
  <2>2. QED
    BY <2>1, DescribedNext, Zenon
<1>15. Typed'
  BY <1>1, <1>4 DEF IInv, Typed, Proceed
<1>16. QED
  BY <1>14, <1>15 DEF IInv

LEMMA InvSizing ==
    ASSUME IInv, SetPacketSize PROVE IInv'
<1> DEFINE base == usb.base
           n == step + 1
           size == PacketSizeOf(Current.speed)
<1>1. pc = "init" /\ Script[step].do = "packet" /\ Proceed /\ UNCHANGED <<ctx, usb>>
  BY DEF SetPacketSize, At
<1>2. /\ (step = 15 /\ size = 512) \/ (step = 19 /\ size = 1024)
      /\ step \in {15, 19}
  BY <1>1, AtCall, Calling, ConstantsAssumption DEF Current, PacketSizeOf
<1>3. /\ base \in Nat /\ usb = Session(step, base)
      /\ ctx[VC] = base /\ ctx[VS] = base + 1
      /\ desc.iad = base /\ desc.vc = base /\ desc.vcHeader = base + 1
      /\ desc.vs = base + 1 /\ desc.address = base + 2 /\ desc.vsHeader = base + 2
  BY <1>1, <1>2, AtCall
<1>4. usb' = Session(n, base)
  BY <1>1, <1>2, <1>3, SessionStays, ConstantsAssumption
<1>5. Made' = n /\ n \in 2 .. 25 /\ (n = 16 => size = 512) /\ (n = 20 => size = 1024)
  BY <1>1, <1>2, OneFurther
<1>6. desc \in [iad : Nat, vc : Nat, vcHeader : Nat, vs : Nat,
                address : Nat \ {0}, vsHeader : Nat \ {0}, packet : {512, 1024}]
  BY DEF IInv, Typed
<1>7. size \in {512, 1024} /\ desc' = [desc EXCEPT !.packet = size]
  BY DEF SetPacketSize, PacketSizeOf
<1>8. Typed'
  BY <1>1, <1>2, <1>6, <1>7 DEF IInv, Typed, Proceed
<1> HIDE DEF base, n, size
<1>9. /\ desc'.packet = size /\ desc'.iad = desc.iad /\ desc'.vc = desc.vc
      /\ desc'.vcHeader = desc.vcHeader /\ desc'.vs = desc.vs
      /\ desc'.address = desc.address /\ desc'.vsHeader = desc.vsHeader
  BY <1>6, <1>7
<1>10. Described'
  <2>1. /\ n \in 2 .. 25 /\ Made' = n /\ usb' = Session(n, base) /\ base \in Nat
        /\ (n = 16 => desc'.packet = 512) /\ (n = 20 => desc'.packet = 1024)
        /\ ctx'[VC] = base /\ ctx'[VS] = base + 1
        /\ desc'.iad = base /\ desc'.vc = base
        /\ desc'.vcHeader = base + 1 /\ desc'.vs = base + 1
        /\ desc'.address = base + 2 /\ desc'.vsHeader = base + 2
    BY <1>1, <1>3, <1>4, <1>5, <1>9
  <2>2. QED
    BY <2>1, DescribedNext, Zenon
<1>11. QED
  BY <1>8, <1>10 DEF IInv

\* The calls that only change the session: what usb' is decides.
LEMMA InvLater ==
    ASSUME IInv, pc = "init", step \in {12, 22, 23, 24}, UNCHANGED <<ctx, desc>>,
           Made' = step + 1, usb' = Session(step + 1, usb.base)
    PROVE  Described'
<1> DEFINE base == usb.base
           n == step + 1
<1>1. /\ base \in Nat
      /\ ctx[VC] = base /\ ctx[VS] = base + 1
      /\ desc.iad = base /\ desc.vc = base /\ desc.vcHeader = base + 1
      /\ desc.vs = base + 1 /\ desc.address = base + 2 /\ desc.vsHeader = base + 2
  BY AtCall
<1>2. /\ n \in 2 .. 25 /\ n # 16 /\ n # 20 /\ Made' = n /\ usb' = Session(n, base)
  OBVIOUS
<1> HIDE DEF base, n
<1>3. /\ ctx'[VC] = base /\ ctx'[VS] = base + 1
      /\ desc'.iad = base /\ desc'.vc = base
      /\ desc'.vcHeader = base + 1 /\ desc'.vs = base + 1
      /\ desc'.address = base + 2 /\ desc'.vsHeader = base + 2
  BY <1>1
<1>4. QED
  BY <1>1, <1>2, <1>3, DescribedNext, Zenon

LEMMA InvFinishing ==
    ASSUME IInv, RegisterEndpoint \/ EnableInterface \/ Enable PROVE IInv'
<1> DEFINE base == usb.base
<1>1. CASE RegisterEndpoint
  <2>1. /\ pc = "init" /\ Script[step].do = "registerEndpoint" /\ Proceed
        /\ UNCHANGED <<ctx, desc>>
    BY <1>1 DEF RegisterEndpoint, At
  <2>2. step = 22
    BY <2>1, AtCall, Calling, ConstantsAssumption
  <2>3. usb = Session(22, base) /\ desc.address = base + 2
    BY <2>1, <2>2, AtCall
  <2>4. usb' = [usb EXCEPT !.endpoint = base + 2]
    BY <1>1, <2>3 DEF RegisterEndpoint
  <2>5. usb' = Session(23, base)
    BY <2>3, <2>4, SessionEnds, ConstantsAssumption
  <2>6. Made' = step + 1
    BY <2>1, <2>2, OneFurther
  <2>7. Described'
    BY <2>1, <2>2, <2>5, <2>6, InvLater
  <2>8. Typed'
    BY <2>1, <2>2 DEF IInv, Typed, Proceed
  <2>9. QED
    BY <2>7, <2>8 DEF IInv
<1>2. CASE EnableInterface
  <2> DEFINE i == Current.iface
  <2>1. /\ pc = "init" /\ Script[step].do = "enableInterface" /\ Proceed
        /\ UNCHANGED <<ctx, desc>>
    BY <1>2 DEF EnableInterface, At
  <2>2. step \in {12, 23} /\ i = IF step = 12 THEN VC ELSE VS
    BY <2>1, AtCall, Calling, ConstantsAssumption DEF Current
  <2>3. usb = Session(step, base)
    BY <2>1, <2>2, AtCall
  <2>4. usb' = [usb EXCEPT !.enabled = @ \union {i}]
    BY <1>2 DEF EnableInterface
  <2> HIDE DEF i
  <2>5. usb' = Session(step + 1, base)
    <3>1. [Session(step, base) EXCEPT !.enabled = @ \union {i}] = Session(step + 1, base)
      BY <2>2, SessionEnables, ConstantsAssumption
    <3>2. QED
      BY <2>3, <2>4, <3>1
  <2>6. Made' = step + 1
    BY <2>1, <2>2, OneFurther
  <2>7. Described'
    BY <2>1, <2>2, <2>5, <2>6, InvLater
  <2>8. Typed'
    BY <2>1, <2>2 DEF IInv, Typed, Proceed
  <2>9. QED
    BY <2>7, <2>8 DEF IInv
<1>3. CASE Enable
  <2>1. /\ pc = "init" /\ Script[step].do = "enable" /\ UNCHANGED <<ctx, desc, hos5>>
        /\ pc' = "out" /\ step' = 0 /\ result' = "ok" /\ initialized'
    BY <1>3 DEF Enable, At, Returns
  <2>a. initialized' \in BOOLEAN
    BY <1>3 DEF Enable
  <2>2. step = 24
    BY <2>1, AtCall, Calling, ConstantsAssumption
  <2>3. usb = Session(24, base)
    BY <2>1, <2>2, AtCall
  <2>4. usb' = [usb EXCEPT !.on = TRUE]
    BY <1>3 DEF Enable
  <2>5. usb' = Session(25, base)
    BY <2>3, <2>4, SessionEnds, ConstantsAssumption, Zenon
  <2>6. Made' = step + 1
    BY <2>1, <2>2 DEF Made
  <2>7. Described'
    BY <2>1, <2>2, <2>5, <2>6, InvLater
  <2>8. Typed'
    BY <2>1, <2>a DEF IInv, Typed
  <2>9. QED
    BY <2>7, <2>8 DEF IInv
<1>4. QED
  BY <1>1, <1>2, <1>3

LEMMA InvStep == IInv /\ [Next]_vars => IInv'
<1> SUFFICES ASSUME IInv, [Next]_vars PROVE IInv'
  OBVIOUS
<1>1. CASE UNCHANGED vars
  <2>1. Typed'
    BY <1>1 DEF IInv, Typed, vars
  <2>2. Made' = Made /\ UNCHANGED <<usb, ctx, desc>>
    BY <1>1 DEF Made, vars
  <2>3. Described'
    BY <2>2 DEF IInv, Described
  <2>4. QED
    BY <2>1, <2>3 DEF IInv
<1>2. CASE Next
  BY <1>2, InvBoundary, InvFailure, InvOpening, InvRegistering, InvAppending,
     InvSizing, InvFinishing, Zenon DEF Next
<1>3. QED
  BY <1>1, <1>2

LEMMA Invariance == Spec => []IInv
BY InvInit, InvStep, PTL DEF Spec

-----------------------------------------------------------------------------
(***************************************************************************)
(* What follows.                                                           *)
(***************************************************************************)
\* The session is none, or that of the calls made.
LEMMA UsbIs ==
    ASSUME IInv
    PROVE  /\ Made \in 1 .. 25
           /\ Made = 1 => usb = NoSession
           /\ Made > 1 => usb.base \in Nat /\ usb = Session(Made, usb.base)
           /\ pc = "out" => Made = IF initialized THEN 25 ELSE 1
<1>1. Made \in 1 .. 25 /\ (pc = "out" => Made = IF initialized THEN 25 ELSE 1)
  BY DEF IInv, Typed, Made
<1>2. QED
  BY <1>1 DEF IInv, Described

LEMMA NoSessionParts ==
    /\ NoSession.open = FALSE /\ NoSession.on = FALSE
    /\ NoSession.registered = {} /\ NoSession.enabled = {}
BY DEF NoSession

LEMMA EnabledRegistered ==
    ASSUME NEW n \in 1 .. 25 PROVE Enabled(n) \subseteq Registered(n)
BY DEF Enabled, Registered, EnabledBy, Numbered

\* Every field has its type, and only a registered interface is ever enabled
\* (uvc_device.c:567-645).
THEOREM TypeCorrect == Spec => []TypeOK
<1>1. IInv => TypeOK
  <2> SUFFICES ASSUME IInv PROVE TypeOK
    OBVIOUS
  <2>1. Len(Script) = 24
    BY ScriptCalls
  <2>2. /\ DOMAIN desc = DOMAIN StaticDescriptors
        /\ \A field \in {"iad", "vc", "vcHeader", "vs"} : desc[field] \in Nat
        /\ desc.address \in Nat \ {0} /\ desc.vsHeader \in Nat \ {0}
        /\ desc.packet \in {512, 1024}
    BY DEF IInv, Typed, StaticDescriptors
  <2>3. /\ usb.open \in BOOLEAN /\ usb.on \in BOOLEAN
        /\ usb.registered \subseteq Interfaces /\ usb.enabled \subseteq usb.registered
    <3>1. CASE Made = 1
      BY <3>1, UsbIs, NoSessionParts
    <3>2. CASE Made > 1
      <4> DEFINE n == Made
      <4>1. /\ usb.registered = Registered(n) /\ usb.enabled = Enabled(n)
            /\ usb.open \in BOOLEAN /\ usb.on \in BOOLEAN
        BY <3>2, UsbIs, SessionParts
      <4>2. Registered(n) \subseteq Interfaces
        BY DEF Registered
      <4>3. Enabled(n) \subseteq Registered(n)
        BY UsbIs, EnabledRegistered
      <4>4. QED
        BY <4>1, <4>2, <4>3
    <3>3. QED
      BY <3>1, <3>2, UsbIs
  <2>4. QED
    BY <2>1, <2>2, <2>3 DEF IInv, Typed, TypeOK
<1>2. QED
  BY <1>1, Invariance, PTL

\* However often an attempt fails and wherever, outside a call the session is
\* open exactly when the device is initialised (uvc_device.c:809-920).
THEOREM NothingStays == Spec => []NothingLeftBehind
<1>1. IInv => NothingLeftBehind
  <2> SUFFICES ASSUME IInv, pc = "out" PROVE usb.open <=> initialized
    BY DEF NothingLeftBehind
  <2>1. CASE initialized
    BY <2>1, UsbIs, SessionParts
  <2>2. CASE ~initialized
    BY <2>2, UsbIs, NoSessionParts
  <2>3. QED
    BY <2>1, <2>2
<1>2. QED
  BY <1>1, Invariance, PTL

\* Tuples joined, element by element.
LEMMA JoinThree ==
    ASSUME NEW a, NEW b, NEW c, NEW d, NEW e, NEW f
    PROVE  /\ <<a, b, c>> \o <<d, e, f>> = <<a, b, c, d, e, f>>
           /\ <<a, b, c, d, e, f>> \o << >> = <<a, b, c, d, e, f>>
<1> DEFINE S  == {a, b, c, d, e, f}
           t  == <<a, b, c>>
           u  == <<d, e, f>>
           w  == <<a, b, c, d, e, f>>
<1>1. /\ t \in Seq(S) /\ u \in Seq(S) /\ w \in Seq(S)
      /\ Len(t) = 3 /\ Len(u) = 3 /\ Len(w) = 6
  OBVIOUS
<1>2. /\ t[1] = w[1] /\ t[2] = w[2] /\ t[3] = w[3]
      /\ u[1] = w[4] /\ u[2] = w[5] /\ u[3] = w[6]
  OBVIOUS
<1> HIDE DEF S, t, u, w
<1>3. /\ t \o u \in Seq(S)
      /\ Len(t \o u) = Len(t) + Len(u)
      /\ \A k \in 1 .. Len(t) + Len(u) :
            (t \o u)[k] = IF k <= Len(t) THEN t[k] ELSE u[k - Len(t)]
  BY <1>1, ConcatProperties, Zenon
<1>4. Len(t \o u) = 6
  BY <1>1, <1>3
<1>5. /\ (t \o u)[1] = t[1] /\ (t \o u)[2] = t[2] /\ (t \o u)[3] = t[3]
      /\ (t \o u)[4] = u[1] /\ (t \o u)[5] = u[2] /\ (t \o u)[6] = u[3]
  BY <1>1, <1>3
<1>6. ASSUME NEW k \in 1 .. Len(t \o u) PROVE (t \o u)[k] = w[k]
  <2>1. k = 1 \/ k = 2 \/ k = 3 \/ k = 4 \/ k = 5 \/ k = 6
    BY <1>4
  <2>2. QED
    BY <1>2, <1>5, <2>1, Zenon
<1>7. Len(t \o u) = Len(w)
  BY <1>1, <1>4
<1>8. t \o u = w
  BY <1>1, <1>3, <1>6, <1>7, SeqEqual, Zenon
<1>9. w \o << >> = w
  BY <1>1, ConcatEmptySeq, Zenon
<1>10. QED
  BY <1>8, <1>9 DEF t, u, w

LEMMA JoinFour ==
    ASSUME NEW a, NEW b, NEW c, NEW d, NEW e, NEW f, NEW g
    PROVE  <<a, b, c>> \o <<d, e, f, g>> = <<a, b, c, d, e, f>> \o <<g>>
<1> DEFINE S  == {a, b, c, d, e, f, g}
           t  == <<a, b, c>>
           u  == <<d, e, f>>
           x  == <<g>>
           v  == <<d, e, f, g>>
           w  == <<a, b, c, d, e, f>>
<1>1. /\ t \in Seq(S) /\ u \in Seq(S) /\ v \in Seq(S) /\ x \in Seq(S)
      /\ Len(u) = 3 /\ Len(x) = 1 /\ Len(v) = 4
  OBVIOUS
<1>2. v[1] = u[1] /\ v[2] = u[2] /\ v[3] = u[3] /\ v[4] = x[1]
  OBVIOUS
<1>3. t \o u = w
  BY JoinThree
<1> HIDE DEF S, t, u, v, w, x
<1>4. /\ u \o x \in Seq(S)
      /\ Len(u \o x) = Len(u) + Len(x)
      /\ \A k \in 1 .. Len(u) + Len(x) :
            (u \o x)[k] = IF k <= Len(u) THEN u[k] ELSE x[k - Len(u)]
  BY <1>1, ConcatProperties, Zenon
<1>5. Len(u \o x) = 4
  BY <1>1, <1>4
<1>6. /\ (u \o x)[1] = u[1] /\ (u \o x)[2] = u[2] /\ (u \o x)[3] = u[3]
      /\ (u \o x)[4] = x[1]
  BY <1>1, <1>4
<1>7. ASSUME NEW k \in 1 .. Len(u \o x) PROVE (u \o x)[k] = v[k]
  <2>1. k = 1 \/ k = 2 \/ k = 3 \/ k = 4
    BY <1>5
  <2>2. QED
    BY <1>2, <1>6, <2>1, Zenon
<1>8. Len(u \o x) = Len(v)
  BY <1>1, <1>5
<1>9. u \o x = v
  BY <1>1, <1>4, <1>7, <1>8, SeqEqual, Zenon
<1>m. t \in Seq(S) /\ u \in Seq(S) /\ x \in Seq(S)
  BY <1>1
<1>10. (t \o u) \o x = t \o (u \o x)
  <2>1. \A p, q, r \in Seq(S) : (p \o q) \o r = p \o (q \o r)
    BY ConcatAssociative
  <2>2. QED
    BY <1>m, <2>1, Zenon
<1>11. t \o v = w \o x
  BY <1>3, <1>9, <1>10, Zenon
<1>12. QED
  BY <1>11 DEF t, v, w, x

\* Once the device runs, everything is in place.
LEMMA Complete ==
    ASSUME VC # VS, NEW base
    PROVE  /\ Data(25, base)[VC]["high"]  = Whole(VC, "high", base)
           /\ Data(25, base)[VC]["super"] = Whole(VC, "super", base)
           /\ Data(25, base)[VS]["high"]  = Whole(VS, "high", base)
           /\ Data(25, base)[VS]["super"] = Whole(VS, "super", base)
<1>1. /\ Appended(VC, "high", 25) = 3 /\ Appended(VC, "super", 25) = 3
      /\ Appended(VS, "high", 25) = 3 /\ Appended(VS, "super", 25) = 4
  BY DEF Appended, Clamp
<1>2. \A a, b, c : Prefix(<<a, b, c>>, 3) = <<a, b, c>>
  BY DEF Prefix
<1>3. \A a, b, c, d : Prefix(<<a, b, c, d>>, 4) = <<a, b, c, d>>
  BY DEF Prefix
<1>4. \A s \in Speeds : Prefix(Whole(VC, s, base), 3) = Whole(VC, s, base)
  BY <1>2 DEF Whole
<1>5. Prefix(Whole(VS, "high", base), 3) = Whole(VS, "high", base)
  BY <1>2 DEF Whole
<1>6. Prefix(Whole(VS, "super", base), 4) = Whole(VS, "super", base)
  BY <1>3 DEF Whole
<1>7. \A i \in Interfaces, s \in Speeds :
         Data(25, base)[i][s] = Prefix(Whole(i, s, base), Appended(i, s, 25))
  BY DEF Data
<1>8. VC \in Interfaces /\ VS \in Interfaces /\ "high" \in Speeds /\ "super" \in Speeds
  BY DEF Interfaces, Speeds
<1>9. QED
  BY <1>1, <1>4, <1>5, <1>6, <1>7, <1>8

\* Whatever the attempts before did, the host of a running device reads one
\* function with the numbers of this session at either speed
\* (uvc_device.c:567-645).
THEOREM OneConsistentFunction == Spec => []ConfigurationConsistent
<1>1. IInv => ConfigurationConsistent
  <2> SUFFICES ASSUME IInv, usb.on
               PROVE  /\ ctx[VS] = ctx[VC] + 1 /\ usb.endpoint = ctx[VS] + 1
                      /\ usb.enabled = Interfaces
                      /\ \A speed \in Speeds :
                           Configuration(speed) =
                               <<<<"iad", ctx[VC]>>, <<"vc", ctx[VC]>>,
                                 <<"vcHeader", ctx[VS]>>, <<"vs", ctx[VS]>>,
                                 <<"vsHeader", usb.endpoint>>,
                                 <<"endpoint", usb.endpoint,
                                   IF speed = "super" THEN 1024 ELSE 512>>>>
                               \o (IF speed = "super" THEN <<<<"companion">>>> ELSE << >>)
    BY DEF ConfigurationConsistent
  <2> DEFINE base == usb.base
  <2>0. VC # VS
    BY ConstantsAssumption
  <2>1. Made = 25
    <3>1. Made # 1
      BY UsbIs, NoSessionParts
    <3>2. Session(Made, base).on <=> Made > 24
      BY SessionParts
    <3>3. QED
      BY <3>1, <3>2, UsbIs
  <2>2. usb = Session(25, base) /\ base \in Nat /\ ctx[VC] = base /\ ctx[VS] = base + 1
    BY <2>1, UsbIs DEF IInv, Described
  <2>3. /\ usb.endpoint = base + 2 /\ usb.enabled = Enabled(25)
        /\ usb.data = Data(25, base)
    BY <2>2, SessionParts DEF Endpoint
  <2>4. usb.enabled = Interfaces
    BY <2>0, <2>3, EnabledSteps
  <2> DEFINE conf(s) == Data(25, base)[VC][s] \o Data(25, base)[VS][s]
             a == <<"iad", base>>
             b == <<"vc", base>>
             c == <<"vcHeader", base + 1>>
             d == <<"vs", base + 1>>
             e == <<"vsHeader", base + 2>>
             f(size) == <<"endpoint", base + 2, size>>
             g == <<"companion">>
             h == f(512)
             k == f(1024)
  <2>a. /\ Whole(VC, "high", base) = <<a, b, c>>
        /\ Whole(VC, "super", base) = <<a, b, c>>
    BY DEF Whole
  <2>b. /\ Whole(VS, "high", base) = <<d, e, h>>
        /\ Whole(VS, "super", base) = <<d, e, k, g>>
    BY <2>0 DEF Whole
  <2> HIDE DEF a, b, c, d, e, g, h, k
  <2>5. conf("high") = <<a, b, c>> \o <<d, e, h>>
    BY <2>0, <2>a, <2>b, Complete, Zenon
  <2>6. conf("super") = <<a, b, c>> \o <<d, e, k, g>>
    BY <2>0, <2>a, <2>b, Complete, Zenon
  <2>7. \A s \in Speeds : Configuration(s) = conf(s)
    BY <2>3 DEF Configuration
  <2> DEFINE wanted(s) ==
        <<<<"iad", ctx[VC]>>, <<"vc", ctx[VC]>>, <<"vcHeader", ctx[VS]>>,
          <<"vs", ctx[VS]>>, <<"vsHeader", usb.endpoint>>,
          <<"endpoint", usb.endpoint, IF s = "super" THEN 1024 ELSE 512>>>>
        \o (IF s = "super" THEN <<<<"companion">>>> ELSE << >>)
  <2>8. wanted("high") = <<a, b, c, d, e, h>> \o << >>
    BY <2>2, <2>3 DEF a, b, c, d, e, h
  <2>9. wanted("super") = <<a, b, c, d, e, k>> \o <<g>>
    BY <2>2, <2>3 DEF a, b, c, d, e, k, g
  <2> HIDE DEF conf, wanted
  <2>c. <<a, b, c>> \o <<d, e, h>> = <<a, b, c, d, e, h>> \o << >>
    BY JoinThree
  <2>d. <<a, b, c>> \o <<d, e, k, g>> = <<a, b, c, d, e, k>> \o <<g>>
    BY JoinFour, SMTT(60)
  <2>10. conf("high") = wanted("high")
    BY <2>5, <2>8, <2>c, Zenon
  <2>11. conf("super") = wanted("super")
    BY <2>6, <2>9, <2>d, Zenon
  <2>12. \A s \in Speeds : Configuration(s) = wanted(s)
    BY <2>7, <2>10, <2>11 DEF Speeds
  <2>13. ctx[VS] = ctx[VC] + 1 /\ usb.endpoint = ctx[VS] + 1
    BY <2>2, <2>3
  <2>14. QED
    BY <2>4, <2>12, <2>13 DEF wanted
<1>2. QED
  BY <1>1, Invariance, PTL

\* The session has its data of either interface at all times.
LEMMA HasData ==
    ASSUME IInv
    PROVE  /\ DOMAIN usb = {"open", "base", "registered", "enabled", "data", "endpoint",
                            "on"}
           /\ DOMAIN usb.data = Interfaces
<1>1. CASE Made = 1
  <2>1. usb = NoSession
    BY <1>1, UsbIs
  <2>2. QED
    BY <2>1 DEF NoSession
<1>2. CASE Made > 1
  <2>1. usb = Session(Made, usb.base) /\ usb.data = Data(Made, usb.base)
    BY <1>2, UsbIs, SessionParts
  <2>2. DOMAIN usb.data = Interfaces
    BY <2>1 DEF Data
  <2>3. \A n, b : DOMAIN Session(n, b) = {"open", "base", "registered", "enabled",
                                          "data", "endpoint", "on"}
    <3> SUFFICES ASSUME NEW n, NEW b
                 PROVE  DOMAIN Session(n, b) = {"open", "base", "registered", "enabled",
                                                "data", "endpoint", "on"}
      OBVIOUS
    <3> DEFINE yes == TRUE
    <3>1. Session(n, b) = Usb(yes, b, Registered(n), Enabled(n), Data(n, b),
                              Endpoint(n, b), Running(n))
      BY DEF Session
    <3> HIDE DEF yes
    <3>2. QED
      BY <3>1 DEF Usb
  <2>4. QED
    BY <2>1, <2>2, <2>3
<1>3. QED
  BY <1>1, <1>2, UsbIs

\* Only AppendConfigurationData adds to a session that stays open.
LEMMA OnlyAppendAdds ==
    ASSUME IInv, Next, ~AppendConfigurationData, usb'.open
    PROVE  Open \/ usb'.data = usb.data
<1> USE HasData
<1>1. CASE \/ Initialize \/ InitializeAgain \/ OpenFails \/ Describe
           \/ NumberDescriptors \/ SetPacketSize
  BY <1>1 DEF Initialize, InitializeAgain, OpenFails, Describe, NumberDescriptors,
              SetPacketSize
<1>2. CASE Exit \/ IncompatibleFirmware \/ CallFails
  <2>1. usb' = NoSession
    BY <1>2 DEF Exit, IncompatibleFirmware, CallFails, CleanUp
  <2>2. QED
    BY <2>1, NoSessionParts
<1>3. CASE RegisterInterface
  BY <1>3 DEF RegisterInterface
<1>4. CASE RegisterEndpoint
  BY <1>4 DEF RegisterEndpoint
<1>5. CASE EnableInterface
  BY <1>5 DEF EnableInterface
<1>6. CASE Enable
  <2> DEFINE yes == TRUE
  <2>1. usb' = [usb EXCEPT !.on = yes]
    BY <1>6 DEF Enable
  <2> HIDE DEF yes
  <2>2. QED
    BY <2>1
<1>7. QED
  BY <1>1, <1>2, <1>3, <1>4, <1>5, <1>6 DEF Next

\* What an append may add to: an interface not enabled yet, off the bus.
LEMMA AppendsInTime ==
    ASSUME IInv, AppendConfigurationData, NEW i \in Interfaces,
           usb'.data[i] # usb.data[i]
    PROVE  i \notin usb.enabled /\ ~usb.on
<1> DEFINE j == Current.iface
           speed == Current.speed
           x == <<Copy(Current.kind)>>
           base == usb.base
<1>0. VC # VS
  BY ConstantsAssumption
<1>1. pc = "init" /\ Script[step].do = "append"
  BY DEF AppendConfigurationData, At
<1>2. step \in 1 .. 24
  BY <1>1, AtCall
<1>3. j \in Interfaces /\ step \in Steps(j, speed)
  BY <1>0, <1>1, <1>2, Calling DEF Current
<1>4. usb' = [usb EXCEPT !.data[j][speed] = @ \o x]
  BY DEF AppendConfigurationData
<1> HIDE DEF j, speed, x
<1>5. i = j
  <2> DEFINE row == [usb.data[j] EXCEPT ![speed] = @ \o x]
             all == [usb.data EXCEPT ![j] = row]
  <2>1. usb' = [usb EXCEPT !.data = all]
    BY <1>4
  <2> HIDE DEF all
  <2>2. usb'.data = all
    BY <2>1, HasData
  <2> HIDE DEF row
  <2>3. i # j => all[i] = usb.data[i]
    BY HasData DEF all
  <2>4. QED
    BY <2>2, <2>3
<1>6. usb = Session(step, base) /\ step \in 6 .. 21
  BY <1>1, <1>3, AtCall DEF Steps
<1>7. ~usb.on
  BY <1>6, SessionParts
<1>8. i \notin Enabled(step)
  <2>1. CASE i = VC
    <3>1. step \in 6 .. 11
      BY <1>3, <1>5, <2>1 DEF Steps
    <3>2. QED
      BY <1>0, <3>1, EnabledSteps
  <2>2. CASE i = VS
    <3>1. Enabled(step) \subseteq {VC}
      BY <1>0, <1>6, EnabledSteps
    <3>2. QED
      BY <1>0, <2>2, <3>1
  <2>3. QED
    BY <2>1, <2>2 DEF Interfaces
<1>9. usb.enabled = Enabled(step)
  BY <1>6, SessionParts
<1>10. QED
  BY <1>7, <1>8, <1>9

\* Nothing is added to an enabled interface, nor to any on the bus, in whatever
\* order attempts fail and repeat (docs/RESEARCH.md section 6).
THEOREM AppendsPrecedeEnable == Spec => NothingAppendedLate
<1> DEFINE Timely ==
        \A i \in Interfaces :
           usb'.data[i] # usb.data[i] /\ usb'.open => i \notin usb.enabled /\ ~usb.on
<1>1. IInv /\ [Next]_vars => [Timely]_vars
  <2> SUFFICES ASSUME IInv, Next, NEW i \in Interfaces,
                      usb'.data[i] # usb.data[i], usb'.open
               PROVE  i \notin usb.enabled /\ ~usb.on
    OBVIOUS
  <2>1. CASE AppendConfigurationData
    BY <2>1, AppendsInTime
  <2>2. CASE Open
    <3>1. pc = "init" /\ Script[step].do = "open"
      BY <2>2 DEF Open, At
    <3>2. step = 1
      BY <3>1, AtCall, Calling, ConstantsAssumption
    <3>3. usb = NoSession
      BY <3>1, <3>2, AtCall
    <3>4. QED
      BY <3>3, NoSessionParts
  <2>3. QED
    BY <2>1, <2>2, OnlyAppendAdds
<1>2. QED
  <2>1. Spec => [][Timely]_vars
    BY <1>1, Invariance, PTL DEF Spec
  <2>2. QED
    BY <2>1 DEF NothingAppendedLate

=============================================================================
