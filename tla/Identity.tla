-------------------------------- MODULE Identity --------------------------------
(* proxy_identity_derive of proxy_core.c: what a unit calls itself, computed at   *)
(* every boot from the chip's hardware id.  Byte [i] of the code is element i + 1. *)
EXTENDS Integers, Sequences, TLAPS

\* What names are spelled with.  A hexadecimal digit, which "%02X" writes, stands for
\* itself, and so does the dash of the suffix.
CONSTANT Chars

Bytes == 0..255

PROXY_ADDR_LEN   == 6
PROXY_MFG_ID_LEN == 4
PROXY_HWID_MIN_LEN == 6
NameSize   == 20  \* PROXY_DEVICE_NAME_MAX, the final 0 included
SuffixSize == 6   \* sizeof("-XXXX"), the final 0 included

\* A base name that is too long is truncated.
Truncated(base) == IF Len(base) > NameSize - 1 THEN SubSeq(base, 1, NameSize - 1) ELSE base

\* "-%02X%02X" of the top bytes of the id, if there is room for it behind the base name.
Suffix(base, hwid) ==
  IF Len(base) + SuffixSize <= NameSize
    THEN <<"-", hwid[6] \div 16, hwid[6] % 16, hwid[5] \div 16, hwid[5] % 16>>
    ELSE <<>>

\* byte | 0xc0.
StaticRandom(byte) == 192 + (byte % 64)

\* Is there an id, and is it long enough?  Otherwise the base name is all there is.
AddrValid(hwid) == Len(hwid) >= PROXY_HWID_MIN_LEN

Name(base, hwid) ==
  Truncated(base) \o (IF AddrValid(hwid) THEN Suffix(Truncated(base), hwid) ELSE <<>>)

Addr(hwid) ==
  [i \in 1..PROXY_ADDR_LEN |-> IF i = PROXY_ADDR_LEN THEN StaticRandom(hwid[i]) ELSE hwid[i]]

MfgId(hwid) == [i \in 1..PROXY_MFG_ID_LEN |-> hwid[i]]

--------------------------------------------------------------------------------
\* The address of main.c's bt_id_create is a legal static-random one: bytes, of which the
\* top one has its two highest bits set, whatever the chip's id.
THEOREM AddressIsStatic ==
  ASSUME NEW hwid \in Seq(Bytes), AddrValid(hwid)
  PROVE  Addr(hwid) \in [1..6 -> Bytes] /\ Addr(hwid)[6] >= 192
<1>1. \A i \in 1..6 : hwid[i] \in Bytes
  BY DEF AddrValid, PROXY_HWID_MIN_LEN
<1>2. \A b \in Bytes : StaticRandom(b) \in Bytes /\ StaticRandom(b) >= 192
  BY DEF StaticRandom, Bytes
<1>3. QED
  BY <1>1, <1>2 DEF Addr, PROXY_ADDR_LEN

\* A byte is two hexadecimal digits, which spell it without loss.
LEMMA HexDigits == ASSUME NEW c \in 0..255 PROVE c \div 16 \in 0..15 /\ c % 16 \in 0..15
OBVIOUS

LEMMA HexIsInjective ==
  ASSUME NEW c \in 0..255, NEW d \in 0..255, c \div 16 = d \div 16, c % 16 = d % 16
  PROVE  c = d
OBVIOUS

\* What is appended to the same name is found again behind it.
LEMMA SameTail ==
  ASSUME NEW base \in Seq(Chars), NEW s \in Seq(Chars), NEW t \in Seq(Chars),
         base \o s = base \o t, Len(s) = Len(t)
  PROVE  \A k \in 1..Len(s) : s[k] = t[k]
<1>1. \A k \in 1..Len(s) : (base \o s)[Len(base) + k] = s[k]
  OBVIOUS
<1>2. \A k \in 1..Len(t) : (base \o t)[Len(base) + k] = t[k]
  OBVIOUS
<1>3. QED
  BY <1>1, <1>2

\* The suffix, when there is room.
LEMMA SuffixSpelt ==
  ASSUME {"-"} \cup 0..15 \subseteq Chars,
         NEW base \in Seq(Chars), Len(base) + SuffixSize <= NameSize,
         NEW hwid, hwid[5] \in 0..255, hwid[6] \in 0..255
  PROVE  /\ Suffix(base, hwid) \in Seq(Chars) /\ Len(Suffix(base, hwid)) = 5
         /\ Suffix(base, hwid)[2] = hwid[6] \div 16 /\ Suffix(base, hwid)[3] = hwid[6] % 16
         /\ Suffix(base, hwid)[4] = hwid[5] \div 16 /\ Suffix(base, hwid)[5] = hwid[5] % 16
<1>1. hwid[6] \div 16 \in 0..15 /\ hwid[6] % 16 \in 0..15
      /\ hwid[5] \div 16 \in 0..15 /\ hwid[5] % 16 \in 0..15
  BY HexDigits
<1> DEFINE p == hwid[6] \div 16
           q == hwid[6] % 16
           r == hwid[5] \div 16
           w == hwid[5] % 16
<1>2. Suffix(base, hwid) = <<"-", p, q, r, w>>
  BY DEF Suffix
<1>3. "-" \in Chars /\ p \in Chars /\ q \in Chars /\ r \in Chars /\ w \in Chars
  BY <1>1
<1> HIDE DEF p, q, r, w
<1>4. <<"-", p, q, r, w>> \in Seq(Chars)
  BY <1>3
<1>5. /\ Suffix(base, hwid) \in Seq(Chars) /\ Len(Suffix(base, hwid)) = 5
      /\ Suffix(base, hwid)[2] = p /\ Suffix(base, hwid)[3] = q
      /\ Suffix(base, hwid)[4] = r /\ Suffix(base, hwid)[5] = w
  BY <1>2, <1>4
<1>6. QED
  BY <1>5 DEF p, q, r, w

\* "units are tellable apart" (main.c, identity_init): two chips whose ids differ in
\* their first six bytes advertise different names or different ids, provided the base
\* name leaves room for the suffix - also when they differ only in the two bits that the
\* address loses, and their addresses are the same.
THEOREM UnitsTellableApart ==
  ASSUME {"-"} \cup 0..15 \subseteq Chars,
         NEW base \in Seq(Chars), Len(base) + SuffixSize <= NameSize,
         NEW a \in Seq(Bytes), AddrValid(a),
         NEW b \in Seq(Bytes), AddrValid(b),
         Name(base, a) = Name(base, b), MfgId(a) = MfgId(b)
  PROVE  \A i \in 1..6 : a[i] = b[i]
<1>1. \A i \in 1..4 : a[i] = b[i]
  <2>1. \A i \in 1..4 : MfgId(a)[i] = a[i] /\ MfgId(b)[i] = b[i]
    BY DEF MfgId, PROXY_MFG_ID_LEN
  <2>2. QED
    BY <2>1
<1>2. a[5] \in Bytes /\ a[6] \in Bytes /\ b[5] \in Bytes /\ b[6] \in Bytes
  <2>1. \A hwid \in Seq(Bytes) : AddrValid(hwid) => hwid[5] \in Bytes /\ hwid[6] \in Bytes
    BY ONLY DEF AddrValid, PROXY_HWID_MIN_LEN
  <2>2. QED
    BY ONLY <2>1, a \in Seq(Bytes), AddrValid(a), b \in Seq(Bytes), AddrValid(b)
<1>3. Truncated(base) = base
  BY DEF Truncated, SuffixSize, NameSize
<1>4. base \o Suffix(base, a) = base \o Suffix(base, b)
  BY <1>3 DEF Name
<1>5. \A k \in 1..5 : Suffix(base, a)[k] = Suffix(base, b)[k]
  <2>1. Suffix(base, a) \in Seq(Chars) /\ Len(Suffix(base, a)) = 5
        /\ Suffix(base, b) \in Seq(Chars) /\ Len(Suffix(base, b)) = 5
    BY <1>2, SuffixSpelt DEF Bytes
  <2>2. \A k \in 1..Len(Suffix(base, a)) : Suffix(base, a)[k] = Suffix(base, b)[k]
    <3> DEFINE u == Suffix(base, a)
               v == Suffix(base, b)
    <3>1. u \in Seq(Chars) /\ v \in Seq(Chars) /\ Len(u) = Len(v) /\ base \o u = base \o v
      BY ONLY <1>4, <2>1
    <3> HIDE DEF u, v
    <3>2. \A k \in 1..Len(u) : u[k] = v[k]
      BY ONLY base \in Seq(Chars), <3>1, SameTail
    <3>3. QED
      BY ONLY <3>2 DEF u, v
  <2>3. QED
    BY <2>1, <2>2
<1>6. a[6] \div 16 = b[6] \div 16 /\ a[6] % 16 = b[6] % 16
      /\ a[5] \div 16 = b[5] \div 16 /\ a[5] % 16 = b[5] % 16
  <2>1. /\ Suffix(base, a)[2] = a[6] \div 16 /\ Suffix(base, a)[3] = a[6] % 16
        /\ Suffix(base, a)[4] = a[5] \div 16 /\ Suffix(base, a)[5] = a[5] % 16
    BY <1>2, SuffixSpelt DEF Bytes
  <2>2. /\ Suffix(base, b)[2] = b[6] \div 16 /\ Suffix(base, b)[3] = b[6] % 16
        /\ Suffix(base, b)[4] = b[5] \div 16 /\ Suffix(base, b)[5] = b[5] % 16
    BY <1>2, SuffixSpelt DEF Bytes
  <2>3. QED
    BY <1>5, <2>1, <2>2
<1>7. a[6] = b[6] /\ a[5] = b[5]
  BY <1>2, <1>6, HexIsInjective DEF Bytes
<1>8. QED
  <2> SUFFICES ASSUME NEW i \in 1..6 PROVE a[i] = b[i]
    OBVIOUS
  <2>1. i \in 1..4 \/ i = 5 \/ i = 6
    OBVIOUS
  <2>2. QED
    BY ONLY <2>1, <1>1, <1>7

================================================================================
