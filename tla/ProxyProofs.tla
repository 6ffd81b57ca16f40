----------------------------- MODULE ProxyProofs -----------------------------
(***************************************************************************)
(* Proofs about module Proxy, for any number of connections and threads,   *)
(* any requests and replies, and any span of time.                         *)
(***************************************************************************)
EXTENDS Proxy, FiniteSetTheorems, SequenceTheorems,
        NaturalsInduction, WellFoundedInduction, TLAPS

-------------------------------------------------------------------------------
(* Texts: what parsing leaves in a host and a path, and what a key tells   *)

\* The first of several places, as SelectInSeq finds it.
LEMMA Earliest ==
  ASSUME NEW I, I \subseteq Nat, I # {}
  PROVE  Min(I) \in I /\ \A i \in I : Min(I) =< i
<1> DEFINE less == OpToRel(<, Nat)
<1>1. IsWellFoundedOn(less, Nat)
  BY NatLessThanWellFounded, Zenon
<1>2. \A x, y \in Nat : y < x => <<y, x>> \in less
  BY DEF OpToRel
<1> HIDE DEF less
<1>3. PICK m \in I : \A i \in I : ~(<<i, m>> \in less)
  BY <1>1, WFMin
<1>4. \A i \in I : m =< i
  <2> SUFFICES ASSUME NEW i \in I PROVE m =< i
    OBVIOUS
  <2>1. ~(i < m)
    BY <1>2, <1>3
  <2> QED BY <2>1
<1>5. \E x \in I : \A i \in I : x =< i
  BY <1>4
<1> DEFINE least == CHOOSE x \in I : \A i \in I : x =< i
<1>6. least \in I /\ \A i \in I : least =< i
  BY <1>5
<1>7. Min(I) = least
  BY DEF Min
<1> QED BY <1>6, <1>7

\* Where find finds a symbol.
LEMMA FindFirst ==
  ASSUME NEW t \in Seq(Symbols), NEW x
  PROVE  \/ find(t, x) = 0 /\ \A i \in 1 .. Len(t) : t[i] # x
         \/ find(t, x) \in 1 .. Len(t) /\ \A i \in 1 .. find(t, x) - 1 : t[i] # x
<1> DEFINE I == {i \in 1 .. Len(t) : t[i] = x}
<1>1. find(t, x) = IF I # {} THEN Min(I) ELSE 0
  BY Zenon DEF find, SelectInSeq
<1>2. CASE I = {}
  <2>1. \A i \in 1 .. Len(t) : t[i] # x
    BY <1>2
  <2> QED BY <1>1, <1>2, <2>1
<1>3. CASE I # {}
  <2>1. I \subseteq Nat /\ I \subseteq 1 .. Len(t)
    OBVIOUS
  <2>2. Min(I) \in I /\ \A i \in I : Min(I) =< i
    BY <1>3, <2>1, Earliest
  <2>3. find(t, x) = Min(I)
    BY <1>1, <1>3
  <2>4. ASSUME NEW i \in 1 .. Min(I) - 1 PROVE t[i] # x
    <3>1. i \in 1 .. Len(t) /\ ~(Min(I) =< i)
      BY <2>1, <2>2
    <3>2. i \notin I
      BY <2>2, <3>1
    <3> QED BY <3>1, <3>2
  <2> QED BY <2>1, <2>2, <2>3, <2>4
<1> QED BY <1>2, <1>3

\* The digits, one by one.
LEMMA DigitsOneByOne ==
  /\ \A x : IsDigit(x) <=> x \in {"0", "1", "2", "3", "4", "5", "6", "7", "8", "9"}
  /\ \A i, j \in 0 .. 9 : Digits[i + 1] = Digits[j + 1] => i = j
  /\ \A i \in 0 .. 9 : IsDigit(Digits[i + 1]) /\ Digits[i + 1] \in Symbols
<1>1. /\ Digits[1] = "0" /\ Digits[2] = "1" /\ Digits[3] = "2" /\ Digits[4] = "3"
      /\ Digits[5] = "4" /\ Digits[6] = "5" /\ Digits[7] = "6" /\ Digits[8] = "7"
      /\ Digits[9] = "8" /\ Digits[10] = "9"
  BY DEF Digits
<1>2. \A x : IsDigit(x) <=> x \in {"0", "1", "2", "3", "4", "5", "6", "7", "8", "9"}
  BY <1>1 DEF IsDigit
<1>3. \A i, j \in 1 .. 10 : Digits[i] = Digits[j] => i = j
  <2>1. \A i \in 1 .. 10 : Digits[i] \in {"0", "1", "2", "3", "4", "5", "6", "7", "8", "9"}
    BY <1>1
  <2> SUFFICES ASSUME NEW i \in 1 .. 10, NEW j \in 1 .. 10, Digits[i] = Digits[j]
               PROVE  i = j
    OBVIOUS
  <2>2. CASE Digits[i] = "0"
    <3>1. \A k \in 1 .. 10 : Digits[k] = "0" => k = 1
      BY <1>1
    <3> QED BY <2>2, <3>1, Zenon
  <2>3. CASE Digits[i] = "1"
    <3>1. \A k \in 1 .. 10 : Digits[k] = "1" => k = 2
      BY <1>1
    <3> QED BY <2>3, <3>1, Zenon
  <2>4. CASE Digits[i] = "2"
    <3>1. \A k \in 1 .. 10 : Digits[k] = "2" => k = 3
      BY <1>1
    <3> QED BY <2>4, <3>1, Zenon
  <2>5. CASE Digits[i] = "3"
    <3>1. \A k \in 1 .. 10 : Digits[k] = "3" => k = 4
      BY <1>1
    <3> QED BY <2>5, <3>1, Zenon
  <2>6. CASE Digits[i] = "4"
    <3>1. \A k \in 1 .. 10 : Digits[k] = "4" => k = 5
      BY <1>1
    <3> QED BY <2>6, <3>1, Zenon
  <2>7. CASE Digits[i] = "5"
    <3>1. \A k \in 1 .. 10 : Digits[k] = "5" => k = 6
      BY <1>1
    <3> QED BY <2>7, <3>1, Zenon
  <2>8. CASE Digits[i] = "6"
    <3>1. \A k \in 1 .. 10 : Digits[k] = "6" => k = 7
      BY <1>1
    <3> QED BY <2>8, <3>1, Zenon
  <2>9. CASE Digits[i] = "7"
    <3>1. \A k \in 1 .. 10 : Digits[k] = "7" => k = 8
      BY <1>1
    <3> QED BY <2>9, <3>1, Zenon
  <2>10. CASE Digits[i] = "8"
    <3>1. \A k \in 1 .. 10 : Digits[k] = "8" => k = 9
      BY <1>1
    <3> QED BY <2>10, <3>1, Zenon
  <2>11. CASE Digits[i] = "9"
    <3>1. \A k \in 1 .. 10 : Digits[k] = "9" => k = 10
      BY <1>1
    <3> QED BY <2>11, <3>1, Zenon
  <2> QED BY <2>1, <2>2, <2>3, <2>4, <2>5, <2>6, <2>7, <2>8, <2>9, <2>10, <2>11
<1>4. \A i \in 1 .. 10 : IsDigit(Digits[i])
  BY DEF IsDigit
<1>5. \A i \in 1 .. 10 : Digits[i] \in Symbols
  <2>1. Digits \in Seq(Symbols)
    BY TextAssumption
  <2>2. Len(Digits) = 10
    BY DEF Digits
  <2> QED BY <2>1, <2>2, ElementOfSeq
<1> QED BY <1>2, <1>3, <1>4, <1>5

\* A part of a text is a text (std::string::substr).
LEMMA PartOfText ==
  ASSUME NEW t \in Seq(Symbols), NEW m \in Nat \ {0}, NEW n \in Nat, n =< Len(t)
  PROVE  /\ SubSeq(t, m, n) \in Seq(Symbols)
         /\ Len(SubSeq(t, m, n)) = IF m =< n THEN n - m + 1 ELSE 0
         /\ \A i \in 1 .. n - m + 1 : SubSeq(t, m, n)[i] = t[m + i - 1]
<1>1. \A i \in m .. n : t[i] \in Symbols
  OBVIOUS
<1> QED BY <1>1, SubSeqProperties

\* A host ends before the first colon, in a URL (line 127) and in a Host header (line 149).
LEMMA HostHasNoColon ==
  ASSUME NEW t \in Seq(Symbols)
  PROVE  /\ hostAndPort(t).host \in Seq(Symbols)
         /\ \A i \in 1 .. Len(hostAndPort(t).host) : hostAndPort(t).host[i] # ":"
<1> DEFINE colon == find(t, ":")
<1>1. CASE colon = 0
  <2>1. hostAndPort(t).host = t
    BY <1>1 DEF hostAndPort
  <2> QED BY <1>1, <2>1, FindFirst
<1>2. CASE colon # 0
  <2>1. colon \in 1 .. Len(t) /\ \A i \in 1 .. colon - 1 : t[i] # ":"
    BY <1>2, FindFirst
  <2> HIDE DEF colon
  <2>2. hostAndPort(t).host = SubSeq(t, 1, colon - 1)
    BY <1>2 DEF hostAndPort, colon
  <2>3. /\ SubSeq(t, 1, colon - 1) \in Seq(Symbols)
        /\ Len(SubSeq(t, 1, colon - 1)) = colon - 1
        /\ \A i \in 1 .. colon - 1 : SubSeq(t, 1, colon - 1)[i] = t[i]
    BY <2>1, PartOfText
  <2> QED BY <2>1, <2>2, <2>3
<1> QED BY <1>1, <1>2

\* What is read of an absolute URL: a host without a colon and a path that is not empty.
LEMMA AbsoluteForm ==
  ASSUME NEW t \in Seq(Symbols)
  PROVE  /\ absoluteForm(t).host \in Seq(Symbols)
         /\ \A i \in 1 .. Len(absoluteForm(t).host) : absoluteForm(t).host[i] # ":"
         /\ absoluteForm(t).path \in Seq(Symbols) \ {<<>>}
<1> DEFINE slash == find(t, "/")
           authority == IF slash = 0 THEN t ELSE SubSeq(t, 1, slash - 1)
<1>1. slash = 0 \/ slash \in 1 .. Len(t)
  BY FindFirst
<1>2. /\ absoluteForm(t).host = hostAndPort(authority).host
      /\ absoluteForm(t).path = IF slash = 0 THEN <<"/">> ELSE SubSeq(t, slash, Len(t))
  BY DEF absoluteForm
<1> HIDE DEF slash
<1>3. authority \in Seq(Symbols) /\ absoluteForm(t).path \in Seq(Symbols) \ {<<>>}
  <2>1. CASE slash = 0
    <3>1. <<"/">> \in Seq(Symbols) \ {<<>>}
      BY TextAssumption
    <3> QED BY <1>2, <2>1, <3>1
  <2>2. CASE slash # 0
    <3>1. /\ slash \in Nat \ {0} /\ slash - 1 \in Nat /\ slash - 1 =< Len(t)
          /\ slash =< Len(t) /\ Len(t) \in Nat
      BY <1>1, <2>2
    <3>2. SubSeq(t, 1, slash - 1) \in Seq(Symbols)
      BY <3>1, PartOfText
    <3>3. SubSeq(t, slash, Len(t)) \in Seq(Symbols) /\ Len(SubSeq(t, slash, Len(t))) > 0
      BY <3>1, PartOfText
    <3>4. authority = SubSeq(t, 1, slash - 1) /\ absoluteForm(t).path = SubSeq(t, slash, Len(t))
      BY <1>2, <2>2
    <3>5. SubSeq(t, slash, Len(t)) # <<>>
      <4> DEFINE p == SubSeq(t, slash, Len(t))
      <4>1. Len(p) # 0
        BY <3>3
      <4> HIDE DEF p
      <4>2. p # <<>>
        BY <4>1
      <4> QED BY <4>2 DEF p
    <3>6. absoluteForm(t).path \in Seq(Symbols) \ {<<>>}
      BY <3>3, <3>4, <3>5, Zenon
    <3> QED BY <3>2, <3>4, <3>6
  <2> QED BY <2>1, <2>2
<1> HIDE DEF authority
<1> QED BY <1>2, <1>3, HostHasNoColon

\* What of a URL ends up in a request's target.
LEMMA ParsedURL ==
  ASSUME NEW url \in Seq(Symbols) \ {<<>>}
  PROVE  /\ parseURL(url).host \in Seq(Symbols)
         /\ \A i \in 1 .. Len(parseURL(url).host) : parseURL(url).host[i] # ":"
         /\ parseURL(url).path \in Seq(Symbols) \ {<<>>}
<1> DEFINE schemes == {i \in 1 .. Len(url) - 2 : SubSeq(url, i, i + 2) = <<":", "/", "/">>}
           From(m) == SubSeq(url, m, Len(url))
<1>1. \A m \in Nat \ {0} : From(m) \in Seq(Symbols)
  BY PartOfText
<1>2. CASE schemes # {}
  <2>1. parseURL(url) = absoluteForm(From(Min(schemes) + 3))
    BY <1>2 DEF parseURL
  <2>2. schemes \subseteq Nat
    OBVIOUS
  <2> HIDE DEF schemes
  <2>3. Min(schemes) \in Nat
    BY <1>2, <2>2, Earliest
  <2>4. From(Min(schemes) + 3) \in Seq(Symbols)
    BY <1>1, <2>3
  <2> HIDE DEF From
  <2> QED BY <2>1, <2>4, AbsoluteForm
<1>3. CASE schemes = {} /\ SubSeq(url, 1, 2) = <<"/", "/">>
  <2>1. parseURL(url) = absoluteForm(From(3))
    BY <1>3 DEF parseURL
  <2>2. From(3) \in Seq(Symbols)
    BY <1>1
  <2> HIDE DEF From
  <2> QED BY <2>1, <2>2, AbsoluteForm
<1>4. CASE schemes = {} /\ SubSeq(url, 1, 2) # <<"/", "/">>
  <2>1. parseURL(url) = [host |-> <<>>, port |-> 80, path |-> url]
    BY <1>4 DEF parseURL
  <2> QED BY <2>1
<1> QED BY <1>2, <1>3, <1>4

\* A request's method, host and path are texts; a host has no colon, a path is not empty.
LEMMA ParsedText ==
  ASSUME NEW r \in Parsed
  PROVE  /\ r.method \in Symbols /\ r.port \in Nat /\ r.port < 65536
         /\ r.host \in Seq(Symbols) /\ \A i \in 1 .. Len(r.host) : r.host[i] # ":"
         /\ r.path \in Seq(Symbols) \ {<<>>}
<1>1. PICK s \in Requests : s.first # NoLine /\ r = parseRequest(s)
  BY DEF Parsed
<1>2. /\ s.first.method \in Symbols /\ s.first.url \in Seq(Symbols) \ {<<>>}
      /\ get(parseHeaders(s.lines), "host", <<>>) \in Seq(Symbols)
      /\ r.port \in Nat /\ r.port < 65536
  BY <1>1, TextAssumption
<1> DEFINE target == parseURL(s.first.url)
           named == hostAndPort(get(parseHeaders(s.lines), "host", <<>>))
<1>3. /\ target.host \in Seq(Symbols) /\ \A i \in 1 .. Len(target.host) : target.host[i] # ":"
      /\ target.path \in Seq(Symbols) \ {<<>>}
  BY <1>2, ParsedURL
<1>4. named.host \in Seq(Symbols) /\ \A i \in 1 .. Len(named.host) : named.host[i] # ":"
  BY <1>2, HostHasNoColon
<1>5. /\ r.method = s.first.method /\ r.path = target.path
      /\ r.host = named.host \/ r.host = target.host
  BY <1>1 DEF parseRequest
<1> HIDE DEF target, named
<1> QED BY <1>2, <1>3, <1>4, <1>5

\* The digit of n for a power of ten, and a text of k such digits.
Digit(n, i) == Digits[((n \div Tens[i]) % 10) + 1]
Written(n, text, k) ==
    /\ text \in Seq(Symbols) /\ Len(text) = k /\ n < Tens[k + 1]
    /\ \A i \in 1 .. k : text[i] = Digit(n, k + 1 - i) /\ IsDigit(text[i])

\* A port is written with one to five digits.
LEMMA PortInDigits ==
  ASSUME NEW n \in Nat, n < 65536
  PROVE  \E k \in 1 .. 5 : Written(n, to_string(n), k)
<1> DEFINE Size(k) == n < Tens[k + 1] /\ (k = 1 \/ Tens[k] =< n)
           size == CHOOSE k \in 1 .. 5 : Size(k)
<1>1. \E k \in 1 .. 5 : Size(k)
  <2>1. Size(1) \/ Size(2) \/ Size(3) \/ Size(4) \/ Size(5)
    BY DEF Tens
  <2> QED BY <2>1
<1>2. size \in 1 .. 5 /\ Size(size)
  BY <1>1
<1>3. to_string(n) = [i \in 1 .. size |-> Digits[((n \div Tens[size + 1 - i]) % 10) + 1]]
  BY DEF to_string
<1> HIDE DEF size
<1>4. \A i \in 1 .. size : (n \div Tens[size + 1 - i]) % 10 \in 0 .. 9
  <2>1. \A j \in 1 .. 5 : Tens[j] \in Nat \ {0}
    BY DEF Tens
  <2>2. \A i \in 1 .. size : n \div Tens[size + 1 - i] \in Nat
    BY <1>2, <2>1
  <2> QED BY <2>2
<1>5. \A i \in 1 .. size : to_string(n)[i] \in Symbols /\ IsDigit(to_string(n)[i])
  BY <1>3, <1>4, DigitsOneByOne
<1>6. to_string(n) \in Seq(Symbols) /\ Len(to_string(n)) = size
  BY <1>2, <1>3, <1>5
<1>7. Written(n, to_string(n), size)
  BY <1>2, <1>3, <1>5, <1>6 DEF Digit, Written
<1> QED BY <1>2, <1>7

\* No two ports are written alike.
LEMMA PortsDiffer ==
  ASSUME NEW m \in Nat, m < 65536, NEW n \in Nat, n < 65536, to_string(m) = to_string(n)
  PROVE  m = n
<1>1. PICK k \in 1 .. 5 : Written(m, to_string(m), k)
  BY PortInDigits
<1>2. Written(n, to_string(m), k)
  <2>1. PICK l \in 1 .. 5 : Written(n, to_string(m), l)
    BY PortInDigits
  <2>2. k = l
    BY <1>1, <2>1 DEF Written
  <2> QED BY <2>1, <2>2
<1>3. \A j \in 1 .. 5 : Tens[j] \in Nat \ {0}
  BY DEF Tens
<1>4. ASSUME NEW j \in 1 .. k PROVE (m \div Tens[j]) % 10 = (n \div Tens[j]) % 10
  <2>1. k + 1 - j \in 1 .. k /\ k + 1 - (k + 1 - j) = j
    OBVIOUS
  <2>2. m \div Tens[j] \in Nat /\ n \div Tens[j] \in Nat
    BY <1>3
  <2>3. (m \div Tens[j]) % 10 \in 0 .. 9 /\ (n \div Tens[j]) % 10 \in 0 .. 9
    BY <2>2
  <2>4. Digit(m, j) = Digit(n, j)
    BY <1>1, <1>2, <2>1 DEF Written
  <2> QED BY <2>3, <2>4, DigitsOneByOne DEF Digit
<1>10. m < Tens[k + 1] /\ n < Tens[k + 1]
  BY <1>1, <1>2 DEF Written
<1>5. CASE k = 1
  BY <1>10, <1>4, <1>5 DEF Tens
<1>6. CASE k = 2
  <2>1. m % 10 = n % 10 /\ (m \div 10) % 10 = (n \div 10) % 10 /\ m < 100 /\ n < 100
    BY <1>10, <1>4, <1>6 DEF Tens
  <2> QED BY <2>1
<1>7. CASE k = 3
  <2>1. /\ m % 10 = n % 10 /\ (m \div 10) % 10 = (n \div 10) % 10
        /\ (m \div 100) % 10 = (n \div 100) % 10 /\ m < 1000 /\ n < 1000
    BY <1>10, <1>4, <1>7 DEF Tens
  <2> QED BY <2>1
<1>8. CASE k = 4
  <2>1. /\ m % 10 = n % 10 /\ (m \div 10) % 10 = (n \div 10) % 10
        /\ (m \div 100) % 10 = (n \div 100) % 10 /\ (m \div 1000) % 10 = (n \div 1000) % 10
        /\ m < 10000 /\ n < 10000
    BY <1>10, <1>4, <1>8 DEF Tens
  <2> QED BY <2>1
<1>9. CASE k = 5
  <2>1. /\ m % 10 = n % 10 /\ (m \div 10) % 10 = (n \div 10) % 10
        /\ (m \div 100) % 10 = (n \div 100) % 10 /\ (m \div 1000) % 10 = (n \div 1000) % 10
        /\ (m \div 10000) % 10 = (n \div 10000) % 10 /\ m < 100000 /\ n < 100000
    BY <1>10, <1>4, <1>9 DEF Tens
  <2> QED BY <2>1
<1> QED BY <1>5, <1>6, <1>7, <1>8, <1>9

\* A key put together, and what stands where in it.
Joined(m, h, d, p) == <<m, "SP">> \o h \o <<":">> \o d \o p
Spells(key, m, h, d, p) ==
    /\ key \in Seq(Symbols) /\ Len(key) = Len(h) + Len(d) + Len(p) + 3
    /\ key[1] = m /\ key[Len(h) + 3] = ":"
    /\ \A i \in 1 .. Len(h) : key[i + 2] = h[i]
    /\ \A i \in 1 .. Len(d) : key[Len(h) + i + 3] = d[i]
    /\ \A i \in 1 .. Len(p) : key[Len(h) + Len(d) + i + 3] = p[i]

\* Two texts put together.
LEMMA TextsJoined ==
  ASSUME NEW s \in Seq(Symbols), NEW t \in Seq(Symbols)
  PROVE  /\ s \o t \in Seq(Symbols) /\ Len(s \o t) = Len(s) + Len(t)
         /\ \A i \in 1 .. Len(s) : (s \o t)[i] = s[i]
         /\ \A i \in 1 .. Len(t) : (s \o t)[Len(s) + i] = t[i]
BY ConcatProperties

LEMMA KeyText ==
  ASSUME NEW m \in Symbols, NEW h \in Seq(Symbols), NEW d \in Seq(Symbols), NEW p \in Seq(Symbols)
  PROVE  Spells(Joined(m, h, d, p), m, h, d, p)
<1> DEFINE k0 == <<m, "SP">>
           k1 == k0 \o h
           k2 == k1 \o <<":">>
           k3 == k2 \o d
           k4 == k3 \o p
<1>0. k0 \in Seq(Symbols) /\ Len(k0) = 2 /\ k0[1] = m
  BY TextAssumption
<1> HIDE DEF k0
<1>1. /\ k1 \in Seq(Symbols) /\ Len(k1) = Len(h) + 2 /\ k1[1] = m
      /\ \A i \in 1 .. Len(h) : k1[2 + i] = h[i]
  <2>1. /\ k1 \in Seq(Symbols) /\ Len(k1) = Len(k0) + Len(h)
        /\ \A i \in 1 .. Len(k0) : k1[i] = k0[i]
        /\ \A i \in 1 .. Len(h) : k1[Len(k0) + i] = h[i]
    BY <1>0, TextsJoined
  <2> HIDE DEF k1
  <2> QED BY <1>0, <2>1
<1> HIDE DEF k1
<1>2. /\ k2 \in Seq(Symbols) /\ Len(k2) = Len(h) + 3 /\ k2[1] = m /\ k2[Len(h) + 3] = ":"
      /\ \A i \in 1 .. Len(h) : k2[2 + i] = h[i]
  <2>1. <<":">> \in Seq(Symbols) /\ Len(<<":">>) = 1 /\ <<":">>[1] = ":"
    BY TextAssumption
  <2>2. /\ k2 \in Seq(Symbols) /\ Len(k2) = Len(k1) + Len(<<":">>)
        /\ \A i \in 1 .. Len(k1) : k2[i] = k1[i]
        /\ \A i \in 1 .. Len(<<":">>) : k2[Len(k1) + i] = <<":">>[i]
    BY <1>1, <2>1, TextsJoined
  <2> HIDE DEF k2
  <2> QED BY <1>1, <2>1, <2>2
<1> HIDE DEF k2
<1>3. /\ k3 \in Seq(Symbols) /\ Len(k3) = Len(h) + Len(d) + 3 /\ k3[1] = m /\ k3[Len(h) + 3] = ":"
      /\ \A i \in 1 .. Len(h) : k3[2 + i] = h[i]
      /\ \A i \in 1 .. Len(d) : k3[Len(h) + 3 + i] = d[i]
  <2>1. /\ k3 \in Seq(Symbols) /\ Len(k3) = Len(k2) + Len(d)
        /\ \A i \in 1 .. Len(k2) : k3[i] = k2[i]
        /\ \A i \in 1 .. Len(d) : k3[Len(k2) + i] = d[i]
    BY <1>2, TextsJoined
  <2> HIDE DEF k3
  <2> QED BY <1>2, <2>1
<1> HIDE DEF k3
<1>4. /\ k4 \in Seq(Symbols) /\ Len(k4) = Len(h) + Len(d) + Len(p) + 3
      /\ k4[1] = m /\ k4[Len(h) + 3] = ":"
      /\ \A i \in 1 .. Len(h) : k4[2 + i] = h[i]
      /\ \A i \in 1 .. Len(d) : k4[Len(h) + 3 + i] = d[i]
      /\ \A i \in 1 .. Len(p) : k4[Len(h) + Len(d) + 3 + i] = p[i]
  <2>1. /\ k4 \in Seq(Symbols) /\ Len(k4) = Len(k3) + Len(p)
        /\ \A i \in 1 .. Len(k3) : k4[i] = k3[i]
        /\ \A i \in 1 .. Len(p) : k4[Len(k3) + i] = p[i]
    BY <1>3, TextsJoined
  <2> HIDE DEF k4
  <2>2. Len(h) \in Nat /\ Len(d) \in Nat /\ Len(p) \in Nat
    OBVIOUS
  <2>3. /\ Len(k4) = Len(h) + Len(d) + Len(p) + 3 /\ k4[1] = m /\ k4[Len(h) + 3] = ":"
    BY <1>3, <2>1, <2>2
  <2>4. \A i \in 1 .. Len(h) : k4[2 + i] = h[i]
    <3> TAKE i \in 1 .. Len(h)
    <3>1. 2 + i \in 1 .. Len(k3)
      BY <1>3, <2>2
    <3> QED BY <1>3, <2>1, <3>1
  <2>5. \A i \in 1 .. Len(d) : k4[Len(h) + 3 + i] = d[i]
    <3> TAKE i \in 1 .. Len(d)
    <3>1. Len(h) + 3 + i \in 1 .. Len(k3)
      BY <1>3, <2>2
    <3> QED BY <1>3, <2>1, <3>1
  <2>6. \A i \in 1 .. Len(p) : k4[Len(h) + Len(d) + 3 + i] = p[i]
    BY <1>3, <2>1, <2>2
  <2> QED BY <2>1, <2>3, <2>4, <2>5, <2>6
<1>5. k4 = Joined(m, h, d, p)
  BY Zenon DEF Joined, k0, k1, k2, k3, k4
<1> HIDE DEF k4
<1>6. Spells(k4, m, h, d, p)
  BY <1>4 DEF Spells
<1> QED BY <1>5, <1>6

\* The host ends at the first colon, and the port where the digits end.
Separable(m, h, d, p) ==
    /\ m \in Symbols /\ h \in Seq(Symbols) /\ d \in Seq(Symbols) /\ p \in Seq(Symbols)
    /\ \A i \in 1 .. Len(h) : h[i] # ":"
    /\ \A i \in 1 .. Len(d) : IsDigit(d[i])
    /\ p # <<>> /\ ~IsDigit(p[1])

LEMMA KeyApart ==
  ASSUME NEW m, NEW h, NEW d, NEW p, Separable(m, h, d, p),
         NEW n, NEW g, NEW e, NEW q, Separable(n, g, e, q),
         Joined(m, h, d, p) = Joined(n, g, e, q)
  PROVE  m = n /\ h = g /\ d = e /\ p = q
<1>0. /\ m \in Symbols /\ h \in Seq(Symbols) /\ d \in Seq(Symbols) /\ p \in Seq(Symbols)
      /\ \A i \in 1 .. Len(h) : h[i] # ":"
      /\ \A i \in 1 .. Len(d) : IsDigit(d[i])
      /\ p # <<>> /\ ~IsDigit(p[1])
      /\ n \in Symbols /\ g \in Seq(Symbols) /\ e \in Seq(Symbols) /\ q \in Seq(Symbols)
      /\ \A i \in 1 .. Len(g) : g[i] # ":"
      /\ \A i \in 1 .. Len(e) : IsDigit(e[i])
      /\ q # <<>> /\ ~IsDigit(q[1])
  BY DEF Separable
<1>1. PICK key : Spells(key, m, h, d, p) /\ Spells(key, n, g, e, q)
  BY <1>0, KeyText
<1>2. /\ Len(key) = Len(h) + Len(d) + Len(p) + 3
      /\ key[1] = m /\ key[Len(h) + 3] = ":"
      /\ \A i \in 1 .. Len(h) : key[i + 2] = h[i]
      /\ \A i \in 1 .. Len(d) : key[Len(h) + i + 3] = d[i]
      /\ \A i \in 1 .. Len(p) : key[Len(h) + Len(d) + i + 3] = p[i]
  BY <1>1 DEF Spells
<1>3. /\ Len(key) = Len(g) + Len(e) + Len(q) + 3
      /\ key[1] = n /\ key[Len(g) + 3] = ":"
      /\ \A i \in 1 .. Len(g) : key[i + 2] = g[i]
      /\ \A i \in 1 .. Len(e) : key[Len(g) + i + 3] = e[i]
      /\ \A i \in 1 .. Len(q) : key[Len(g) + Len(e) + i + 3] = q[i]
  BY <1>1 DEF Spells
<1>4. /\ Len(h) \in Nat /\ Len(d) \in Nat /\ Len(p) \in Nat \ {0}
      /\ Len(g) \in Nat /\ Len(e) \in Nat /\ Len(q) \in Nat \ {0}
  BY <1>0, EmptySeq
<1>5. Len(h) = Len(g)
  <2>1. ~(Len(h) < Len(g))
    <3> SUFFICES ASSUME Len(h) < Len(g) PROVE FALSE
      OBVIOUS
    <3>1. Len(h) + 1 \in 1 .. Len(g)
      BY <1>4
    <3>2. key[(Len(h) + 1) + 2] = g[Len(h) + 1]
      BY <1>3, <3>1
    <3> QED BY <1>0, <1>2, <1>4, <3>1, <3>2
  <2>2. ~(Len(g) < Len(h))
    <3> SUFFICES ASSUME Len(g) < Len(h) PROVE FALSE
      OBVIOUS
    <3>1. Len(g) + 1 \in 1 .. Len(h)
      BY <1>4
    <3>2. key[(Len(g) + 1) + 2] = h[Len(g) + 1]
      BY <1>2, <3>1
    <3> QED BY <1>0, <1>3, <1>4, <3>1, <3>2
  <2> QED BY <1>4, <2>1, <2>2
<1>6. Len(d) = Len(e)
  <2>1. ~(Len(d) < Len(e))
    <3> SUFFICES ASSUME Len(d) < Len(e) PROVE FALSE
      OBVIOUS
    <3>1. Len(d) + 1 \in 1 .. Len(e) /\ 1 \in 1 .. Len(p)
      BY <1>4
    <3>2. key[Len(g) + (Len(d) + 1) + 3] = e[Len(d) + 1] /\ key[Len(h) + Len(d) + 1 + 3] = p[1]
      BY <1>2, <1>3, <3>1
    <3>3. e[Len(d) + 1] = p[1]
      BY <1>4, <1>5, <3>2
    <3> QED BY <1>0, <3>1, <3>3
  <2>2. ~(Len(e) < Len(d))
    <3> SUFFICES ASSUME Len(e) < Len(d) PROVE FALSE
      OBVIOUS
    <3>1. Len(e) + 1 \in 1 .. Len(d) /\ 1 \in 1 .. Len(q)
      BY <1>4
    <3>2. key[Len(h) + (Len(e) + 1) + 3] = d[Len(e) + 1] /\ key[Len(g) + Len(e) + 1 + 3] = q[1]
      BY <1>2, <1>3, <3>1
    <3>3. d[Len(e) + 1] = q[1]
      BY <1>4, <1>5, <3>2
    <3> QED BY <1>0, <3>1, <3>3
  <2> QED BY <1>4, <2>1, <2>2
<1>7. Len(p) = Len(q)
  BY <1>2, <1>3, <1>4, <1>5, <1>6
<1>8. \A i \in 1 .. Len(h) : h[i] = g[i]
  BY <1>2, <1>3, <1>5
<1>9. \A i \in 1 .. Len(d) : d[i] = e[i]
  BY <1>2, <1>3, <1>5, <1>6
<1>10. \A i \in 1 .. Len(p) : p[i] = q[i]
  BY <1>2, <1>3, <1>5, <1>6, <1>7
<1>11. h = g
  BY <1>5, <1>8, <1>0, SeqEqual
<1>12. d = e
  BY <1>6, <1>9, <1>0, SeqEqual
<1>13. p = q
  BY <1>7, <1>10, <1>0, SeqEqual
<1> QED BY <1>2, <1>3, <1>11, <1>12, <1>13

\* A key tells the method; and if no path can be taken for the end of a port, it
\* tells everything that an origin answers for (cacheKey, line 145).
LEMMA KeysTell ==
  ASSUME NEW r \in Parsed
  PROVE  /\ cacheKey(r)[1] = r.method
         /\ \A q \in Parsed :
               cacheKey(r) = cacheKey(q) /\ Plain(r.path) /\ Plain(q.path) => Resource(r) = Resource(q)
<1>1. \A q \in Parsed :
        /\ q.method \in Symbols /\ q.host \in Seq(Symbols) /\ q.path \in Seq(Symbols) /\ q.path # <<>>
        /\ \A i \in 1 .. Len(q.host) : q.host[i] # ":"
        /\ to_string(q.port) \in Seq(Symbols)
        /\ \A i \in 1 .. Len(to_string(q.port)) : IsDigit(to_string(q.port)[i])
  <2> TAKE q \in Parsed
  <2>1. /\ q.method \in Symbols /\ q.host \in Seq(Symbols) /\ q.path \in Seq(Symbols) \ {<<>>}
        /\ \A i \in 1 .. Len(q.host) : q.host[i] # ":"
        /\ q.port \in Nat /\ q.port < 65536
    BY ParsedText
  <2>2. PICK k \in 1 .. 5 : Written(q.port, to_string(q.port), k)
    BY <2>1, PortInDigits
  <2> QED BY <2>1, <2>2 DEF Written
<1>0. \A q : cacheKey(q) = Joined(q.method, q.host, to_string(q.port), q.path)
  BY Zenon DEF cacheKey, Joined
<1>2. cacheKey(r)[1] = r.method
  <2>1. Spells(Joined(r.method, r.host, to_string(r.port), r.path),
               r.method, r.host, to_string(r.port), r.path)
    BY <1>1, KeyText
  <2> QED BY <1>0, <2>1 DEF Spells
<1>3. ASSUME NEW q \in Parsed, cacheKey(r) = cacheKey(q), Plain(r.path), Plain(q.path)
      PROVE  Resource(r) = Resource(q)
  <2>1. ~IsDigit(r.path[1]) /\ ~IsDigit(q.path[1])
    BY <1>3 DEF Plain
  <2>2. Joined(r.method, r.host, to_string(r.port), r.path)
        = Joined(q.method, q.host, to_string(q.port), q.path)
    BY <1>0, <1>3
  <2>3. /\ r.method = q.method /\ r.host = q.host /\ to_string(r.port) = to_string(q.port)
        /\ r.path = q.path
    <3>1. Separable(r.method, r.host, to_string(r.port), r.path)
      BY <1>1, <2>1 DEF Separable
    <3>2. Separable(q.method, q.host, to_string(q.port), q.path)
      BY <1>1, <2>1 DEF Separable
    <3> QED BY <2>2, <3>1, <3>2, KeyApart
  <2>4. r.port = q.port
    BY <2>3, ParsedText, PortsDiffer
  <2> QED BY <2>3, <2>4 DEF Resource
<1> QED BY <1>2, <1>3

-------------------------------------------------------------------------------
(* Messages                                                                *)

USE ProxyAssumption, ValuesAssumption
USE DEF vars, connVars, history

Forwarded(c) == {Rewritten(c, r) : r \in Parsed}

\* Rewriting the headers of a request for the origin (proxy.cc, lines 186 to 189)
\* leaves alone what the cache and the blocklist go by.
LEMMA RewritingKeeps ==
  ASSUME NEW c, NEW r \in Parsed
  PROVE  /\ Rewritten(c, r).method = r.method
         /\ Rewritten(c, r).host = r.host
         /\ Rewritten(c, r).port = r.port
         /\ Rewritten(c, r).path = r.path
<1>1. PICK s : r = parseRequest(s)
  BY DEF Parsed
<1> QED BY <1>1 DEF Rewritten, parseRequest

\* ... so that the request as it is sent has the key and the resource of the one that came.
LEMMA RequestAsParsed ==
  ASSUME NEW c, NEW r \in Parsed \cup Forwarded(c)
  PROVE  \E q \in Parsed : /\ cacheKey(r) = cacheKey(q) /\ Resource(r) = Resource(q)
                           /\ r.method = q.method /\ r.host = q.host
<1>1. PICK q \in Parsed : r = q \/ r = Rewritten(c, q)
  BY DEF Forwarded
<1>2. r.method = q.method /\ r.host = q.host /\ r.port = q.port /\ r.path = q.path
  BY <1>1, RewritingKeeps
<1>3. to_string(r.port) = to_string(q.port)
  BY <1>2, Zenon
<1>4. cacheKey(r) = cacheKey(q)
  BY <1>2, <1>3 DEF cacheKey
<1>5. Resource(r) = Resource(q)
  BY <1>2 DEF Resource
<1> QED BY <1>2, <1>4, <1>5

\* A response is to a request with that key.
ForKey(p, key) == \E q \in Parsed : p.of = Resource(q) /\ cacheKey(q) = key

\* A request is known to the cache under a key of Keys, before and after rewriting.
LEMMA KeyOfRequest ==
  ASSUME NEW c, NEW r \in Parsed \cup Forwarded(c)
  PROVE  /\ cacheKey(r) \in Keys /\ cacheKey(r)[1] = r.method
         /\ \A p : p.of = Resource(r) => ForKey(p, cacheKey(r))
<1>1. PICK q \in Parsed : /\ cacheKey(r) = cacheKey(q) /\ Resource(r) = Resource(q)
                          /\ r.method = q.method
  BY RequestAsParsed
<1>2. cacheKey(q)[1] = q.method
  BY KeysTell
<1>3. cacheKey(r) \in Keys
  BY <1>1 DEF Keys
<1> QED BY <1>1, <1>2, <1>3 DEF ForKey

\* What is sent on to a client of r is a response, of the resource of r.
LEMMA IngestedIsResponse ==
  ASSUME NEW c, NEW r \in Parsed \cup Forwarded(c), NEW s \in Replies
  PROVE  /\ Of(Resource(r), ingestFrom(s)) \in Responses
         /\ Of(Resource(r), ingestFrom(s)).of = Resource(r)
<1>1. PICK q \in Parsed : Resource(r) = Resource(q)
  BY RequestAsParsed
<1>2. Of(Resource(q), ingestFrom(s)) \in Responses
  BY DEF Responses
<1> QED BY <1>1, <1>2 DEF Of

\* The time for which a response to a request is kept is a number.
LEMMA TTLOfRequest ==
  ASSUME NEW c, NEW r \in Parsed \cup Forwarded(c), NEW p \in Responses
  PROVE  cacheTTL(r, p) \in Nat
<1>1. PICK q \in Parsed : r.method = q.method
  BY RequestAsParsed
<1>2. cacheTTL(r, p) = cacheTTL(q, p)
  BY <1>1 DEF cacheTTL
<1> QED BY <1>2

\* What a time to live says of a response (cacheTTL, lines 119 to 135).
LEMMA PositiveTTL ==
  ASSUME NEW r, NEW p, cacheTTL(r, p) # 0
  PROVE  /\ r.method = "GET" /\ p.code = 200
         /\ \A i \in 1 .. Len(p.headers) :
               /\ lower(p.headers[i][1]) = "cache-control"
               /\ \A j \in 1 .. i - 1 : lower(p.headers[j][1]) # "cache-control"
               => p.headers[i][2].directives \cap Restricting = {}
<1> DEFINE Named(i) == lower(p.headers[i][1]) = "cache-control"
           I == {i \in 1 .. Len(p.headers) : Named(i)}
<1>1. /\ r.method = "GET" /\ p.code = 200
      /\ get(p.headers, "cache-control", NoCacheControl).directives \cap Restricting = {}
  BY DEF cacheTTL, Restricting
<1>2. ASSUME NEW i \in 1 .. Len(p.headers), Named(i), \A j \in 1 .. i - 1 : ~Named(j)
      PROVE  p.headers[i][2].directives \cap Restricting = {}
  <2>1. i \in I /\ \A j \in I : i =< j
    BY <1>2
  <2>2. Min(I) = i
    BY <2>1 DEF Min
  <2>3. SelectInSeq(p.headers, LAMBDA h : lower(h[1]) = "cache-control") = i
    <3>1. I # {}
      BY <2>1
    <3> QED BY <2>2, <3>1 DEF SelectInSeq
  <2>4. get(p.headers, "cache-control", NoCacheControl) = p.headers[i][2]
    BY <1>2, <2>3 DEF get
  <2> QED BY <1>1, <2>4
<1> QED BY <1>1, <1>2

-------------------------------------------------------------------------------
(* The inductive invariant                                                 *)

\* How far a request is known at each step of serviceConnection, and what a response
\* that did not come from the proxy itself is of: the request, or one with its key.
ConnInv ==
  \A c \in Conns :
    /\ pc[c] \in {"idle", "queued", "parse"} => req[c] = None
    /\ pc[c] \in {"check", "lookup"} => req[c] \in Parsed
    /\ pc[c] \in {"connect", "send", "ingest", "store"} => req[c] \in Forwarded(c)
    /\ pc[c] = "reply" => req[c] \in Parsed \cup Forwarded(c)
    /\ pc[c] = "store" => via[c] = "origin"
    /\ via[c] = "cache" => pc[c] \in {"reply", "closed"}
    /\ via[c] = "origin" => pc[c] \in {"store", "reply", "closed"}
    /\ via[c] = "origin" => resp[c] \in Responses /\ resp[c].of = Resource(req[c])
    /\ via[c] = "cache" => /\ req[c] \in Parsed /\ resp[c] \in Responses
                          /\ ForKey(resp[c], cacheKey(req[c]))

\* Past the check no request is for a blocked host; one that is has its answer.
BlockInv ==
  /\ contacted \cap Blocked = {}
  /\ \A c \in Conns :
       /\ pc[c] \in {"lookup", "connect", "send", "ingest", "store"} =>
             req[c].host \notin Blocked
       /\ pc[c] \in {"reply", "closed"} /\ req[c] # None /\ req[c].host \in Blocked =>
             resp[c].code = 403

Entry(s) == [serialized |-> s.resp, expires |-> s.at + TTL(s)]

\* What has been stored, and that the cache has nothing else: an entry is a store with
\* the time at which it expires.
CacheInv ==
  /\ looked \in [Conns -> Nat]
  /\ stored \subseteq [key : Keys, resp : Responses, at : 0 .. now]
  /\ \A s \in stored : TTL(s) \in Nat \ {0} /\ ForKey(s.resp, s.key)
  /\ \A k \in Keys : cache[k] # None => \E s \in stored : s.key = k /\ cache[k] = Entry(s)

\* The last store of a key is in the cache until it expires.
LatestInv ==
  \A k \in Keys :
    \/ Latest(k) = {}
    \/ \E s \in Latest(k) : s.at + TTL(s) =< now \/ cache[k] = Entry(s)

PInv == TypeOK /\ ConnInv /\ BlockInv /\ CacheInv /\ LatestInv /\ HitIsFresh

-------------------------------------------------------------------------------
(* Types, and what each connection knows                                   *)

\* A step that takes no connection into service keeps the number of busy threads.
LEMMA NoneTaken ==
  ASSUME Cardinality(InService) =< Threads, InService' \subseteq InService
  PROVE  Cardinality(InService') =< Threads
<1>1. IsFiniteSet(InService)
  BY FS_Subset DEF InService
<1>2. Cardinality(InService') =< Cardinality(InService)
  BY <1>1, FS_Subset
<1>3. Cardinality(InService) \in Nat /\ Cardinality(InService') \in Nat
  BY <1>1, FS_Subset, FS_CardinalityType
<1> QED BY <1>2, <1>3

Simple(code) == [code |-> code, headers |-> <<>>, body |-> 0]

\* Each step of serviceConnection, of the accept loop and of the environment keeps the
\* types and moves its own connection along.
LEMMA ConnStep ==
  ASSUME TypeOK, ConnInv, CacheInv, [Next]_vars
  PROVE  TypeOK' /\ ConnInv'
<1> USE DEF TypeOK, ConnInv, ConnPC, Goto
<1>1. ASSUME NEW c \in Conns, Accept(c) PROVE TypeOK' /\ ConnInv'
  <2>1. InService' \subseteq InService
    BY <1>1 DEF Accept, InService
  <2> QED BY <1>1, <2>1, NoneTaken DEF Accept
<1>2. ASSUME NEW c \in Conns, Start(c) PROVE TypeOK' /\ ConnInv'
  <2>1. InService' = InService \cup {c} /\ c \notin InService
    BY <1>2 DEF Start, InService
  <2>2. IsFiniteSet(InService)
    BY FS_Subset DEF InService
  <2>3. Cardinality(InService') = Cardinality(InService) + 1 /\ Cardinality(InService) \in Nat
    BY <2>1, <2>2, FS_AddElement, FS_CardinalityType
  <2>4. Cardinality(InService') =< Threads
    BY <1>2, <2>3 DEF Start
  <2> QED BY <1>2, <2>4 DEF Start
<1>3. ASSUME NEW c \in Conns, NEW s \in Requests, Parse(c, s) PROVE TypeOK' /\ ConnInv'
  <2>1. InService' \subseteq InService
    BY <1>3 DEF Parse, InService
  <2>2. s.first # NoLine => parseRequest(s) \in Parsed
    BY DEF Parsed
  <2>3. \A d \in Conns : req'[d] \in Known(d)
    BY <1>3, <2>2 DEF Parse, Known
  <2>4. ConnInv'
    BY <1>3, <2>2 DEF Parse
  <2> QED BY <1>3, <2>1, <2>3, <2>4, NoneTaken DEF Parse
<1>4. ASSUME NEW c \in Conns, Check(c) PROVE TypeOK' /\ ConnInv'
  <2>1. InService' \subseteq InService
    BY <1>4 DEF Check, InService
  <2>2. Simple(403) \in Answers
    BY DEF Simple, Answers
  <2>3. /\ resp' = resp \/ resp' = [resp EXCEPT ![c] = Simple(403)]
        /\ via' = via \/ via' = [via EXCEPT ![c] = "proxy"]
    BY <1>4 DEF Check, sendSimple, Simple
  <2>4. TypeOK'
    BY <1>4, <2>1, <2>2, <2>3, NoneTaken DEF Check
  <2> QED BY <1>4, <2>4 DEF Check, sendSimple
<1>5. ASSUME NEW c \in Conns, Lookup(c) PROVE TypeOK' /\ ConnInv'
  <2>1. InService' \subseteq InService
    BY <1>5 DEF Lookup, InService
  <2>2. req[c] \in Parsed /\ cacheKey(req[c]) \in Keys
    BY <1>5, KeyOfRequest DEF Lookup
  <2> DEFINE k == cacheKey(req[c])
             hit == req[c].method = "GET" /\ Fresh(k)
  <2>3. ASSUME hit
        PROVE  cache[k].serialized \in Responses /\ ForKey(cache[k].serialized, k)
    BY <2>2, <2>3 DEF Fresh, CacheInv, Entry
  <2>4. \A d \in Conns : req'[d] \in Known(d)
    BY <1>5, <2>2 DEF Lookup, Known
  <2>5. TypeOK'
    BY <1>5, <2>1, <2>2, <2>3, <2>4, NoneTaken DEF Lookup
  <2>6. CASE hit
    BY <1>5, <2>2, <2>3, <2>5, <2>6 DEF Lookup
  <2>7. CASE ~hit
    BY <1>5, <2>2, <2>5, <2>7 DEF Lookup, Forwarded
  <2> QED BY <2>6, <2>7
<1>6. ASSUME NEW c \in Conns, Store(c) PROVE TypeOK' /\ ConnInv'
  <2>1. InService' \subseteq InService
    BY <1>6 DEF Store, InService
  <2>2. /\ req[c] \in Forwarded(c) /\ cacheKey(req[c]) \in Keys /\ resp[c] \in Responses
        /\ cacheTTL(req[c], resp[c]) \in Nat
    BY <1>6, KeyOfRequest, TTLOfRequest DEF Store
  <2>3. cache' \in [Keys -> [serialized : Responses, expires : Nat] \cup {None}]
    BY <1>6, <2>2 DEF Store, store
  <2> QED BY <1>6, <2>1, <2>2, <2>3, NoneTaken DEF Store
<1>7. ASSUME NEW c \in Conns, Connect(c) \/ Send(c) \/ Reply(c) PROVE TypeOK' /\ ConnInv'
  <2>1. InService' \subseteq InService
    BY <1>7 DEF Connect, Send, Reply, InService
  <2> QED BY <1>7, <2>1, NoneTaken DEF Connect, Send, Reply
<1>8. ASSUME NEW c \in Conns, ConnectFails(c) \/ SendFails(c) PROVE TypeOK' /\ ConnInv'
  <2>1. InService' \subseteq InService
    BY <1>8 DEF ConnectFails, SendFails, InService
  <2>2. Simple(502) \in Answers
    BY DEF Simple, Answers
  <2>3. /\ resp' = [resp EXCEPT ![c] = Simple(502)]
        /\ via' = [via EXCEPT ![c] = "proxy"]
    BY <1>8 DEF ConnectFails, SendFails, sendSimple, Simple
  <2>4. TypeOK'
    BY <1>8, <2>1, <2>2, <2>3, NoneTaken DEF ConnectFails, SendFails
  <2>5. /\ pc[c] \in {"connect", "send"} /\ pc' = [pc EXCEPT ![c] = "reply"]
        /\ req' = req
    BY <1>8 DEF ConnectFails, SendFails
  <2>6. ConnInv'
    BY <2>3, <2>5
  <2> QED BY <2>4, <2>6
<1>9. ASSUME NEW c \in Conns, NEW s \in Replies, Ingest(c, s) PROVE TypeOK' /\ ConnInv'
  <2>1. InService' \subseteq InService
    BY <1>9 DEF Ingest, InService
  <2>2. /\ Of(Resource(req[c]), ingestFrom(s)) \in Responses
        /\ Of(Resource(req[c]), ingestFrom(s)).of = Resource(req[c])
    BY <1>9, IngestedIsResponse DEF Ingest
  <2> QED BY <1>9, <2>1, <2>2, NoneTaken DEF Ingest
<1>10. CASE Tick \/ Over \/ UNCHANGED vars \/ \E c \in Conns : BrokenPipe(c)
  <2>1. UNCHANGED <<connVars, cache>>
    BY <1>10 DEF Tick, Over, BrokenPipe
  <2>2. now' \in 0 .. MaxTime
    BY <1>10 DEF Tick, Over, BrokenPipe
  <2>3. killed' \in BOOLEAN
    BY <1>10, Zenon DEF Tick, Over, BrokenPipe
  <2>4. InService' \subseteq InService
    BY <2>1 DEF InService
  <2> QED BY <2>1, <2>2, <2>3, <2>4, NoneTaken
<1> QED BY <1>1, <1>2, <1>3, <1>4, <1>5, <1>6, <1>7, <1>8, <1>9, <1>10 DEF Next, Serve

-------------------------------------------------------------------------------
(* The blocklist                                                           *)

\* A request passes the check only if its host is not blocked, and its host does not
\* change after that.
LEMMA BlockStep ==
  ASSUME TypeOK, ConnInv, BlockInv, [Next]_vars
  PROVE  BlockInv'
<1> USE DEF TypeOK, BlockInv, ConnPC, Goto
<1>1. ASSUME NEW c \in Conns, Check(c) PROVE BlockInv'
  BY <1>1 DEF Check, sendSimple, blocks
<1>2. ASSUME NEW c \in Conns, Lookup(c) PROVE BlockInv'
  <2>1. req[c] \in Parsed /\ Rewritten(c, req[c]).host = req[c].host
    BY <1>2, RewritingKeeps DEF Lookup, ConnInv
  <2>2. req'[c].host = req[c].host /\ \A d \in Conns \ {c} : req'[d] = req[d]
    BY <1>2, <2>1 DEF Lookup
  <2>3. req[c].host \notin Blocked
    BY <1>2 DEF Lookup
  <2>4. /\ \A d \in Conns \ {c} : resp'[d] = resp[d] /\ pc'[d] = pc[d]
        /\ contacted' = contacted
    BY <1>2 DEF Lookup
  <2> QED BY <2>2, <2>3, <2>4
<1>3. ASSUME NEW c \in Conns, NEW s \in Requests, Parse(c, s) PROVE BlockInv'
  BY <1>3 DEF Parse, ConnInv
<1>4. ASSUME NEW c \in Conns, NEW s \in Replies, Ingest(c, s) PROVE BlockInv'
  BY <1>4 DEF Ingest
<1>5. ASSUME NEW c \in Conns, ConnectFails(c) \/ SendFails(c) PROVE BlockInv'
  BY <1>5 DEF ConnectFails, SendFails, sendSimple
<1>6. ASSUME NEW c \in Conns, Connect(c) PROVE BlockInv'
  BY <1>6 DEF Connect
<1>7. ASSUME NEW c \in Conns,
             Accept(c) \/ Start(c) \/ Store(c) \/ Send(c) \/ Reply(c) \/ BrokenPipe(c)
      PROVE  BlockInv'
  BY <1>7 DEF Accept, Start, Store, Send, Reply, BrokenPipe
<1>8. CASE Tick \/ Over \/ UNCHANGED vars
  BY <1>8 DEF Tick, Over
<1> QED BY <1>1, <1>2, <1>3, <1>4, <1>5, <1>6, <1>7, <1>8 DEF Next, Serve

-------------------------------------------------------------------------------
(* The cache                                                               *)

\* What Store adds to the history and puts into the cache.
LEMMA StoreAdds ==
  ASSUME TypeOK, ConnInv, NEW c \in Conns, Store(c)
  PROVE  \/ UNCHANGED <<cache, stored>>
         \/ \E s \in [key : Keys, resp : Responses, at : {now}] :
               /\ s.key = cacheKey(req[c]) /\ s.resp = resp[c]
               /\ TTL(s) \in Nat \ {0} /\ ForKey(s.resp, s.key)
               /\ stored' = stored \cup {s}
               /\ cache' = [cache EXCEPT ![s.key] = Entry(s)]
<1> DEFINE ttl == cacheTTL(req[c], resp[c])
           s == [key |-> cacheKey(req[c]), resp |-> resp[c], at |-> now]
<1>1. req[c] \in Forwarded(c) /\ resp[c] \in Responses /\ resp[c].of = Resource(req[c])
  BY DEF Store, Goto, ConnInv
<1>2. /\ cacheKey(req[c]) \in Keys /\ cacheKey(req[c])[1] = req[c].method
      /\ ForKey(resp[c], cacheKey(req[c])) /\ ttl \in Nat
  BY <1>1, KeyOfRequest, TTLOfRequest
<1>3. TTL(s) = ttl
  BY <1>2 DEF TTL, cacheTTL
<1>4. CASE ttl = 0
  BY <1>4 DEF Store
<1>5. CASE ttl # 0
  <2>1. ttl > 0 /\ stored' = stored \cup {s} /\ cache' = store(s.key, s.resp, ttl)
    BY <1>2, <1>5 DEF Store
  <2>2. cache' = [cache EXCEPT ![s.key] = Entry(s)]
    BY <1>3, <2>1 DEF store, Entry
  <2>3. s \in [key : Keys, resp : Responses, at : {now}]
    BY <1>1, <1>2
  <2>4. TTL(s) \in Nat \ {0} /\ ForKey(s.resp, s.key)
    BY <1>1, <1>2, <1>3, <1>5
  <2> QED BY <2>1, <2>2, <2>3, <2>4
<1> QED BY <1>4, <1>5

\* The steps that neither store nor look only may let time pass.
Otherwise(c) ==
  \/ Accept(c) \/ Start(c) \/ Check(c) \/ Reply(c) \/ Connect(c) \/ ConnectFails(c)
  \/ Send(c) \/ SendFails(c) \/ BrokenPipe(c)
  \/ \E s \in Requests : Parse(c, s)
  \/ \E s \in Replies : Ingest(c, s)

LEMMA OtherSteps ==
  ASSUME TypeOK, Tick \/ Over \/ UNCHANGED vars \/ \E c \in Conns : Otherwise(c)
  PROVE  UNCHANGED <<cache, stored, looked>> /\ now' \in Nat /\ now =< now'
<1>1. CASE Tick
  BY <1>1 DEF Tick, TypeOK
<1>2. CASE Over \/ UNCHANGED vars
  BY <1>2 DEF Over, TypeOK
<1>3. ASSUME NEW c \in Conns, Otherwise(c) PROVE UNCHANGED <<cache, stored, looked, now>>
  BY <1>3 DEF Otherwise, Accept, Start, Check, Reply, Connect, ConnectFails, Send,
       SendFails, BrokenPipe, Parse, Ingest
<1> QED BY <1>1, <1>2, <1>3 DEF TypeOK

\* The cache never holds what was not stored, nor beyond its time.
LEMMA CacheStep ==
  ASSUME TypeOK, ConnInv, CacheInv, [Next]_vars
  PROVE  CacheInv'
<1> USE DEF TypeOK, CacheInv
<1>1. ASSUME NEW c \in Conns, Store(c) PROVE CacheInv'
  <2>1. looked' = looked /\ now' = now
    BY <1>1 DEF Store
  <2>2. CASE UNCHANGED <<cache, stored>>
    BY <2>1, <2>2 DEF Entry, TTL
  <2>3. ASSUME NEW s \in [key : Keys, resp : Responses, at : {now}],
               TTL(s) \in Nat \ {0}, ForKey(s.resp, s.key),
               stored' = stored \cup {s}, cache' = [cache EXCEPT ![s.key] = Entry(s)]
        PROVE  CacheInv'
    <3>1. s \in [key : Keys, resp : Responses, at : 0 .. now]
      BY <2>3
    <3>2. \A k \in Keys : cache'[k] # None => \E t \in stored' : t.key = k /\ cache'[k] = Entry(t)
      <4> SUFFICES ASSUME NEW k \in Keys, cache'[k] # None
                   PROVE  \E t \in stored' : t.key = k /\ cache'[k] = Entry(t)
        OBVIOUS
      <4>1. CASE k = s.key
        BY <2>3, <4>1
      <4>2. CASE k # s.key
        BY <2>3, <4>2
      <4> QED BY <4>1, <4>2
    <3> QED BY <2>1, <2>3, <3>1, <3>2
  <2> QED BY <1>1, <2>2, <2>3, StoreAdds
<1>2. ASSUME NEW c \in Conns, Lookup(c) PROVE CacheInv'
  <2>1. looked' \in [Conns -> Nat] /\ UNCHANGED <<now, stored>>
    BY <1>2 DEF Lookup
  <2>2. \A k \in Keys : cache'[k] = cache[k] \/ cache'[k] = None
    BY <1>2 DEF Lookup
  <2> QED BY <2>1, <2>2
<1>3. CASE Tick \/ Over \/ UNCHANGED vars \/ \E c \in Conns : Otherwise(c)
  <2>1. UNCHANGED <<cache, stored, looked>> /\ now' \in Nat /\ now =< now'
    BY <1>3, OtherSteps
  <2> QED BY <2>1
<1> QED BY <1>1, <1>2, <1>3 DEF Next, Serve, Otherwise

\* The last store of a key stays until it expires: another key's is none of its
\* business, and Lookup drops only what has expired.
LEMMA LatestStep ==
  ASSUME TypeOK, ConnInv, CacheInv, LatestInv, [Next]_vars
  PROVE  LatestInv'
<1>1. ASSUME NEW c \in Conns, Store(c) PROVE LatestInv'
  <2>1. now' = now
    BY <1>1 DEF Store
  <2>2. CASE UNCHANGED <<cache, stored>>
    BY <2>1, <2>2 DEF LatestInv, Latest, Entry, TTL
  <2>3. ASSUME NEW s \in [key : Keys, resp : Responses, at : {now}],
               stored' = stored \cup {s}, cache' = [cache EXCEPT ![s.key] = Entry(s)]
        PROVE  LatestInv'
    <3> SUFFICES ASSUME NEW k \in Keys
                 PROVE  \/ Latest(k)' = {}
                        \/ \E t \in Latest(k)' : t.at + TTL(t) =< now' \/ cache'[k] = Entry(t)
      BY DEF LatestInv, Entry, TTL
    <3>1. CASE k = s.key
      <4>1. s.at = now /\ \A t \in stored' : t.at =< s.at
        BY <2>3 DEF CacheInv, TypeOK
      <4>2. s \in Latest(k)'
        BY <2>3, <3>1, <4>1 DEF Latest
      <4>3. cache'[k] = Entry(s)
        BY <2>3, <3>1 DEF TypeOK
      <4> QED BY <4>2, <4>3
    <3>2. CASE k # s.key
      <4>1. Latest(k)' = Latest(k)
        BY <2>3, <3>2 DEF Latest
      <4>2. cache'[k] = cache[k]
        BY <2>3, <3>2 DEF TypeOK
      <4> QED BY <2>1, <4>1, <4>2 DEF LatestInv
    <3> QED BY <3>1, <3>2
  <2> QED BY <1>1, <2>2, <2>3, StoreAdds
<1>2. ASSUME NEW c \in Conns, Lookup(c) PROVE LatestInv'
  <2>1. UNCHANGED <<now, stored>>
    BY <1>2 DEF Lookup
  <2>2. \A k \in Keys : cache'[k] = cache[k] \/ ~Fresh(k)
    BY <1>2 DEF Lookup, TypeOK
  <2> SUFFICES ASSUME NEW k \in Keys, NEW s \in Latest(k), cache[k] = Entry(s), ~Fresh(k)
               PROVE  s.at + TTL(s) =< now
    BY <2>1, <2>2 DEF LatestInv, Latest, Entry, TTL
  <2>3. s \in stored /\ s.at \in Nat /\ TTL(s) \in Nat /\ s.resp \in Responses
    BY DEF Latest, CacheInv
  <2>4. Entry(s) \in [serialized : Responses, expires : Nat]
    BY <2>3 DEF Entry
  <2>5. cache[k] # None /\ cache[k].expires = s.at + TTL(s)
    BY <2>4 DEF Entry
  <2> QED BY <2>3, <2>5 DEF Fresh, TypeOK
<1>3. CASE Tick \/ Over \/ UNCHANGED vars \/ \E c \in Conns : Otherwise(c)
  <2>1. UNCHANGED <<cache, stored>> /\ now' \in Nat /\ now \in Nat /\ now =< now'
    BY <1>3, OtherSteps DEF TypeOK
  <2>2. \A k : \A s \in Latest(k) : s.at \in Nat /\ TTL(s) \in Nat
    BY DEF Latest, CacheInv
  <2>3. \A k : Latest(k)' = Latest(k)
    BY <2>1 DEF Latest
  <2> SUFFICES ASSUME NEW k \in Keys, NEW s \in Latest(k),
                      s.at + TTL(s) =< now \/ cache[k] = Entry(s)
               PROVE  s.at + TTL(s) =< now' \/ cache'[k] = Entry(s)
    BY <2>3 DEF LatestInv, Entry, TTL
  <2> QED BY <2>1, <2>2
<1> QED BY <1>1, <1>2, <1>3 DEF Next, Serve, Otherwise

\* A hit is fresh when it is made, and is not touched afterwards.
LEMMA HitStep ==
  ASSUME TypeOK, ConnInv, CacheInv, HitIsFresh, [Next]_vars
  PROVE  HitIsFresh'
<1> DEFINE
      Allowed(p) ==
        \A i \in 1 .. Len(p.headers) :
          lower(p.headers[i][1]) = "cache-control"
          /\ (\A j \in 1 .. i - 1 : lower(p.headers[j][1]) # "cache-control")
          => p.headers[i][2].directives \cap Restricting = {}
      Good(s, r, p, l) ==
        /\ s.key = cacheKey(r) /\ s.resp = p
        /\ s.at =< l /\ l < s.at + TTL(s)
        /\ s.key[1] = "GET" /\ s.resp.code = 200
        /\ Allowed(s.resp)
<1>1. HitIsFresh <=>
        \A c \in Conns : via[c] = "cache" => \E s \in stored : Good(s, req[c], resp[c], looked[c])
  BY DEF HitIsFresh
<1>2. HitIsFresh' <=>
        \A c \in Conns : via'[c] = "cache" =>
            \E s \in stored' : Good(s, req'[c], resp'[c], looked'[c])
  BY DEF HitIsFresh, TTL
<1> HIDE DEF Good, Allowed
\* Whoever has its response from the cache already keeps all that is said of it.
<1>3. ASSUME NEW d \in Conns, via[d] = "cache",
             UNCHANGED <<req[d], resp[d], looked[d]>>, stored \subseteq stored'
      PROVE  \E s \in stored' : Good(s, req'[d], resp'[d], looked'[d])
  BY <1>1, <1>3
<1>4. ASSUME NEW c \in Conns, Lookup(c) PROVE HitIsFresh'
  <2>1. pc[c] = "lookup" /\ via[c] # "cache" /\ req[c] \in Parsed
    BY <1>4 DEF Lookup, Goto, ConnInv
  <2>2. /\ stored' = stored
        /\ \A d \in Conns \ {c} :
              /\ UNCHANGED <<req[d], resp[d], looked[d]>> /\ via'[d] = via[d]
    BY <1>4 DEF Lookup, TypeOK, CacheInv
  <2>3. ASSUME via'[c] = "cache"
        PROVE  \E s \in stored' : Good(s, req'[c], resp'[c], looked'[c])
    <3> DEFINE k == cacheKey(req[c])
    <3>1. /\ Fresh(k) /\ req[c].method = "GET"
      BY <1>4, <2>1, <2>3 DEF Lookup, TypeOK
    <3>2. req'[c] = req[c] /\ resp'[c] = cache[k].serialized /\ looked'[c] = now
      BY <1>4, <3>1 DEF Lookup, TypeOK, CacheInv
    <3>3. k \in Keys
      BY <2>1, KeyOfRequest
    <3>4. PICK s \in stored : s.key = k /\ cache[k] = Entry(s)
      BY <3>1, <3>3 DEF Fresh, CacheInv
    <3>5. /\ s.at \in Nat /\ s.at =< now /\ TTL(s) \in Nat \ {0}
          /\ cache[k].serialized = s.resp /\ cache[k].expires = s.at + TTL(s)
      BY <3>4 DEF CacheInv, Entry, TypeOK
    <3>6. now < s.at + TTL(s)
      BY <3>1, <3>5 DEF Fresh
    <3>7. s.key[1] = "GET" /\ s.resp.code = 200 /\ Allowed(s.resp)
      <4>1. cacheTTL([method |-> s.key[1]], s.resp) # 0
        BY <3>5 DEF TTL
      <4>2. [method |-> s.key[1]].method = s.key[1]
        OBVIOUS
      <4>3. PICK r : r.method = s.key[1] /\ cacheTTL(r, s.resp) # 0
        BY <4>1, <4>2, Zenon
      <4>4. r.method = "GET" /\ s.resp.code = 200 /\ Allowed(s.resp)
        BY <4>3, PositiveTTL DEF Allowed
      <4> QED BY <4>3, <4>4
    <3>8. Good(s, req'[c], resp'[c], looked'[c])
      BY <3>2, <3>4, <3>5, <3>6, <3>7 DEF Good
    <3> QED BY <2>2, <3>8
  <2> QED BY <1>2, <1>3, <2>2, <2>3
<1>5. ASSUME NEW c \in Conns, Store(c) PROVE HitIsFresh'
  <2>1. UNCHANGED <<req, resp, via, looked>> /\ stored \subseteq stored'
    BY <1>5 DEF Store
  <2> QED BY <1>2, <1>3, <2>1
<1>6. ASSUME NEW c \in Conns, Otherwise(c) PROVE HitIsFresh'
  <2>1. UNCHANGED <<stored, looked>>
    BY <1>6, OtherSteps
  <2>2. \A d \in Conns : via'[d] = "cache" => via[d] = "cache" /\ UNCHANGED <<req[d], resp[d]>>
    BY <1>6 DEF Otherwise, Accept, Start, Check, Reply, Connect, ConnectFails, Send,
         SendFails, BrokenPipe, Parse, Ingest, sendSimple, Goto, TypeOK, ConnInv
  <2> QED BY <1>2, <1>3, <2>1, <2>2
<1>7. CASE Tick \/ Over \/ UNCHANGED vars
  <2>1. UNCHANGED <<connVars, stored, looked>>
    BY <1>7 DEF Tick, Over
  <2> QED BY <1>2, <1>3, <2>1
<1> QED BY <1>4, <1>5, <1>6, <1>7 DEF Next, Serve, Otherwise

-------------------------------------------------------------------------------
(* The theorems                                                            *)

\* The invariant holds when main starts to accept.
LEMMA Initially == Init => PInv
<1> SUFFICES ASSUME Init PROVE PInv
  OBVIOUS
<1>1. InService = {}
  BY DEF Init, InService
<1>2. TypeOK
  <2>1. Cardinality(InService) =< Threads
    BY <1>1, FS_EmptySet
  <2>2. \A c \in Conns : None \in Known(c)
    BY DEF Known
  <2>3. req \in [Conns -> UNION {Known(c) : c \in Conns}] /\ \A c \in Conns : req[c] \in Known(c)
    BY <2>2 DEF Init
  <2>4. pc \in [Conns -> ConnPC] /\ now \in 0 .. MaxTime
    BY DEF Init, ConnPC
  <2> QED BY <2>1, <2>3, <2>4 DEF Init, TypeOK
<1>3. ConnInv /\ BlockInv /\ HitIsFresh
  BY DEF Init, ConnInv, BlockInv, HitIsFresh
<1>4. CacheInv /\ LatestInv
  BY DEF Init, CacheInv, LatestInv, Latest
<1> QED BY <1>2, <1>3, <1>4 DEF PInv

\* Types, what a connection knows, the blocklist and the cache are invariant together.
LEMMA Invariance == Spec => []PInv
<1>1. PInv /\ [Next]_vars => PInv'
  BY ConnStep, BlockStep, CacheStep, LatestStep, HitStep DEF PInv
<1> QED BY <1>1, Initially, PTL DEF Spec

\* Whatever threads stored and looked up in between, a client is given a response to
\* its own method, host, port and path, unless it comes from the cache and one of the
\* two paths starts with a digit, so that the port before it may seem longer.
THEOREM OwnResponse == Spec => []NoCrossTalk
<1>1. PInv => NoCrossTalk
  <2> SUFFICES ASSUME PInv, NEW c \in Conns, via[c] \in {"cache", "origin"},
                      via[c] = "cache" => Plain(req[c].path) /\ Plain(resp[c].of.path)
               PROVE  resp[c].of = Resource(req[c])
    BY DEF PInv, NoCrossTalk
  <2>1. CASE via[c] = "origin"
    BY <2>1 DEF PInv, ConnInv
  <2>2. CASE via[c] = "cache"
    <3>1. PICK q \in Parsed : resp[c].of = Resource(q) /\ cacheKey(q) = cacheKey(req[c])
      BY <2>2 DEF PInv, ConnInv, ForKey
    <3>2. req[c] \in Parsed
      BY <2>2 DEF PInv, ConnInv
    <3>3. resp[c].of.path = q.path
      BY <3>1 DEF Resource
    <3>4. Plain(req[c].path) /\ Plain(q.path)
      BY <2>2, <3>3
    <3>5. Resource(req[c]) = Resource(q)
      BY <3>1, <3>2, <3>4, KeysTell
    <3> QED BY <3>1, <3>5
  <2> QED BY <2>1, <2>2
<1> QED BY <1>1, Invariance, PTL

\* A response from the cache was stored before, may be kept and was fresh at the lookup.
THEOREM HitsAreFresh == Spec => []HitIsFresh
<1>1. PInv => HitIsFresh
  BY DEF PInv
<1> QED BY <1>1, Invariance, PTL

\* No thread ever connects to a blocked host, and its clients are told so.
THEOREM BlocklistHolds == Spec => []BlockedIsNeverReached
<1>1. PInv => BlockedIsNeverReached
  BY DEF PInv, BlockInv, BlockedIsNeverReached
<1> QED BY <1>1, Invariance, PTL

\* A GET goes to the origin only if the last response stored for it has expired.
THEOREM MissesAreMisses == Spec => MissOnlyIfExpired
<1> DEFINE Miss == \A c \in Conns :
             pc[c] = "lookup" /\ pc'[c] = "connect" /\ req[c].method = "GET" =>
                 \/ Latest(cacheKey(req[c])) = {}
                 \/ \E s \in Latest(cacheKey(req[c])) : s.at + TTL(s) =< now
<1>1. PInv /\ [Next]_vars => [Miss]_vars
  <2> SUFFICES ASSUME PInv, [Next]_vars, NEW c \in Conns,
                      pc[c] = "lookup", pc'[c] = "connect", req[c].method = "GET"
               PROVE  \/ Latest(cacheKey(req[c])) = {}
                      \/ \E s \in Latest(cacheKey(req[c])) : s.at + TTL(s) =< now
    OBVIOUS
  <2> DEFINE k == cacheKey(req[c])
  <2>1. ~Fresh(k)
    BY DEF PInv, TypeOK, Next, Serve, Accept, Start, Check, Reply, Connect, ConnectFails,
       Send, SendFails, BrokenPipe, Parse, Ingest, Store, Lookup, Goto, Tick, Over
  <2>2. k \in Keys
    BY KeyOfRequest DEF PInv, ConnInv
  <2>3. CASE Latest(k) = {}
    BY <2>3
  <2>4. ASSUME NEW s \in Latest(k), cache[k] = Entry(s) PROVE s.at + TTL(s) =< now
    <3>1. s \in stored /\ s.at \in Nat /\ TTL(s) \in Nat /\ s.resp \in Responses
      BY DEF Latest, PInv, CacheInv
    <3>2. Entry(s) \in [serialized : Responses, expires : Nat]
      BY <3>1 DEF Entry
    <3>3. cache[k] # None /\ cache[k].expires = s.at + TTL(s)
      BY <2>4, <3>2 DEF Entry
    <3> QED BY <2>1, <3>1, <3>3 DEF Fresh, PInv, TypeOK
  <2> QED BY <2>2, <2>3, <2>4 DEF PInv, LatestInv
<1> QED BY <1>1, Invariance, PTL DEF Spec, MissOnlyIfExpired
===============================================================================
