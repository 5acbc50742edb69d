-------------------------- MODULE ValidationProofs --------------------------
(***************************************************************************)
(* What the checks of the fields accept, for texts of any length and any   *)
(* limits.                                                                 *)
(***************************************************************************)
EXTENDS Validation, DataLemmas, TLAPS

vars == <<field, text>>

\* Only characters of the field are typed.
TextOK == field \in DOMAIN Alphabet /\ text \in Seq(Alphabet[field])

LEMMA TextsHold == Spec => []TextOK
<1>1. Init => TextOK
  BY DEF Init, TextOK
<1>2. TextOK /\ [Next]_vars => TextOK'
  BY DEF TextOK, Next, Type, vars
<1> QED
  BY <1>1, <1>2, PTL DEF Spec, vars

-----------------------------------------------------------------------------
(* Domains *)

\* The last dot of a text that has one.
LEMMA LastDot ==
    ASSUME NEW T, NEW s \in Seq(T), "." \in Chars(s)
    PROVE  \E p \in 1..Len(s) :
              /\ s[p] = "." /\ \A i \in p + 1..Len(s) : s[i] # "."
              /\ Tld(s) = SubSeq(s, p + 1, Len(s)) /\ Len(Tld(s)) = Len(s) - p
<1> DEFINE I == {i \in 1..Len(s) : s[i] = "."}
<1>1. Len(s) \in Nat /\ DOMAIN s = 1..Len(s)
  OBVIOUS
<1>2. I # {} /\ I \in SUBSET (0..Len(s))
  BY <1>1 DEF Chars, ToSet
<1>3. \E x \in I : \A y \in I : x >= y
  <2> HIDE DEF I
  <2> QED
    BY <1>1, <1>2, Greatest
<1>4. Max(I) \in I /\ \A y \in I : Max(I) >= y
  <2> HIDE DEF I
  <2> QED
    BY <1>3 DEF Max
<1>5. SelectLastInSeq(s, LAMBDA c : c = ".") = Max(I)
  BY <1>2 DEF SelectLastInSeq
<1>6. PICK p \in 1..Len(s) : p = Max(I) /\ s[p] = "."
  BY <1>4
<1>7. \A i \in p + 1..Len(s) : s[i] # "."
  BY <1>1, <1>4, <1>6
<1>8. Tld(s) = SubSeq(s, p + 1, Len(s))
  BY <1>5, <1>6 DEF Tld
<1>9. Len(Tld(s)) = Len(s) - p
  <2>1. \A i \in p + 1..Len(s) : s[i] \in T
    BY <1>1, <1>6, ElementOfSeq
  <2>2. p + 1 \in Int /\ Len(s) \in Int
    BY <1>1, <1>6
  <2>3. Len(SubSeq(s, p + 1, Len(s))) =
          IF p + 1 <= Len(s) THEN Len(s) - (p + 1) + 1 ELSE 0
    BY <2>1, <2>2, SubSeqProperties
  <2>4. Len(Tld(s)) = IF p + 1 <= Len(s) THEN Len(s) - (p + 1) + 1 ELSE 0
    BY <1>8, <2>3
  <2> HIDE DEF I
  <2> QED
    BY <2>4
<1> QED
  BY <1>6, <1>7, <1>8, <1>9

\* The texts DomainsEndInTld speaks of.
EndsInTld(s) ==
    \E n \in 0..(DomainMaxChars - 1), tld \in TldMin..TldMax :
        /\ Len(s) = n + tld + 1 /\ Len(s) < DomainMaxChars
        /\ s[n + 1] = "."
        /\ \A i \in 1..n : s[i] \in {"a", "."}
        /\ \A i \in n + 2..Len(s) : s[i] = "a"

LEMMA AcceptedEnds ==
    ASSUME NEW s \in Seq(Alphabet.domain), DomainOk(s)
    PROVE  EndsInTld(s)
<1>1. PICK p \in 1..Len(s) :
         /\ s[p] = "." /\ \A i \in p + 1..Len(s) : s[i] # "."
         /\ Len(Tld(s)) = Len(s) - p
  BY LastDot DEF DomainOk
<1>2. Len(s) \in Nat /\ DomainMaxChars \in Nat /\ Len(s) < DomainMaxChars
  BY Limits DEF DomainOk
<1>3. \A i \in 1..Len(s) : s[i] \in {"a", "."}
  <2> TAKE i \in 1..Len(s)
  <2>1. s[i] \in {".", "a", "F", "_", BadByte} /\ s[i] \in Chars(s)
    <3>1. Alphabet.domain = {".", "a", "F", "_", BadByte}
      BY DEF Alphabet
    <3>2. s[i] \in Alphabet.domain
      BY ElementOfSeq
    <3>3. s[i] \in Chars(s)
      BY <1>2 DEF Chars, ToSet
    <3> QED
      BY <3>1, <3>2, <3>3
  <2>2. s[i] \notin {"F", "_", BadByte}
    BY <2>1 DEF DomainOk, InvalidChars, Uppercase
  <2> QED
    BY <2>1, <2>2
<1> DEFINE n == p - 1
           tld == Len(s) - p
<1>4. n \in 0..(DomainMaxChars - 1) /\ tld \in TldMin..TldMax
  BY <1>1, <1>2 DEF DomainOk
<1>5. Len(s) = n + tld + 1 /\ s[n + 1] = "." /\ n + 2 = p + 1
  BY <1>1, <1>2
<1>6. \A i \in 1..n : s[i] \in {"a", "."}
  BY <1>2, <1>3
<1>7. \A i \in n + 2..Len(s) : s[i] = "a"
  BY <1>1, <1>2, <1>3, <1>5
<1> HIDE DEF n, tld
<1> QED
  BY <1>2, <1>4, <1>5, <1>6, <1>7 DEF EndsInTld

LEMMA EndingAccepted ==
    ASSUME NEW s \in Seq(Alphabet.domain), EndsInTld(s)
    PROVE  DomainOk(s)
<1>1. PICK n \in 0..(DomainMaxChars - 1), tld \in TldMin..TldMax :
        /\ Len(s) = n + tld + 1 /\ Len(s) < DomainMaxChars
        /\ s[n + 1] = "."
        /\ \A i \in 1..n : s[i] \in {"a", "."}
        /\ \A i \in n + 2..Len(s) : s[i] = "a"
  BY DEF EndsInTld
<1>2. n \in Nat /\ tld \in Nat /\ tld > 0 /\ Len(s) \in Nat
  BY Limits, SomeTld
<1>3. \A i \in 1..Len(s) : s[i] \in {"a", "."}
  <2> TAKE i \in 1..Len(s)
  <2>1. i \in 1..n \/ i = n + 1 \/ i \in n + 2..Len(s)
    BY <1>1, <1>2
  <2> QED
    BY <1>1, <2>1
<1>4. Chars(s) \subseteq {"a", "."} /\ "." \in Chars(s)
  BY <1>1, <1>2, <1>3 DEF Chars, ToSet
<1>5. PICK p \in 1..Len(s) :
         /\ s[p] = "." /\ \A i \in p + 1..Len(s) : s[i] # "."
         /\ Len(Tld(s)) = Len(s) - p
  BY <1>4, LastDot
<1>6. p = n + 1
  <2>1. ~(p < n + 1)
    BY <1>1, <1>2, <1>5
  <2>2. ~(p > n + 1)
    BY <1>1, <1>2, <1>5
  <2> QED
    BY <1>2, <2>1, <2>2
<1>7. Len(Tld(s)) = tld
  BY <1>1, <1>2, <1>5, <1>6
<1>8. BadByte \notin Chars(s) /\ Chars(s) \cap (InvalidChars \cup Uppercase) = {}
  BY <1>4 DEF BadByte, InvalidChars, Uppercase
<1>9. Len(s) < DomainMaxChars /\ Len(s) - 0 > 1
  BY <1>1, <1>2
<1> QED
  BY <1>4, <1>7, <1>8, <1>9 DEF DomainOk

\* check_domain accepts the domains that end in a dot and a TLD of a length in
\* the range, and no others.
THEOREM DomainsEndInTldHolds == Spec => []DomainsEndInTld
<1>1. TextOK => DomainsEndInTld
  <2> SUFFICES ASSUME TextOK, field = "domain"
               PROVE  DomainOk(text) <=> EndsInTld(text)
    BY DEF DomainsEndInTld, EndsInTld
  <2>1. text \in Seq(Alphabet.domain)
    BY DEF TextOK
  <2> QED
    BY <2>1, AcceptedEnds, EndingAccepted
<1> QED
  BY <1>1, TextsHold, PTL

-----------------------------------------------------------------------------
(* Keys *)

\* W has the results of joining the first, the first two, ... of n lists.
Joins(W, seqs, n) ==
    W = [i \in 1..n |-> IF i = 1 THEN seqs[i] ELSE W[i - 1] \o seqs[i]]

\* Joining lists one after the other, with each intermediate result known.
LEMMA Joined ==
    ASSUME NEW n \in Nat \ {0}, NEW seqs, Len(seqs) = n, NEW W,
           Joins(W, seqs, n)
    PROVE  FlattenSeq(seqs) = W[n]
<1> DEFINE Solves(g) ==
             g = [i \in 1..n |-> IF i = 1 THEN seqs[i] ELSE g[i - 1] \o seqs[i]]
           f == CHOOSE g : Solves(g)
           Same == {i \in Nat : i + 1 \in 1..n => f[i + 1] = W[i + 1]}
<1>1. Solves(f)
  BY Zenon DEF Joins
<1> HIDE DEF f
<1>2. \A i \in 1..n : f[i] = IF i = 1 THEN seqs[i] ELSE f[i - 1] \o seqs[i]
  BY <1>1
<1>3. \A i \in 1..n : W[i] = IF i = 1 THEN seqs[i] ELSE W[i - 1] \o seqs[i]
  BY DEF Joins
<1>4. 0 \in Same
  BY <1>2, <1>3
<1>5. ASSUME NEW i \in Nat, i \in Same PROVE i + 1 \in Same
  <2>1. SUFFICES ASSUME (i + 1) + 1 \in 1..n PROVE f[(i + 1) + 1] = W[(i + 1) + 1]
    OBVIOUS
  <2> DEFINE j == (i + 1) + 1
  <2>2. j \in 1..n /\ j # 1 /\ j - 1 = i + 1 /\ i + 1 \in 1..n
    BY <2>1
  <2>3. f[i + 1] = W[i + 1]
    BY <1>5, <2>2
  <2> HIDE DEF j
  <2>4. f[j] = f[j - 1] \o seqs[j] /\ W[j] = W[j - 1] \o seqs[j]
    BY <1>2, <1>3, <2>2
  <2> QED
    BY <2>2, <2>3, <2>4 DEF j
<1>6. Nat \subseteq Same
  <2> HIDE DEF Same
  <2> QED
    BY <1>4, <1>5, NaturalsFromZero
<1>7. f[n] = W[n]
  <2>1. n - 1 \in Nat /\ (n - 1) + 1 = n /\ n \in 1..n
    OBVIOUS
  <2> QED
    BY <1>6, <2>1
<1>8. FlattenSeq(seqs) = f[n]
  BY DEF FlattenSeq, f
<1> QED
  BY <1>7, <1>8

\* Two digits as a list.
LEMMA Pairs ==
    ASSUME NEW X, NEW t \in X \X X
    PROVE  /\ t \in Seq(X) /\ Len(t) = 2 /\ t[1] \in X /\ t[2] \in X
<1>1. PICK a \in X, b \in X : t = <<a, b>>
  OBVIOUS
<1> QED
  BY <1>1

\* A pair with a colon in front of it.
LEMMA ColonPairs ==
    ASSUME NEW X, NEW t \in X \X X
    PROVE  /\ <<":">> \o t \in Seq(X \cup {":"}) /\ Len(<<":">> \o t) = 3
           /\ (<<":">> \o t)[1] = ":"
           /\ (<<":">> \o t)[2] = t[1] /\ (<<":">> \o t)[3] = t[2]
<1> DEFINE Y == X \cup {":"}
           c == <<":">>
<1>1. t \in Seq(X) /\ Len(t) = 2
  BY Pairs
<1>2. t \in Seq(Y) /\ c \in Seq(Y) /\ Len(c) = 1 /\ c[1] = ":"
  BY <1>1
<1> HIDE DEF Y, c
<1>3. /\ c \o t \in Seq(Y) /\ Len(c \o t) = Len(c) + Len(t)
      /\ \A i \in 1 .. Len(c) + Len(t) :
            (c \o t)[i] = IF i <= Len(c) THEN c[i] ELSE t[i - Len(c)]
  BY <1>2, ConcatProperties
<1>4. PICK u : u = c \o t
  OBVIOUS
<1>5. /\ u \in Seq(Y) /\ Len(u) = 3
      /\ \A i \in 1..3 : u[i] = IF i <= 1 THEN c[i] ELSE t[i - 1]
  BY <1>1, <1>2, <1>3, <1>4
<1>6. u[1] = ":" /\ u[2] = t[1] /\ u[3] = t[2]
  BY <1>2, <1>5
<1> QED
  BY <1>4, <1>5, <1>6 DEF Y, c

\* The character at each position of a key's spelling.
SpelledAt(bytes, i) ==
    IF i % 3 = 0 THEN ":" ELSE bytes[(i + 2) \div 3][i % 3]

LEMMA Spelled ==
    ASSUME NEW X, NEW bytes \in Seq(X \X X), Len(bytes) # 0
    PROVE  /\ Spell(bytes) \in Seq(X \cup {":"})
           /\ Len(Spell(bytes)) = 3 * Len(bytes) - 1
           /\ \A i \in 1..(3 * Len(bytes) - 1) :
                 Spell(bytes)[i] = SpelledAt(bytes, i)
<1> DEFINE n == Len(bytes)
           Y == X \cup {":"}
           parts == [k \in 1..n |-> IF k = 1 THEN bytes[k] ELSE <<":">> \o bytes[k]]
           W == [k \in 1..n |-> [i \in 1..(3 * k - 1) |-> SpelledAt(bytes, i)]]
<1>1. n \in Nat \ {0}
  BY LenProperties
<1>2. \A k \in 1..n : bytes[k] \in X \X X
  BY ElementOfSeq
<1> HIDE DEF n
<1>3. ASSUME NEW k \in 1..n, NEW i \in 1..(3 * k - 1)
      PROVE  SpelledAt(bytes, i) \in Y
  <2>1. CASE i % 3 = 0
    BY <2>1 DEF SpelledAt
  <2>2. CASE i % 3 # 0
    <3>1. (i + 2) \div 3 \in 1..n /\ i % 3 \in 1..2
      BY <1>1, <2>2
    <3>2. bytes[(i + 2) \div 3] \in X \X X
      BY <1>2, <3>1
    <3>3. bytes[(i + 2) \div 3][i % 3] \in X
      <4> DEFINE t == bytes[(i + 2) \div 3]
                 j == i % 3
      <4>1. t \in X \X X /\ j \in 1..2
        BY <3>1, <3>2
      <4> HIDE DEF t, j
      <4>2. t[1] \in X /\ t[2] \in X /\ (j = 1 \/ j = 2)
        BY <4>1, Pairs
      <4>3. t[j] \in X
        BY <4>2
      <4> QED
        BY <4>3 DEF t, j
    <3> QED
      BY <2>2, <3>3 DEF SpelledAt
  <2> QED
    BY <2>1, <2>2
<1>4. ASSUME NEW k \in 1..n
      PROVE  /\ W[k] \in Seq(Y) /\ Len(W[k]) = 3 * k - 1
             /\ \A i \in 1..(3 * k - 1) : W[k][i] = SpelledAt(bytes, i)
  <2> DEFINE l == 3 * k - 1
             w == [i \in 1..l |-> SpelledAt(bytes, i)]
  <2>1. l \in Nat /\ k \in Nat
    OBVIOUS
  <2>2. \A i \in 1..l : SpelledAt(bytes, i) \in Y
    BY <1>3
  <2>3. W[k] = w
    OBVIOUS
  <2> HIDE DEF l, W, Y
  <2>4. w \in [1..l -> Y] /\ \A i \in 1..l : w[i] = SpelledAt(bytes, i)
    BY <2>2
  <2> HIDE DEF w
  <2>5. w \in Seq(Y)
    BY <2>1, <2>4, SeqDef
  <2>6. Len(w) \in Nat /\ 1..Len(w) = 1..l
    BY <2>4, <2>5, LenProperties
  <2>7. Len(w) = l
    BY <2>1, <2>6
  <2> QED
    BY <2>3, <2>4, <2>5, <2>7 DEF l
<1>5. W[1] = parts[1]
  <2>1. 1 \in 1..n /\ bytes[1] \in X \X X
    BY <1>1, <1>2
  <2>2. parts[1] = bytes[1]
    BY <2>1
  <2>3. /\ bytes[1] \in Seq(X) /\ Len(bytes[1]) = 2
    BY <2>1, Pairs
  <2>4. bytes[1] \in Seq(Y)
    BY <2>3
  <2>5. /\ W[1] \in Seq(Y) /\ Len(W[1]) = 2
        /\ \A i \in 1..2 : W[1][i] = SpelledAt(bytes, i)
    <3>1. 3 * 1 - 1 = 2
      OBVIOUS
    <3> HIDE DEF W, Y, parts
    <3> QED
      BY <1>4, <2>1, <3>1
  <2>6. \A i \in 1..2 : SpelledAt(bytes, i) = bytes[1][i]
    <3>1. \A i \in 1..2 : i % 3 = i /\ (i + 2) \div 3 = 1 /\ i # 0
      OBVIOUS
    <3> QED
      BY <3>1 DEF SpelledAt
  <2> HIDE DEF W, parts, Y
  <2>7. \A i \in 1..Len(W[1]) : W[1][i] = bytes[1][i]
    BY <2>5, <2>6
  <2>8. W[1] = bytes[1]
    BY <2>3, <2>4, <2>5, <2>7, SeqEqual
  <2> QED
    BY <2>2, <2>8
<1>6. ASSUME NEW k \in 1..n, k # 1
      PROVE  W[k] = W[k - 1] \o parts[k]
  <2> DEFINE s == W[k - 1]
             t == parts[k]
             l == 3 * k - 4
  <2>1. k - 1 \in 1..n /\ bytes[k] \in X \X X /\ 3 * (k - 1) - 1 = l /\ l \in Nat
    BY <1>1, <1>2, <1>6
  <2>2. t = <<":">> \o bytes[k]
    BY <1>6
  <2>3. /\ t \in Seq(Y) /\ Len(t) = 3
        /\ t[1] = ":" /\ t[2] = bytes[k][1] /\ t[3] = bytes[k][2]
    <3> HIDE DEF t, parts, W
    <3> QED
      BY <2>1, <2>2, ColonPairs
  <2>4. /\ s \in Seq(Y) /\ Len(s) = l
        /\ \A i \in 1..l : s[i] = SpelledAt(bytes, i)
    BY <1>4, <2>1
  <2>5. /\ W[k] \in Seq(Y) /\ Len(W[k]) = l + 3
        /\ \A i \in 1..l + 3 : W[k][i] = SpelledAt(bytes, i)
    BY <1>4
  <2> HIDE DEF s, t, W, parts, Y
  <2>6. /\ s \o t \in Seq(Y) /\ Len(s \o t) = l + 3
        /\ \A i \in 1..l + 3 : (s \o t)[i] = IF i <= l THEN s[i] ELSE t[i - l]
    <3>1. /\ s \o t \in Seq(Y) /\ Len(s \o t) = Len(s) + Len(t)
          /\ \A i \in 1..Len(s) + Len(t) :
                (s \o t)[i] = IF i <= Len(s) THEN s[i] ELSE t[i - Len(s)]
      BY <2>3, <2>4, ConcatProperties
    <3> HIDE DEF l
    <3> QED
      BY <2>3, <2>4, <3>1
  <2>7. ASSUME NEW i \in 1..l + 3
        PROVE  (s \o t)[i] = W[k][i]
    <3>1. CASE i <= l
      BY <2>1, <2>4, <2>5, <2>6, <3>1
    <3>2. CASE i = l + 1
      <4>1. i - l = 1 /\ ~(i <= l) /\ i % 3 = 0
        BY <2>1, <3>2
      <4> QED
        BY <2>3, <2>5, <2>6, <4>1 DEF SpelledAt
    <3>3. CASE i = l + 2
      <4>1. i - l = 2 /\ ~(i <= l) /\ i % 3 = 1 /\ (i + 2) \div 3 = k
        BY <2>1, <3>3
      <4> QED
        BY <2>3, <2>5, <2>6, <4>1 DEF SpelledAt
    <3>4. CASE i = l + 3
      <4>1. i - l = 3 /\ ~(i <= l) /\ i % 3 = 2 /\ (i + 2) \div 3 = k
        BY <2>1, <3>4
      <4> QED
        BY <2>3, <2>5, <2>6, <4>1 DEF SpelledAt
    <3>5. i <= l \/ i = l + 1 \/ i = l + 2 \/ i = l + 3
      <4> HIDE DEF l
      <4> QED
        BY <2>1
    <3> QED
      BY <3>1, <3>2, <3>3, <3>4, <3>5
  <2>8. W[k] = s \o t
    BY <2>5, <2>6, <2>7, SeqEqual
  <2> QED
    BY <2>8 DEF s, t
<1>7. FlattenSeq(parts) = W[n]
  <2>1. Len(parts) = n
    BY <1>1
  <2>2. DOMAIN W = 1..n
    OBVIOUS
  <2>3. Joins(W, parts, n)
    <3>1. W = [k \in 1..n |-> W[k]]
      OBVIOUS
    <3> HIDE DEF W, parts
    <3>2. \A k \in 1..n : W[k] = IF k = 1 THEN parts[k] ELSE W[k - 1] \o parts[k]
      BY <1>5, <1>6
    <3> QED
      BY <3>1, <3>2 DEF Joins
  <2> HIDE DEF W, parts
  <2> QED
    BY <1>1, <2>1, <2>3, Joined
<1>8. Spell(bytes) = FlattenSeq(parts)
  BY DEF Spell, n
<1>9. n \in 1..n
  BY <1>1
<1> HIDE DEF W, parts, Y
<1>10. /\ Spell(bytes) \in Seq(Y) /\ Len(Spell(bytes)) = 3 * n - 1
       /\ \A i \in 1..(3 * n - 1) : Spell(bytes)[i] = SpelledAt(bytes, i)
  BY <1>4, <1>7, <1>8, <1>9
<1> QED
  BY <1>10 DEF n, Y

NotColons(s) == {i \in 1..Len(s) : s[i] # ":"}

\* A key that check_key accepts and that is whole bytes has them at the
\* places between the colons.
LEMMA AcceptedLayout ==
    ASSUME NEW X, NEW s \in Seq(X), s # <<>>, KeyOk(s), Decodable(s)
    PROVE  \E b \in Nat \ {0} :
              /\ Len(s) = 3 * b - 1 /\ Len(Digits(s)) = 2 * b
              /\ \A k \in 1..2 * b : Digits(s)[k] = s[k + (k - 1) \div 2]
<1> DEFINE n == Len(s)
           q == n \div 3
           r == n % 3
           m == 2 * q + r
           p == [k \in 1..m |-> k + (k - 1) \div 2]
           S == NotColons(s)
<1>1. n \in Nat \ {0}
  BY EmptySeq
<1>2. \A i \in 1..n : IF i % 3 = 0 THEN s[i] = ":" ELSE s[i] \in HexDigits
  <2>1. \A i \in 1..n : i % 3 = 0 => i # 1
    BY <1>1
  <2> QED
    BY <2>1 DEF KeyOk, IsSeparatorPosition
<1>3. \A i \in 1..n : s[i] # ":" <=> i % 3 # 0
  <2>1. ":" \notin HexDigits
    BY DEF HexDigits
  <2> QED
    BY <1>2, <2>1
<1>4. r \in {1, 2} /\ q \in Nat /\ n = 3 * q + r
  <2>1. s[n] # ":"
    BY DEF KeyOk, Last
  <2>2. n \in 1..n
    BY <1>1
  <2>3. n % 3 # 0
    BY <1>3, <2>1, <2>2
  <2> HIDE DEF n
  <2> QED
    BY <1>1, <2>3
<1> HIDE DEF n, q, r
<1>5. m \in Nat /\ p \in [1..m -> Nat]
  BY <1>4
<1>6. \A i, j \in 1..m : i < j => p[i] < p[j]
  BY <1>4
<1>7. \A k \in 1..m : p[k] \in 1..n /\ p[k] % 3 # 0
  BY <1>4
<1>8. \A i \in 1..n : i % 3 # 0 => i - i \div 3 \in 1..m /\ p[i - i \div 3] = i
  BY <1>4
<1>9. S \in SUBSET (1..n) /\ \A i \in 1..n : i \in S <=> i % 3 # 0
  BY <1>3 DEF NotColons, n
<1>10. Digits(s) = EntriesAt(s, S)
  BY DEF Digits, NotColons
<1> HIDE DEF m, p, S
<1>11. (\A k \in 1..m : p[k] \in S) /\ \A i \in S : \E k \in 1..m : p[k] = i
  BY <1>7, <1>8, <1>9
<1>12. /\ Len(Digits(s)) = m
       /\ \A k \in 1..m : Digits(s)[k] = s[p[k]]
  <2>1. S \in SUBSET (1..Len(s)) /\ \A k \in 1..m : p[k] \in S
    BY <1>9, <1>11 DEF n
  <2>2. /\ Len(EntriesAt(s, S)) = m
        /\ \A k \in 1..m : EntriesAt(s, S)[k] = s[p[k]]
    <3>1. Cardinality(S) = m /\ \A k \in 1..m : RankIn(S, p[k]) = k
      BY <1>5, <1>6, <1>11, RanksInOrder
    <3>2. /\ Len(EntriesAt(s, S)) = Cardinality(S)
          /\ \A i \in S : EntriesAt(s, S)[RankIn(S, i)] = s[i]
      BY <2>1, EntriesKept
    <3> QED
      BY <1>11, <3>1, <3>2
  <2> QED
    BY <1>10, <2>2
<1>13. r = 2
  BY <1>4, <1>12 DEF Decodable, m
<1>14. n = 3 * (q + 1) - 1 /\ m = 2 * (q + 1) /\ q + 1 \in Nat \ {0}
  BY <1>4, <1>13 DEF m
<1>15. \A k \in 1..m : p[k] = k + (k - 1) \div 2
  BY DEF p
<1> QED
  BY <1>12, <1>14, <1>15 DEF n

\* The bytes of a key are the digits taken two by two.
LEMMA BytesAt ==
    ASSUME NEW X, NEW s, Digits(s) \in Seq(X)
    PROVE  /\ Bytes(s) \in Seq(X \X X) /\ Len(Bytes(s)) = Len(Digits(s)) \div 2
           /\ \A k \in 1..Len(Bytes(s)) :
                 /\ Bytes(s)[k][1] = Digits(s)[2 * k - 1]
                 /\ Bytes(s)[k][2] = Digits(s)[2 * k]
<1> DEFINE d == Digits(s)
           b == Len(d) \div 2
           bs == Bytes(s)
<1>1. bs = [k \in 1..b |-> <<d[2 * k - 1], d[2 * k]>>]
  BY DEF Bytes
<1>2. d \in Seq(X) /\ Len(d) \in Nat /\ Len(d) \div 2 = b /\ b \in Nat
  OBVIOUS
<1> HIDE DEF d, b, bs
<1>3. \A k \in 1..b : 2 * k - 1 \in 1..Len(d) /\ 2 * k \in 1..Len(d)
  BY <1>2
<1>4. \A k \in 1..b : d[2 * k - 1] \in X /\ d[2 * k] \in X
  BY <1>2, <1>3, ElementOfSeq
<1>5. bs \in [1..b -> X \X X]
  BY <1>1, <1>4
<1>6. bs \in Seq(X \X X)
  BY <1>2, <1>5, SeqDef
<1>7. Len(bs) \in Nat /\ 1..Len(bs) = 1..b
  BY <1>5, <1>6, LenProperties
<1>8. Len(bs) = b
  BY <1>2, <1>7
<1>9. \A k \in 1..b : bs[k][1] = d[2 * k - 1] /\ bs[k][2] = d[2 * k]
  BY <1>1
<1> QED
  BY <1>6, <1>8, <1>9 DEF d, b, bs

LEMMA NoBytes ==
    ASSUME NEW X, NEW s, Digits(s) \in Seq(X), Len(Digits(s)) = 0
    PROVE  Spell(Bytes(s)) = <<>>
<1>1. 0 \div 2 = 0
  OBVIOUS
<1>2. Bytes(s) \in Seq(X \X X) /\ Len(Bytes(s)) = 0
  BY <1>1, BytesAt
<1> DEFINE parts == [k \in 1..Len(Bytes(s)) |->
                      IF k = 1 THEN Bytes(s)[k] ELSE <<":">> \o Bytes(s)[k]]
<1>3. Len(parts) = 0 /\ parts = <<>>
  BY <1>2
<1>4. Spell(Bytes(s)) = FlattenSeq(parts)
  BY DEF Spell
<1> HIDE DEF parts
<1> QED
  BY <1>3, <1>4 DEF FlattenSeq

LEMMA DigitsType ==
    ASSUME NEW X, NEW s \in Seq(X)
    PROVE  Digits(s) \in Seq(X)
<1>1. NotColons(s) \in SUBSET (1..Len(s))
  BY DEF NotColons
<1> QED
  BY <1>1, EntriesKept DEF Digits, NotColons

\* Which byte a place in a spelling belongs to.
LEMMA Places ==
    ASSUME NEW b \in Nat, NEW i \in 1..(3 * b - 1)
    PROVE  /\ i % 3 \in {0, 1, 2}
           /\ i % 3 # 0 => (i + 2) \div 3 \in 1..b
           /\ i % 3 = 1 => 3 * ((i + 2) \div 3) - 2 = i
           /\ i % 3 = 2 => 3 * ((i + 2) \div 3) - 1 = i
<1> DEFINE q == i \div 3
           r == i % 3
<1>1. i = 3 * q + r /\ q \in Nat /\ r \in 0..2
  OBVIOUS
<1> HIDE DEF q, r
<1>2. r # 0 => (i + 2) \div 3 = q + 1
  BY <1>1
<1>3. q < b
  BY <1>1
<1> QED
  BY <1>1, <1>2, <1>3 DEF r

\* An accepted key is the spelling of its bytes.
LEMMA AcceptedSpelled ==
    ASSUME NEW X, NEW s \in Seq(X), KeyOk(s), Decodable(s)
    PROVE  s = Spell(Bytes(s))
<1>1. Digits(s) \in Seq(X)
  BY DigitsType
<1>2. CASE s = <<>>
  <2>1. Len(s) = 0 /\ NotColons(s) = {} /\ {} \in SUBSET (1..Len(s))
    BY <1>2 DEF NotColons
  <2>2. Digits(s) = EntriesAt(s, {})
    BY <2>1 DEF Digits, NotColons
  <2>3. Len(Digits(s)) = 0
    <3>1. Len(EntriesAt(s, {})) = Cardinality({})
      BY <2>1, EntriesKept
    <3> QED
      BY <2>2, <3>1, FS_EmptySet
  <2> QED
    BY <1>1, <1>2, <2>3, NoBytes
<1>3. CASE s # <<>>
  <2>1. PICK b \in Nat \ {0} :
              /\ Len(s) = 3 * b - 1 /\ Len(Digits(s)) = 2 * b
              /\ \A k \in 1..2 * b : Digits(s)[k] = s[k + (k - 1) \div 2]
    BY <1>3, AcceptedLayout
  <2> DEFINE bs == Bytes(s)
             t == Spell(bs)
             Y == X \cup {":"}
  <2>2. Len(Digits(s)) \div 2 = b
    BY <2>1
  <2>3. /\ bs \in Seq(X \X X) /\ Len(bs) = b
        /\ \A k \in 1..b : /\ bs[k][1] = Digits(s)[2 * k - 1]
                           /\ bs[k][2] = Digits(s)[2 * k]
    BY <1>1, <2>2, BytesAt
  <2>4. ASSUME NEW k \in 1..b
        PROVE  bs[k][1] = s[3 * k - 2] /\ bs[k][2] = s[3 * k - 1]
    <3>1. 2 * k - 1 \in 1..2 * b /\ 2 * k \in 1..2 * b
      BY <2>1
    <3>2. /\ (2 * k - 1) + ((2 * k - 1) - 1) \div 2 = 3 * k - 2
          /\ 2 * k + (2 * k - 1) \div 2 = 3 * k - 1
      BY <2>1
    <3> QED
      BY <2>1, <2>3, <3>1, <3>2
  <2> HIDE DEF bs
  <2>5. /\ t \in Seq(Y) /\ Len(t) = 3 * b - 1
        /\ \A i \in 1..(3 * b - 1) : t[i] = SpelledAt(bs, i)
    BY <2>1, <2>3, Spelled
  <2>6. ASSUME NEW i \in 1..(3 * b - 1)
        PROVE  s[i] = SpelledAt(bs, i)
    <3>1. CASE i % 3 = 0
      <4>1. IsSeparatorPosition(i)
        BY <3>1 DEF IsSeparatorPosition
      <4>2. s[i] = ":"
        BY <2>1, <4>1 DEF KeyOk
      <4> QED
        BY <3>1, <4>2 DEF SpelledAt
    <3>2. CASE i % 3 = 1
      <4>1. (i + 2) \div 3 \in 1..b /\ 3 * ((i + 2) \div 3) - 2 = i
        BY <3>2, Places
      <4> QED
        BY <2>4, <3>2, <4>1 DEF SpelledAt
    <3>3. CASE i % 3 = 2
      <4>1. (i + 2) \div 3 \in 1..b /\ 3 * ((i + 2) \div 3) - 1 = i
        BY <3>3, Places
      <4>2. bs[(i + 2) \div 3][2] = s[i]
        BY <2>4, <4>1
      <4> QED
        BY <3>3, <4>2 DEF SpelledAt
    <3> QED
      BY <2>1, <3>1, <3>2, <3>3
  <2>7. s \in Seq(Y)
    <3> HIDE DEF Y
    <3>1. X \subseteq Y
      BY DEF Y
    <3> QED
      BY <3>1, SeqMonotonic
  <2> HIDE DEF t, Y
  <2>8. s = t
    BY <2>1, <2>5, <2>6, <2>7, SeqEqual
  <2> QED
    BY <2>8 DEF t, bs
<1> QED
  BY <1>2, <1>3

\* The spelling of any bytes is accepted.
LEMMA SpellingAccepted ==
    ASSUME NEW X, NEW s \in Seq(X), Chars(Digits(s)) \subseteq HexDigits,
           s = Spell(Bytes(s))
    PROVE  KeyOk(s)
<1> DEFINE d == Digits(s)
           b == Len(d) \div 2
           bs == Bytes(s)
<1>1. d \in Seq(X) /\ Len(d) \in Nat /\ b \in Nat
  BY DigitsType
<1>2. d \in Seq(HexDigits)
  <2>1. \A i \in 1..Len(d) : d[i] \in HexDigits
    BY <1>1 DEF Chars, ToSet
  <2>2. d \in [1..Len(d) -> HexDigits]
    BY <1>1, <2>1
  <2> HIDE DEF d
  <2> QED
    BY <1>1, <2>2, SeqDef
<1> HIDE DEF d
<1>3. /\ bs \in Seq(HexDigits \X HexDigits) /\ Len(bs) = b
  <2> HIDE DEF b
  <2> QED
    BY <1>1, <1>2, BytesAt DEF d, b
<1> HIDE DEF b
<1>4. CASE b = 0
  <2>1. s = <<>>
    <3>1. bs = <<>>
      BY <1>3, <1>4
    <3> DEFINE parts == [k \in 1..Len(bs) |->
                          IF k = 1 THEN bs[k] ELSE <<":">> \o bs[k]]
    <3>2. Len(parts) = 0 /\ parts = <<>>
      BY <1>3, <1>4
    <3>3. Spell(bs) = FlattenSeq(parts)
      BY DEF Spell
    <3> HIDE DEF parts, bs
    <3>4. Spell(bs) = <<>>
      BY <3>2, <3>3 DEF FlattenSeq
    <3> QED
      BY <3>4 DEF bs
  <2>2. Len(s) = 0 /\ Chars(s) = {}
    BY <2>1 DEF Chars, ToSet
  <2> QED
    BY <2>1, <2>2 DEF KeyOk
<1>5. CASE b # 0
  <2> DEFINE n == 3 * b - 1
  <2>1. /\ s \in Seq(HexDigits \cup {":"}) /\ Len(s) = n
        /\ \A i \in 1..n : s[i] = SpelledAt(bs, i)
    <3> HIDE DEF bs
    <3>1. Len(bs) # 0
      BY <1>3, <1>5
    <3> QED
      BY <1>3, <3>1, Spelled DEF bs
  <2>2. \A k \in 1..b : bs[k][1] \in HexDigits /\ bs[k][2] \in HexDigits
    <3> HIDE DEF bs
    <3>1. \A k \in 1..b : bs[k] \in HexDigits \X HexDigits
      BY <1>3, ElementOfSeq
    <3> QED
      BY <3>1
  <2> HIDE DEF bs
  <2>3. ASSUME NEW i \in 1..n
        PROVE  IF i % 3 = 0 THEN s[i] = ":" ELSE s[i] \in HexDigits
    <3>1. CASE i % 3 = 0
      BY <2>1, <3>1 DEF SpelledAt
    <3>2. CASE i % 3 # 0
      <4>1. (i + 2) \div 3 \in 1..b /\ (i % 3 = 1 \/ i % 3 = 2)
        BY <1>1, <3>2
      <4>2. s[i] = bs[(i + 2) \div 3][i % 3]
        BY <2>1, <3>2 DEF SpelledAt
      <4> QED
        BY <2>2, <3>2, <4>1, <4>2
    <3> QED
      BY <3>1, <3>2
  <2>4. n \in 1..n /\ n % 3 = 2 /\ 1 % 3 = 1
    BY <1>1, <1>5
  <2>5. \A i \in 1..n : IF IsSeparatorPosition(i) THEN s[i] = ":"
                        ELSE s[i] \in HexDigits
    <3>1. \A i \in 1..n : IsSeparatorPosition(i) <=> i % 3 = 0
      BY <2>4 DEF IsSeparatorPosition
    <3> QED
      BY <2>3, <3>1
  <2>6. Last(s) # ":"
    <3>1. s[n] \in HexDigits
      BY <2>3, <2>4
    <3> QED
      BY <2>1, <3>1 DEF Last, HexDigits
  <2>7. BadByte \notin Chars(s)
    <3>1. \A i \in 1..n : s[i] \in HexDigits \/ s[i] = ":"
      BY <2>3
    <3>2. DOMAIN s = 1..n
      BY <2>1
    <3> HIDE DEF n
    <3> QED
      BY <3>1, <3>2 DEF Chars, ToSet, BadByte, HexDigits
  <2> HIDE DEF n
  <2> QED
    BY <2>1, <2>5, <2>6, <2>7 DEF KeyOk
<1> QED
  BY <1>4, <1>5

\* A key of whole bytes is accepted exactly when it is the spelling the proxy
\* gives its bytes.
THEOREM KeysAreSpellingsHolds == Spec => []KeysAreSpellings
<1>1. TextOK => KeysAreSpellings
  <2> SUFFICES ASSUME TextOK, field = "key", Decodable(text),
                      Chars(Digits(text)) \subseteq HexDigits
               PROVE  KeyOk(text) <=> text = Spell(Bytes(text))
    BY DEF KeysAreSpellings
  <2>1. text \in Seq(Alphabet.key)
    BY DEF TextOK
  <2> QED
    BY <2>1, AcceptedSpelled, SpellingAccepted
<1> QED
  BY <1>1, TextsHold, PTL

-----------------------------------------------------------------------------
(* Addresses *)

\* The greatest of a set of positions is one of them.
LEMMA MaxOf ==
    ASSUME NEW n \in Nat, NEW T \in SUBSET (1..n), T # {}
    PROVE  Max(T) \in T /\ \A y \in T : Max(T) >= y
<1>1. T \in SUBSET (0..n)
  OBVIOUS
<1>2. \E x \in T : \A y \in T : x >= y
  BY <1>1, Greatest
<1> QED
  BY <1>2 DEF Max

LEMMA MaxOfPrefix ==
    ASSUME NEW k \in Nat
    PROVE  /\ 1..k + 1 # {} /\ Max(1..k + 1) = k + 1
           /\ (1..k + 1) \ {k + 1} = 1..k
<1>1. 1..k + 1 # {} /\ k + 1 \in Nat /\ 1..k + 1 \in SUBSET (1..k + 1)
  OBVIOUS
<1>2. Max(1..k + 1) \in 1..k + 1 /\ \A y \in 1..k + 1 : Max(1..k + 1) >= y
  <2> DEFINE T == 1..k + 1
             n == k + 1
  <2>1. n \in Nat /\ T \in SUBSET (1..n) /\ T # {}
    BY <1>1
  <2> HIDE DEF n, T
  <2>2. Max(T) \in T /\ \A y \in T : Max(T) >= y
    BY <2>1, MaxOf
  <2> QED
    BY <2>2 DEF T
<1>3. Max(1..k + 1) = k + 1
  BY <1>2
<1> QED
  BY <1>1, <1>3

\* step gives a value of V for one and the entry at a position, and g has the
\* values of the fold, from base, at each set of positions.
Steps(step, V, n) == \A v \in V, i \in 1..n : step[v][i] \in V

Folded(g, step, V, base, n) ==
    \A T \in SUBSET (1..n) :
        /\ g[T] \in V
        /\ T = {} => g[T] = base
        /\ T # {} => g[T] = step[g[T \ {Max(T)}]][Max(T)]

\* The recursion of a fold over the positions of a list has a solution.
LEMMA FoldsExist ==
    ASSUME NEW n \in Nat, NEW V, NEW base \in V, NEW step,
           Steps(step, V, n)
    PROVE  \E g : Folded(g, step, V, base, n)
<1> DEFINE Step(g, T) == IF T = {} THEN base
                         ELSE step[g[T \ {Max(T)}]][Max(T)]
           Solves(g, m) == \A T \in SUBSET (1..m) :
                              g[T] \in V /\ g[T] = Step(g, T)
           Solved == {m \in Nat : m <= n => \E g : Solves(g, m)}
<1> HIDE DEF Solves
<1>1. 0 \in Solved
  <2> DEFINE g == [T \in SUBSET (1..0) |-> base]
  <2>1. \A T \in SUBSET (1..0) : T = {}
    OBVIOUS
  <2>2. Solves(g, 0)
    BY <2>1 DEF Solves
  <2> HIDE DEF g
  <2> QED
    BY <2>2
<1>2. ASSUME NEW m \in Nat, m \in Solved PROVE m + 1 \in Solved
  <2>1. SUFFICES ASSUME m + 1 <= n PROVE \E g : Solves(g, m + 1)
    OBVIOUS
  <2>2. PICK g : Solves(g, m)
    BY <1>2, <2>1
  <2> DEFINE h == [T \in SUBSET (1..m + 1) |-> Step(g, T)]
  <2>3. ASSUME NEW T \in SUBSET (1..m + 1), T # {}
        PROVE  Max(T) \in 1..n /\ T \ {Max(T)} \in SUBSET (1..m)
    <3>1. m + 1 \in Nat
      OBVIOUS
    <3>2. Max(T) \in T /\ \A y \in T : Max(T) >= y
      BY <2>3, <3>1, MaxOf
    <3> DEFINE x == Max(T)
    <3> HIDE DEF x
    <3>3. x \in 1..m + 1 /\ \A y \in T : y \in 1..m + 1 /\ x >= y
      BY <3>2 DEF x
    <3>4. \A y \in T : y # x => y \in 1..m
      BY <3>3
    <3>5. T \ {x} \in SUBSET (1..m) /\ x \in 1..n
      BY <2>1, <3>3, <3>4
    <3> QED
      BY <3>5 DEF x
  <2>4. \A T \in SUBSET (1..m) : T \in SUBSET (1..m + 1) /\ h[T] = g[T]
    <3>1. \A T \in SUBSET (1..m) : T \in SUBSET (1..m + 1)
      OBVIOUS
    <3> QED
      BY <2>2, <3>1 DEF Solves
  <2>5. \A T \in SUBSET (1..m + 1) : Step(g, T) = Step(h, T)
    BY <2>3, <2>4
  <2>6. \A T \in SUBSET (1..m + 1) : Step(g, T) \in V
    <3> TAKE T \in SUBSET (1..m + 1)
    <3>1. CASE T = {}
      BY <3>1
    <3>2. CASE T # {}
      <4>1. g[T \ {Max(T)}] \in V /\ Max(T) \in 1..n
        BY <2>2, <2>3, <3>2 DEF Solves, Steps
      <4> QED
        BY <3>2, <4>1 DEF Steps
    <3> QED
      BY <3>1, <3>2
  <2>7. \A T \in SUBSET (1..m + 1) : h[T] = Step(h, T)
    BY <2>5
  <2>8. \A T \in SUBSET (1..m + 1) : h[T] \in V
    BY <2>6
  <2>9. Solves(h, m + 1)
    BY <2>7, <2>8 DEF Solves
  <2> HIDE DEF h
  <2> QED
    BY <2>9
<1>3. Nat \subseteq Solved
  <2> HIDE DEF Solved
  <2> QED
    BY <1>1, <1>2, NaturalsFromZero
<1>4. PICK g : Solves(g, n)
  BY <1>3
<1> QED
  BY <1>4 DEF Solves, Folded

\* What IsU8 computes.
Horner(e) ==
    CHOOSE f : f = [T \in SUBSET (DOMAIN e) |->
                      IF T = {} THEN 0
                      ELSE 10 * f[T \ {Max(T)}] + DigitValue[e[Max(T)]]]

LEMMA FoldIsHorner ==
    ASSUME NEW e
    PROVE  FoldLeft(LAMBDA v, c : 10 * v + DigitValue[c], 0, e)
               = Horner(e)[DOMAIN e]
BY DEF FoldLeft, MapThenFoldSet, Horner

LEMMA HornerSteps ==
    ASSUME NEW e \in Seq(DOMAIN DigitValue)
    PROVE  /\ Horner(e)[1..0] = 0
           /\ \A k \in 0..(Len(e) - 1) :
                 Horner(e)[1..k + 1] = 10 * Horner(e)[1..k] + DigitValue[e[k + 1]]
<1> DEFINE n == Len(e)
           Next10(f, T) == IF T = {} THEN 0
                           ELSE 10 * f[T \ {Max(T)}] + DigitValue[e[Max(T)]]
           Solves(f) == f = [T \in SUBSET (DOMAIN e) |-> Next10(f, T)]
           step == [v \in Nat |-> [i \in 1..n |-> 10 * v + DigitValue[e[i]]]]
<1>1. n \in Nat /\ DOMAIN e = 1..n
  BY LenProperties
<1>2. \A i \in 1..n : DigitValue[e[i]] \in Nat
  <2>1. \A i \in 1..n : e[i] \in DOMAIN DigitValue
    BY ElementOfSeq
  <2>2. \A c \in DOMAIN DigitValue : DigitValue[c] \in Nat
    BY DEF DigitValue
  <2> QED
    BY <2>1, <2>2
<1> HIDE DEF n
<1>3. Steps(step, Nat, n)
  BY <1>2 DEF Steps
<1>4. \A v \in Nat, i \in 1..n : step[v][i] = 10 * v + DigitValue[e[i]]
  OBVIOUS
<1> HIDE DEF step
<1>5. PICK g : Folded(g, step, Nat, 0, n)
  BY <1>1, <1>3, FoldsExist
<1>6. \E h : Solves(h)
  <2> DEFINE h == [T \in SUBSET (1..n) |-> g[T]]
  <2>1. ASSUME NEW T \in SUBSET (1..n)
        PROVE  h[T] = Next10(h, T)
    <3>1. CASE T = {}
      BY <1>5, <3>1 DEF Folded
    <3>2. CASE T # {}
      <4>1. Max(T) \in 1..n /\ T \ {Max(T)} \in SUBSET (1..n)
        BY <1>1, <3>2, MaxOf
      <4>2. g[T \ {Max(T)}] \in Nat
        BY <1>5, <4>1 DEF Folded
      <4> QED
        BY <1>4, <1>5, <3>2, <4>1, <4>2 DEF Folded
    <3> QED
      BY <3>1, <3>2
  <2>2. h = [T \in SUBSET (1..n) |-> h[T]]
    OBVIOUS
  <2> HIDE DEF h, Next10
  <2> QED
    BY <1>1, <2>1, <2>2
<1>7. Solves(Horner(e))
  <2> DEFINE f == CHOOSE h : Solves(h)
  <2>1. Solves(f)
    <3> HIDE DEF Solves
    <3> QED
      BY <1>6
  <2>2. Horner(e) = f
    BY DEF Horner
  <2> HIDE DEF Solves, f
  <2> QED
    BY <2>1, <2>2
<1> DEFINE f == Horner(e)
<1> HIDE DEF f
<1>8. \A T \in SUBSET (1..n) : f[T] = Next10(f, T)
  BY <1>1, <1>7 DEF f
<1>9. f[1..0] = 0
  <2>1. 1..0 = {}
    OBVIOUS
  <2> QED
    BY <1>8, <2>1
<1>10. ASSUME NEW k \in 0..(n - 1)
       PROVE  f[1..k + 1] = 10 * f[1..k] + DigitValue[e[k + 1]]
  <2>1. k \in Nat /\ 1..k + 1 \in SUBSET (1..n)
    BY <1>1
  <2>2. 1..k + 1 # {} /\ Max(1..k + 1) = k + 1 /\ (1..k + 1) \ {k + 1} = 1..k
    BY <2>1, MaxOfPrefix
  <2> QED
    BY <1>8, <2>1, <2>2
<1> QED
  BY <1>9, <1>10 DEF f, n

\* The steps of Reading.
Read(r, c) ==
    CASE c \in DOMAIN DigitValue ->
           [r EXCEPT !.value = (IF @ = -1 THEN 0 ELSE 10 * @) + DigitValue[c],
                     !.fresh = FALSE]
      [] c = "+" -> [r EXCEPT !.bad = @ \/ ~r.fresh, !.fresh = FALSE]
      [] c = "." -> [done |-> r.done + 1, value |-> -1, fresh |-> TRUE,
                     bad |-> r.bad \/ r.value \notin 0..MaxOctet]
      [] OTHER   -> [r EXCEPT !.bad = TRUE]

Start == [done |-> 0, value |-> -1, fresh |-> TRUE, bad |-> FALSE]

Readings(e) ==
    CHOOSE f : f = [T \in SUBSET (DOMAIN e) |->
                      IF T = {} THEN Start ELSE Read(f[T \ {Max(T)}], e[Max(T)])]

ReadingStates ==
    [done : Nat, value : Nat \cup {-1}, fresh : BOOLEAN, bad : BOOLEAN]

LEMMA ReadingIsFold ==
    ASSUME NEW s
    PROVE  Reading(s) = Readings(s \o <<".">>)[DOMAIN (s \o <<".">>)]
BY DEF Reading, FoldLeft, MapThenFoldSet, Readings, Read, Start

IpChars == {".", "+", "0", "2", "6"}

LEMMA Classes ==
    /\ DOMAIN DigitValue = {"0", "2", "6"}
    /\ \A c \in DOMAIN DigitValue : DigitValue[c] \in Nat
    /\ "+" \notin DOMAIN DigitValue /\ "." \notin DOMAIN DigitValue /\ "+" # "."
    /\ \A c \in IpChars : c \in DOMAIN DigitValue \/ c = "+" \/ c = "."
BY DEF DigitValue, IpChars

LEMMA ReadDigit ==
    ASSUME NEW r \in ReadingStates, NEW c \in DOMAIN DigitValue
    PROVE  /\ Read(r, c) \in ReadingStates
           /\ Read(r, c).done = r.done /\ Read(r, c).bad = r.bad
           /\ Read(r, c).fresh = FALSE
           /\ r.value = -1 => Read(r, c).value = DigitValue[c]
           /\ r.value # -1 => Read(r, c).value = 10 * r.value + DigitValue[c]
<1> DEFINE v == (IF r.value = -1 THEN 0 ELSE 10 * r.value) + DigitValue[c]
<1>1. Read(r, c) = [r EXCEPT !.value = v, !.fresh = FALSE]
  BY Classes DEF Read
<1>2. DigitValue[c] \in Nat /\ r.value \in Nat \cup {-1}
  BY Classes DEF ReadingStates
<1>3. /\ v \in Nat
      /\ r.value = -1 => v = DigitValue[c]
      /\ r.value # -1 => v = 10 * r.value + DigitValue[c]
  BY <1>2
<1> HIDE DEF v
<1> DEFINE x == [r EXCEPT !.value = v, !.fresh = FALSE]
<1>4. x \in ReadingStates
  <2>1. v \in Nat \cup {-1} /\ FALSE \in BOOLEAN
    BY <1>3
  <2> QED
    BY <2>1 DEF ReadingStates
<1>5. x.done = r.done /\ x.bad = r.bad /\ x.fresh = FALSE /\ x.value = v
  BY DEF ReadingStates
<1>6. Read(r, c) = x
  BY <1>1
<1> HIDE DEF x
<1>7. r.value = -1 => Read(r, c).value = DigitValue[c]
  BY <1>3, <1>5, <1>6
<1>8. r.value # -1 => Read(r, c).value = 10 * r.value + DigitValue[c]
  BY <1>3, <1>5, <1>6
<1> QED
  BY <1>4, <1>5, <1>6, <1>7, <1>8

LEMMA ReadPlus ==
    ASSUME NEW r \in ReadingStates
    PROVE  /\ Read(r, "+") \in ReadingStates
           /\ Read(r, "+").done = r.done /\ Read(r, "+").value = r.value
           /\ Read(r, "+").fresh = FALSE
           /\ Read(r, "+").bad <=> r.bad \/ ~r.fresh
<1>1. Read(r, "+") = [r EXCEPT !.bad = r.bad \/ ~r.fresh, !.fresh = FALSE]
  BY Classes DEF Read
<1> QED
  BY <1>1 DEF ReadingStates

LEMMA ReadDot ==
    ASSUME NEW r \in ReadingStates
    PROVE  /\ Read(r, ".") \in ReadingStates
           /\ Read(r, ".").done = r.done + 1 /\ Read(r, ".").value = -1
           /\ Read(r, ".").fresh = TRUE
           /\ Read(r, ".").bad <=> r.bad \/ r.value \notin 0..MaxOctet
<1>1. Read(r, ".") = [done |-> r.done + 1, value |-> -1, fresh |-> TRUE,
                      bad |-> r.bad \/ r.value \notin 0..MaxOctet]
  BY Classes DEF Read
<1> DEFINE b == r.bad \/ r.value \notin 0..MaxOctet
           x == [done |-> r.done + 1, value |-> -1, fresh |-> TRUE, bad |-> b]
<1>2. r.done + 1 \in Nat /\ b \in BOOLEAN /\ -1 \in Nat \cup {-1}
  BY DEF ReadingStates
<1>3. Read(r, ".") = x
  BY <1>1
<1> HIDE DEF b
<1>4. x \in ReadingStates
  BY <1>2 DEF ReadingStates
<1>5. x.done = r.done + 1 /\ x.value = -1 /\ x.fresh = TRUE /\ x.bad = b
  OBVIOUS
<1> HIDE DEF x
<1> QED
  BY <1>3, <1>4, <1>5 DEF b

\* The readings of the beginnings of a text, each from the one before.
LEMMA ReadingSteps ==
    ASSUME NEW e \in Seq(IpChars)
    PROVE  /\ Readings(e)[1..0] = Start
           /\ \A k \in 0..Len(e) : Readings(e)[1..k] \in ReadingStates
           /\ \A k \in 0..(Len(e) - 1) :
                 Readings(e)[1..k + 1] = Read(Readings(e)[1..k], e[k + 1])
<1> DEFINE n == Len(e)
           Next1(f, T) == IF T = {} THEN Start
                          ELSE Read(f[T \ {Max(T)}], e[Max(T)])
           Solves(f) == f = [T \in SUBSET (DOMAIN e) |-> Next1(f, T)]
           step == [r \in ReadingStates |-> [i \in 1..n |-> Read(r, e[i])]]
<1>1. n \in Nat /\ DOMAIN e = 1..n
  BY LenProperties
<1>2. \A r \in ReadingStates, i \in 1..n : Read(r, e[i]) \in ReadingStates
  <2>1. \A i \in 1..n : e[i] \in IpChars
    BY ElementOfSeq
  <2> QED
    BY <2>1, Classes, ReadDigit, ReadPlus, ReadDot
<1> HIDE DEF n
<1>3. Steps(step, ReadingStates, n)
  BY <1>2 DEF Steps
<1>4. \A r \in ReadingStates, i \in 1..n : step[r][i] = Read(r, e[i])
  OBVIOUS
<1> HIDE DEF step
<1>5. PICK g : Folded(g, step, ReadingStates, Start, n)
  <2>1. Start \in ReadingStates
    BY DEF Start, ReadingStates
  <2> QED
    BY <1>1, <1>3, <2>1, FoldsExist
<1>6. \E h : Solves(h)
  <2> DEFINE h == [T \in SUBSET (1..n) |-> g[T]]
  <2>1. ASSUME NEW T \in SUBSET (1..n)
        PROVE  h[T] = Next1(h, T)
    <3>1. CASE T = {}
      BY <1>5, <3>1 DEF Folded
    <3>2. CASE T # {}
      <4>1. Max(T) \in 1..n /\ T \ {Max(T)} \in SUBSET (1..n)
        BY <1>1, <3>2, MaxOf
      <4>2. g[T \ {Max(T)}] \in ReadingStates
        BY <1>5, <4>1 DEF Folded
      <4> QED
        BY <1>4, <1>5, <3>2, <4>1, <4>2 DEF Folded
    <3> QED
      BY <3>1, <3>2
  <2>2. h = [T \in SUBSET (1..n) |-> h[T]]
    OBVIOUS
  <2> HIDE DEF h, Next1
  <2> QED
    BY <1>1, <2>1, <2>2
<1>7. Solves(Readings(e))
  <2> DEFINE f == CHOOSE h : Solves(h)
  <2>1. Solves(f)
    <3> HIDE DEF Solves
    <3> QED
      BY <1>6
  <2>2. Readings(e) = f
    BY DEF Readings
  <2> HIDE DEF Solves, f
  <2> QED
    BY <2>1, <2>2
<1> DEFINE f == Readings(e)
<1> HIDE DEF f
<1>8. \A T \in SUBSET (1..n) : f[T] = Next1(f, T)
  BY <1>1, <1>7 DEF f
<1>9. f[1..0] = Start
  <2>1. 1..0 = {}
    OBVIOUS
  <2> QED
    BY <1>8, <2>1
<1>10. \A k \in 0..(n - 1) : f[1..k + 1] = Read(f[1..k], e[k + 1])
  <2> TAKE k \in 0..(n - 1)
  <2>1. k \in Nat /\ 1..k + 1 \in SUBSET (1..n)
    BY <1>1
  <2>2. 1..k + 1 # {} /\ Max(1..k + 1) = k + 1 /\ (1..k + 1) \ {k + 1} = 1..k
    BY <2>1, MaxOfPrefix
  <2> QED
    BY <1>8, <2>1, <2>2
<1>11. \A k \in 0..n : f[1..k] \in ReadingStates
  <2> DEFINE Good == {k \in Nat : k <= n => f[1..k] \in ReadingStates}
  <2>1. 0 \in Good
    <3>1. Start \in ReadingStates
      BY DEF Start, ReadingStates
    <3> QED
      BY <1>9, <3>1
  <2>2. ASSUME NEW k \in Nat, k \in Good PROVE k + 1 \in Good
    <3>1. SUFFICES ASSUME k + 1 <= n PROVE f[1..k + 1] \in ReadingStates
      OBVIOUS
    <3>2. k \in 0..(n - 1) /\ k + 1 \in 1..n
      BY <1>1, <3>1
    <3>3. f[1..k] \in ReadingStates
      BY <2>2, <3>1, <1>1
    <3> QED
      BY <1>2, <1>10, <3>2, <3>3
  <2>3. Nat \subseteq Good
    <3> HIDE DEF Good
    <3> QED
      BY <2>1, <2>2, NaturalsFromZero
  <2> QED
    BY <1>1, <2>3
<1> QED
  BY <1>9, <1>10, <1>11 DEF f, n

\* Reading one section, from its first character to the dot after it.
LEMMA SectionRead ==
    ASSUME NEW w \in Seq(IpChars \ {"."}), NEW Z,
           \A k \in 0..Len(w) : Z[k] \in ReadingStates,
           Z[0].value = -1, Z[0].fresh = TRUE,
           \A k \in 0..(Len(w) - 1) : Z[k + 1] = Read(Z[k], w[k + 1])
    PROVE  /\ Read(Z[Len(w)], ".").done = Z[0].done + 1
           /\ Read(Z[Len(w)], ".").bad <=> Z[0].bad \/ ~IsU8(w)
<1> DEFINE m == Len(w)
           C == IpChars \ {"."}
           d == IF w # <<>> /\ Head(w) = "+" THEN Tail(w) ELSE w
           off == IF w # <<>> /\ Head(w) = "+" THEN 1 ELSE 0
           L == Len(d)
<1>1. m \in Nat /\ \A i \in 1..m : w[i] \in DOMAIN DigitValue \/ w[i] = "+"
  <2>1. \A i \in 1..m : w[i] \in C
    BY ElementOfSeq
  <2> QED
    BY <2>1, Classes, LenProperties
<1>2. /\ d \in Seq(C) /\ L \in Nat /\ L = m - off
      /\ \A i \in 1..L : d[i] = w[i + off]
  <2> HIDE DEF C
  <2>1. CASE w # <<>> /\ Head(w) = "+"
    <3>1. m # 0
      BY <2>1, EmptySeq
    <3> QED
      BY <1>1, <2>1, <3>1, HeadTailProperties DEF C
  <2>2. CASE ~(w # <<>> /\ Head(w) = "+")
    BY <1>1, <2>2 DEF C
  <2> QED
    BY <2>1, <2>2
<1>3. /\ off \in {0, 1} /\ off <= m
      /\ off = 1 => w[1] = "+"
      /\ off = 0 /\ m > 0 => w[1] # "+"
  <2>1. w # <<>> <=> m > 0
    BY <1>1, EmptySeq
  <2>2. w # <<>> => Head(w) = w[1]
    OBVIOUS
  <2> QED
    BY <1>1, <2>1, <2>2
<1>4. IsU8(w) <=> /\ d # <<>>
                  /\ Chars(d) \subseteq DOMAIN DigitValue
                  /\ Horner(d)[DOMAIN d] <= MaxOctet
  BY FoldIsHorner DEF IsU8
<1> HIDE DEF m, C, d, off, L
<1>5. \A k \in 0..m : Z[k] \in ReadingStates
  BY DEF m
<1>6. \A k \in 0..(m - 1) : Z[k + 1] = Read(Z[k], w[k + 1])
  BY DEF m
<1>7. ASSUME NEW k \in 0..(m - 1)
      PROVE  /\ Z[k + 1].done = Z[k].done /\ Z[k + 1].fresh = FALSE
             /\ Z[k].bad => Z[k + 1].bad
             /\ w[k + 1] = "+" => /\ Z[k + 1].value = Z[k].value
                                  /\ Z[k + 1].bad <=> Z[k].bad \/ ~Z[k].fresh
             /\ w[k + 1] # "+" =>
                   /\ Z[k + 1].bad = Z[k].bad
                   /\ DigitValue[w[k + 1]] \in Nat
                   /\ Z[k].value = -1 => Z[k + 1].value = DigitValue[w[k + 1]]
                   /\ Z[k].value # -1 =>
                         Z[k + 1].value = 10 * Z[k].value + DigitValue[w[k + 1]]
  <2>1. k \in 0..m /\ k + 1 \in 1..m
    BY <1>1
  <2>2. Z[k] \in ReadingStates /\ Z[k + 1] = Read(Z[k], w[k + 1])
    BY <1>5, <1>6, <2>1
  <2>3. CASE w[k + 1] = "+"
    <3>1. Z[k + 1] = Read(Z[k], "+")
      BY <2>2, <2>3
    <3>2. /\ Z[k + 1].done = Z[k].done /\ Z[k + 1].fresh = FALSE
          /\ Z[k + 1].value = Z[k].value
          /\ Z[k + 1].bad <=> Z[k].bad \/ ~Z[k].fresh
      BY <2>2, <3>1, ReadPlus
    <3> QED
      BY <2>3, <3>2
  <2>4. CASE w[k + 1] # "+"
    <3>1. w[k + 1] \in DOMAIN DigitValue
      BY <1>1, <2>1, <2>4
    <3> QED
      <4>1. /\ Z[k + 1].done = Z[k].done /\ Z[k + 1].bad = Z[k].bad
            /\ Z[k + 1].fresh = FALSE
            /\ Z[k].value = -1 => Z[k + 1].value = DigitValue[w[k + 1]]
            /\ Z[k].value # -1 =>
                  Z[k + 1].value = 10 * Z[k].value + DigitValue[w[k + 1]]
        <5>1. PICK r \in ReadingStates, c \in DOMAIN DigitValue :
                 r = Z[k] /\ c = w[k + 1]
          BY <2>2, <3>1
        <5>2. Z[k + 1] = Read(r, c)
          BY <2>2, <5>1
        <5>3. /\ Read(r, c).done = r.done /\ Read(r, c).bad = r.bad
              /\ Read(r, c).fresh = FALSE
              /\ r.value = -1 => Read(r, c).value = DigitValue[c]
              /\ r.value # -1 => Read(r, c).value = 10 * r.value + DigitValue[c]
          BY ReadDigit
        <5> QED
          BY <5>1, <5>2, <5>3
      <4> QED
        BY <2>4, <3>1, <4>1, Classes
  <2> QED
    BY <2>3, <2>4
<1>8. \A k \in 0..m : Z[k].done = Z[0].done
  <2> DEFINE Good == {k \in Nat : k <= m => Z[k].done = Z[0].done}
  <2>1. 0 \in Good
    OBVIOUS
  <2>2. ASSUME NEW k \in Nat, k \in Good PROVE k + 1 \in Good
    <3>1. SUFFICES ASSUME k + 1 <= m PROVE Z[k + 1].done = Z[0].done
      OBVIOUS
    <3>2. k \in 0..(m - 1) /\ k <= m
      BY <1>1, <3>1
    <3> QED
      BY <1>7, <2>2, <3>2
  <2>3. Nat \subseteq Good
    <3> HIDE DEF Good
    <3> QED
      BY <2>1, <2>2, NaturalsFromZero
  <2> QED
    BY <1>1, <2>3
<1>9. m \in 0..m /\ 0 \in 0..m /\ Z[m] \in ReadingStates
  BY <1>1, <1>5
<1>10. /\ Read(Z[m], ".").done = Z[0].done + 1
       /\ Read(Z[m], ".").bad <=> Z[m].bad \/ Z[m].value \notin 0..MaxOctet
  BY <1>8, <1>9, ReadDot
<1>11. Z[off].value = -1 /\ (Z[off].bad <=> Z[0].bad)
  <2>1. CASE off = 0
    BY <2>1
  <2>2. CASE off = 1
    <3>1. 0 \in 0..(m - 1) /\ 0 + 1 = 1
      BY <1>1, <1>3, <2>2
    <3>2. w[1] = "+"
      BY <1>3, <2>2
    <3> QED
      BY <1>7, <2>2, <3>1, <3>2
  <2> QED
    BY <1>3, <2>1, <2>2
<1>12. CASE \E i \in 1..L : d[i] = "+"
  <2>1. PICK i \in 1..L : d[i] = "+"
    BY <1>12
  <2>2. ~IsU8(w)
    <3>1. "+" \in Chars(d)
      BY <1>2, <2>1 DEF Chars, ToSet, L
    <3> QED
      BY <1>4, <3>1, Classes
  <2> DEFINE q == i + off
  <2>3. q \in 2..m /\ w[q] = "+"
    BY <1>1, <1>2, <1>3, <2>1
  <2> HIDE DEF q
  <2>4. Z[q - 1].fresh = FALSE
    <3>1. q - 2 \in 0..(m - 1) /\ (q - 2) + 1 = q - 1
      BY <1>1, <2>3
    <3> QED
      BY <1>7, <3>1
  <2>5. Z[q].bad
    <3>1. q - 1 \in 0..(m - 1) /\ (q - 1) + 1 = q
      BY <1>1, <2>3
    <3> QED
      BY <1>7, <2>3, <2>4, <3>1
  <2>6. Z[m].bad
    <3> DEFINE Good == {k \in Nat : q <= k /\ k <= m => Z[k].bad}
    <3>1. 0 \in Good
      BY <2>3
    <3>2. ASSUME NEW k \in Nat, k \in Good PROVE k + 1 \in Good
      <4>1. SUFFICES ASSUME q <= k + 1, k + 1 <= m PROVE Z[k + 1].bad
        OBVIOUS
      <4>2. CASE q = k + 1
        BY <2>5, <4>2
      <4>3. CASE q # k + 1
        <5>1. k \in 0..(m - 1) /\ q <= k /\ k <= m
          BY <1>1, <2>3, <4>1, <4>3
        <5> QED
          BY <1>7, <3>2, <5>1
      <4> QED
        BY <4>2, <4>3
    <3>3. Nat \subseteq Good
      <4> HIDE DEF Good
      <4> QED
        BY <3>1, <3>2, NaturalsFromZero
    <3> QED
      BY <1>1, <2>3, <3>3
  <2> QED
    BY <1>10, <2>2, <2>6 DEF m
<1>13. CASE \A i \in 1..L : d[i] # "+"
  <2> DEFINE D == DOMAIN DigitValue
             H == Horner(d)
  <2>1. \A i \in 1..L : d[i] \in D /\ DigitValue[d[i]] \in Nat
    <3>1. \A i \in 1..L : i + off \in 1..m
      BY <1>1, <1>2, <1>3
    <3> QED
      BY <1>1, <1>2, <1>13, <3>1, Classes
  <2>2. d \in Seq(D) /\ Chars(d) \subseteq D
    <3> HIDE DEF D
    <3>1. d \in [1..L -> D]
      BY <1>2, <2>1 DEF L
    <3>2. d \in Seq(D)
      BY <1>2, <3>1, SeqDef
    <3> QED
      BY <3>1, <3>2 DEF Chars, ToSet
  <2>3. /\ H[1..0] = 0
        /\ \A k \in 0..(L - 1) : H[1..k + 1] = 10 * H[1..k] + DigitValue[d[k + 1]]
    BY <2>2, HornerSteps DEF L
  <2> HIDE DEF H
  <2> DEFINE Good == {k \in Nat : k <= L =>
                        /\ H[1..k] \in Nat
                        /\ Z[off + k].bad <=> Z[0].bad
                        /\ k = 0 => Z[off + k].value = -1
                        /\ k # 0 => Z[off + k].value = H[1..k]}
  <2>4. 0 \in Good
    <3>1. off + 0 = off
      BY <1>3
    <3> QED
      BY <1>11, <2>3, <3>1
  <2>5. ASSUME NEW k \in Nat, k \in Good PROVE k + 1 \in Good
    <3>1. SUFFICES ASSUME k + 1 <= L
                   PROVE  /\ H[1..k + 1] \in Nat
                          /\ Z[off + (k + 1)].bad <=> Z[0].bad
                          /\ Z[off + (k + 1)].value = H[1..k + 1]
      OBVIOUS
    <3>2. k \in 0..(L - 1) /\ k + 1 \in 1..L /\ k <= L
      BY <1>2, <3>1
    <3>3. H[1..k] \in Nat /\ DigitValue[d[k + 1]] \in Nat
      BY <2>1, <2>5, <3>2
    <3>4. H[1..k + 1] = 10 * H[1..k] + DigitValue[d[k + 1]]
      BY <2>3, <3>2
    <3>5. H[1..k + 1] \in Nat
      BY <3>3, <3>4
    <3> DEFINE j == off + k
    <3>6. j \in 0..(m - 1) /\ j + 1 = off + (k + 1) /\ w[j + 1] = d[k + 1]
      <4>1. j \in 0..(m - 1) /\ j + 1 = off + (k + 1) /\ j + 1 = (k + 1) + off
        BY <1>1, <1>2, <1>3, <3>2
      <4> QED
        BY <1>2, <3>2, <4>1
    <3>7. w[j + 1] # "+"
      BY <1>13, <3>2, <3>6
    <3>8. /\ Z[j].bad <=> Z[0].bad
          /\ k = 0 => Z[j].value = -1
          /\ k # 0 => Z[j].value = H[1..k]
      BY <2>5, <3>2
    <3> HIDE DEF j
    <3>9. /\ Z[j + 1].bad = Z[j].bad
          /\ Z[j].value = -1 => Z[j + 1].value = DigitValue[d[k + 1]]
          /\ Z[j].value # -1 =>
                Z[j + 1].value = 10 * Z[j].value + DigitValue[d[k + 1]]
      BY <1>7, <3>6, <3>7
    <3>10. Z[j + 1].value = H[1..k + 1]
      <4>1. CASE k = 0
        BY <2>3, <3>3, <3>4, <3>8, <3>9, <4>1
      <4>2. CASE k # 0
        <5>1. Z[j].value # -1
          BY <3>3, <3>8, <4>2
        <5> QED
          BY <3>4, <3>8, <3>9, <4>2, <5>1
      <4> QED
        BY <4>1, <4>2
    <3> QED
      BY <3>5, <3>6, <3>8, <3>9, <3>10
  <2>6. Nat \subseteq Good
    <3> HIDE DEF Good
    <3> QED
      BY <2>4, <2>5, NaturalsFromZero
  <2>7. /\ H[1..L] \in Nat
        /\ Z[m].bad <=> Z[0].bad
        /\ L = 0 => Z[m].value = -1
        /\ L # 0 => Z[m].value = H[1..L]
    <3>1. L \in Good /\ off + L = m /\ L <= L
      BY <1>1, <1>2, <1>3, <2>6
    <3> QED
      BY <3>1
  <2>8. d # <<>> <=> L # 0
    BY <1>2, EmptySeq DEF L
  <2>9. DOMAIN d = 1..L
    BY <1>2 DEF L
  <2>10. IsU8(w) <=> L # 0 /\ H[1..L] <= MaxOctet
    BY <1>4, <2>2, <2>8, <2>9 DEF H
  <2>11. Z[m].value \in 0..MaxOctet <=> L # 0 /\ H[1..L] <= MaxOctet
    BY <2>7, Limits
  <2> QED
    BY <1>10, <2>7, <2>10, <2>11 DEF m
<1> QED
  BY <1>12, <1>13

\* The places where check_ip splits an address, the two ends among them, and
\* the pairs of them with no other between.
Cuts(s) == {0, Len(s) + 1} \cup Dots(s)

Between(s, a, b) ==
    /\ a \in Cuts(s) /\ b \in Cuts(s) /\ a < b
    /\ \A k \in Cuts(s) : k <= a \/ b <= k

LEMMA SectionsBetween ==
    ASSUME NEW s
    PROVE  (\A part \in Sections(s) : part # <<>> /\ IsU8(part))
              <=> \A a, b \in Cuts(s) :
                     Between(s, a, b) => IsU8(SubSeq(s, a + 1, b - 1))
<1>1. \A part \in Sections(s) :
         \E a, b \in Cuts(s) : Between(s, a, b) /\ part = SubSeq(s, a + 1, b - 1)
  BY DEF Sections, Between, Cuts
<1>2. \A a, b \in Cuts(s) : Between(s, a, b) => SubSeq(s, a + 1, b - 1) \in Sections(s)
  <2> SUFFICES ASSUME NEW a \in Cuts(s), NEW b \in Cuts(s), Between(s, a, b)
               PROVE  SubSeq(s, a + 1, b - 1) \in Sections(s)
    OBVIOUS
  <2> DEFINE p == <<a, b>>
  <2>1. /\ p \in Cuts(s) \X Cuts(s) /\ p[1] < p[2]
        /\ \A k \in Cuts(s) : k <= p[1] \/ p[2] <= k
        /\ p[1] = a /\ p[2] = b
    BY DEF Between
  <2> HIDE DEF p
  <2> QED
    BY <2>1 DEF Sections, Cuts
<1>3. \A part : IsU8(part) => part # <<>>
  BY DEF IsU8
<1> QED
  BY <1>1, <1>2, <1>3

\* The reading at each cut tells of the sections before it.
LEMMA ReadingAtCuts ==
    ASSUME NEW s \in Seq(IpChars), NEW R,
           \A k \in 0..Len(s) + 1 : R[k] \in ReadingStates,
           R[0] = Start,
           \A k \in 0..(Len(s) - 1) : R[k + 1] = Read(R[k], s[k + 1]),
           R[Len(s) + 1] = Read(R[Len(s)], ".")
    PROVE  \A b \in Cuts(s) :
              /\ R[b].done = Cardinality({c \in Cuts(s) : 1 <= c /\ c <= b})
              /\ R[b].bad <=> \E p, q \in Cuts(s) :
                    /\ Between(s, p, q) /\ q <= b
                    /\ ~IsU8(SubSeq(s, p + 1, q - 1))
<1> DEFINE N == Len(s) + 1
           C == Cuts(s)
           UpTo(b) == {c \in C : 1 <= c /\ c <= b}
           Wrong(b) == \E p, q \in C : /\ Between(s, p, q) /\ q <= b
                                       /\ ~IsU8(SubSeq(s, p + 1, q - 1))
           Told(b) == /\ R[b].value = -1 /\ R[b].fresh = TRUE
                      /\ R[b].done = Cardinality(UpTo(b))
                      /\ R[b].bad <=> Wrong(b)
           Good == {n \in Nat : \A b \in C : b <= n => Told(b)}
<1>1. /\ N \in Nat \ {0} /\ 0 \in C /\ N \in C /\ C \in SUBSET (0..N)
      /\ \A c \in C : c # 0 /\ c # N => c \in 1..Len(s) /\ s[c] = "."
      /\ \A i \in 1..Len(s) : s[i] = "." => i \in C
  BY DEF Cuts, Dots
<1>2. ASSUME NEW b \in C
      PROVE  IsFiniteSet(UpTo(b)) /\ Cardinality(UpTo(b)) \in Nat
  <2>1. IsFiniteSet(1..N) /\ UpTo(b) \in SUBSET (1..N)
    BY <1>1, FS_Interval
  <2> HIDE DEF UpTo
  <2> QED
    BY <2>1, FS_Subset, FS_CardinalityType
<1> HIDE DEF N, C
<1>3. 0 \in Good
  <2>1. \A b \in C : b <= 0 => b = 0
    BY <1>1
  <2>2. UpTo(0) = {}
    <3>1. \A c \in C : ~(1 <= c /\ c <= 0)
      BY <1>1
    <3> QED
      BY <3>1
  <2>3. ~Wrong(0)
    BY <1>1 DEF Between
  <2>4. R[0].value = -1 /\ R[0].fresh = TRUE /\ R[0].done = 0 /\ R[0].bad = FALSE
    BY DEF Start
  <2> HIDE DEF UpTo, Wrong
  <2>5. Told(0)
    BY <2>2, <2>3, <2>4, FS_EmptySet
  <2> HIDE DEF Told
  <2> QED
    BY <2>1, <2>5
<1>4. ASSUME NEW n \in Nat, n \in Good PROVE n + 1 \in Good
  <2>1. SUFFICES ASSUME n + 1 \in C PROVE Told(n + 1)
    <3> HIDE DEF Told
    <3>1. \A b \in C : b <= n + 1 => b <= n \/ b = n + 1
      BY <1>1
    <3> QED
      BY <1>4, <3>1
  <2>2. PICK b : b = n + 1
    OBVIOUS
  <2>3. b \in C /\ b \in 1..N
    BY <1>1, <2>1, <2>2
  <2>4. PICK a \in C : a < b /\ \A c \in C : c < b => c <= a
    <3> DEFINE A == {c \in C : c < b}
    <3>1. A \in SUBSET (0..N) /\ 0 \in A /\ N \in Nat
      <4>1. (\A c \in C : c \in 0..N) /\ 0 < b
        BY <1>1, <2>3
      <4> QED
        BY <1>1, <4>1
    <3> HIDE DEF A
    <3>2. \E x \in A : \A y \in A : x >= y
      BY <3>1, Greatest
    <3>3. \A x, y \in A : x >= y => y <= x
      BY <3>1
    <3> QED
      BY <3>2, <3>3 DEF A
  <2>5. a \in 0..N /\ Between(s, a, b)
    BY <1>1, <2>3, <2>4 DEF Between, C
  <2>6. Told(a)
    <3> HIDE DEF Told
    <3>1. a <= n
      BY <1>1, <2>2, <2>4, <2>5
    <3> QED
      BY <1>4, <3>1
  <2> DEFINE w == SubSeq(s, a + 1, b - 1)
             m == b - 1 - a
             Z == [k \in 0..m |-> R[a + k]]
  <2>7. m \in Nat /\ a + m = b - 1
    BY <2>3, <2>4, <2>5
  <2>8. \A i \in 1..m : /\ a + i \in 1..Len(s)
                        /\ s[a + i] \in IpChars \ {"."}
    <3>1. \A i \in 1..m : a + i \in 1..Len(s) /\ a < a + i /\ a + i < b
      BY <2>3, <2>4, <2>5 DEF N
    <3>2. \A i \in 1..m : s[a + i] \in IpChars
      BY <3>1, ElementOfSeq
    <3>3. \A i \in 1..m : a + i \notin C
      <4> TAKE i \in 1..m
      <4> SUFFICES ASSUME a + i \in C PROVE FALSE
        OBVIOUS
      <4>1. a + i <= a
        BY <2>4, <3>1
      <4> QED
        BY <2>5, <3>1, <4>1
    <3> QED
      BY <1>1, <3>1, <3>2, <3>3
  <2>9. w \in Seq(IpChars \ {"."}) /\ Len(w) = m /\ \A i \in 1..m : w[i] = s[a + i]
    <3>1. \A i \in a + 1..b - 1 : s[i] \in IpChars \ {"."}
      <4> TAKE i \in a + 1..b - 1
      <4>1. i - a \in 1..m /\ a + (i - a) = i
        BY <2>3, <2>5
      <4> QED
        BY <2>8, <4>1
    <3>2. a + 1 \in Int /\ b - 1 \in Int
      BY <2>3, <2>5
    <3>3. /\ w \in Seq(IpChars \ {"."})
          /\ Len(w) = IF a + 1 <= b - 1 THEN (b - 1) - (a + 1) + 1 ELSE 0
          /\ \A i \in 1..(b - 1) - (a + 1) + 1 : w[i] = s[(a + 1) + i - 1]
      BY <3>1, <3>2, SubSeqProperties
    <3> HIDE DEF w
    <3>4. Len(w) = m
      BY <2>3, <2>4, <2>5, <3>3
    <3>5. \A i \in 1..m : i \in 1..(b - 1) - (a + 1) + 1 /\ (a + 1) + i - 1 = a + i
      BY <2>3, <2>5
    <3> QED
      BY <3>3, <3>4, <3>5
  <2> HIDE DEF w
  <2>10. \A k \in 0..m : Z[k] \in ReadingStates
    <3>1. \A k \in 0..m : a + k \in 0..Len(s) + 1
      BY <2>3, <2>5, <2>7 DEF N
    <3> QED
      BY <3>1
  <2>11. \A k \in 0..(m - 1) : Z[k + 1] = Read(Z[k], w[k + 1])
    <3> TAKE k \in 0..(m - 1)
    <3>1. /\ k \in 0..m /\ k + 1 \in 0..m /\ k + 1 \in 1..m
          /\ a + k \in 0..(Len(s) - 1) /\ a + (k + 1) = (a + k) + 1
      BY <2>3, <2>5, <2>7 DEF N
    <3>2. w[k + 1] = s[(a + k) + 1]
      BY <2>9, <3>1
    <3>3. R[(a + k) + 1] = Read(R[a + k], s[(a + k) + 1])
      BY <3>1
    <3> QED
      BY <3>1, <3>2, <3>3
  <2>12. /\ Z[0] = R[a] /\ Z[m] = R[b - 1] /\ Z[m] \in ReadingStates
         /\ R[b] = Read(R[b - 1], ".")
    <3>1. 0 \in 0..m /\ m \in 0..m /\ a + 0 = a
      BY <2>5, <2>7
    <3>2. R[b] = Read(R[b - 1], ".")
      <4>1. CASE b = N
        <5>1. b - 1 = Len(s)
          BY <4>1 DEF N
        <5> QED
          BY <4>1, <5>1 DEF N
      <4>2. CASE b # N
        <5>1. b - 1 \in 0..(Len(s) - 1) /\ (b - 1) + 1 = b
          BY <2>3, <4>2 DEF N
        <5>2. s[b] = "."
          BY <1>1, <2>3, <4>2
        <5> QED
          BY <5>1, <5>2
      <4> QED
        BY <4>1, <4>2
    <3> QED
      BY <2>7, <2>10, <3>1, <3>2
  <2>13. R[a].value = -1 /\ R[a].fresh = TRUE
    BY <2>6
  <2> HIDE DEF Z, m
  <2>14. /\ Read(Z[m], ".").done = Z[0].done + 1
         /\ Read(Z[m], ".").bad <=> Z[0].bad \/ ~IsU8(w)
    <3>1. \A k \in 0..Len(w) : Z[k] \in ReadingStates
      BY <2>9, <2>10
    <3>2. \A k \in 0..(Len(w) - 1) : Z[k + 1] = Read(Z[k], w[k + 1])
      BY <2>9, <2>11
    <3>3. Z[0].value = -1 /\ Z[0].fresh = TRUE
      BY <2>12, <2>13
    <3> HIDE DEF Told
    <3>4. /\ Read(Z[Len(w)], ".").done = Z[0].done + 1
          /\ Read(Z[Len(w)], ".").bad <=> Z[0].bad \/ ~IsU8(w)
      BY <2>9, <3>1, <3>2, <3>3, SectionRead
    <3> QED
      BY <2>9, <3>4
  <2>15. R[b].value = -1 /\ R[b].fresh = TRUE
    BY <2>12, ReadDot
  <2>16. R[b].done = Cardinality(UpTo(b))
    <3>1. UpTo(b) = UpTo(a) \cup {b} /\ b \notin UpTo(a)
      <4>1. \A c \in C : 1 <= c /\ c <= b <=> (1 <= c /\ c <= a) \/ c = b
        BY <1>1, <2>3, <2>4
      <4>2. ~(b <= a)
        BY <1>1, <2>3, <2>4
      <4> QED
        BY <2>3, <4>1, <4>2
    <3>2. Cardinality(UpTo(b)) = Cardinality(UpTo(a)) + 1
      <4>1. IsFiniteSet(UpTo(a))
        BY <1>2
      <4> HIDE DEF UpTo
      <4> QED
        BY <3>1, <4>1, FS_AddElement
    <3>3. R[a].done = Cardinality(UpTo(a))
      BY <2>6
    <3> HIDE DEF UpTo
    <3> QED
      BY <2>12, <2>14, <3>2, <3>3
  <2>17. R[b].bad <=> Wrong(b)
    <3>1. R[a].bad <=> Wrong(a)
      BY <2>6
    <3>2. Wrong(b) <=> Wrong(a) \/ ~IsU8(w)
      <4>1. Wrong(a) \/ ~IsU8(w) => Wrong(b)
        <5>1. CASE Wrong(a)
          <6>1. \A q \in C : q <= a => q <= b
            BY <1>1, <2>3, <2>4
          <6> QED
            BY <5>1, <6>1
        <5>2. CASE ~IsU8(w)
          <6>1. b <= b
            BY <2>3
          <6> QED
            BY <2>3, <2>5, <5>2, <6>1 DEF w
        <5> QED
          BY <5>1, <5>2
      <4>2. ASSUME Wrong(b) PROVE Wrong(a) \/ ~IsU8(w)
        <5>1. PICK p \in C, q \in C : /\ Between(s, p, q) /\ q <= b
                                      /\ ~IsU8(SubSeq(s, p + 1, q - 1))
          BY <4>2
        <5>2. CASE q = b
          <6>1. p = a
            BY <1>1, <2>3, <2>4, <2>5, <5>1, <5>2 DEF Between, C
          <6> QED
            BY <5>1, <5>2, <6>1 DEF w
        <5>3. CASE q # b
          <6>1. q <= a
            BY <1>1, <2>3, <2>4, <5>1, <5>3
          <6> QED
            BY <5>1, <6>1
        <5> QED
          BY <5>2, <5>3
      <4> QED
        BY <4>1, <4>2
    <3> HIDE DEF Wrong
    <3> QED
      BY <2>12, <2>14, <3>1, <3>2
  <2> HIDE DEF UpTo, Wrong
  <2> QED
    BY <2>2, <2>15, <2>16, <2>17
<1>5. Nat \subseteq Good
  <2> HIDE DEF Good
  <2> QED
    BY <1>3, <1>4, NaturalsFromZero
<1>6. \A b \in C : b \in Nat /\ b <= b
  BY <1>1
<1>7. \A b \in C : R[b].done = Cardinality(UpTo(b)) /\ (R[b].bad <=> Wrong(b))
  BY <1>5, <1>6
<1> QED
  BY <1>7 DEF C

\* Read over a whole text, the sections and their number.
LEMMA Addresses ==
    ASSUME NEW s \in Seq(IpChars)
    PROVE  /\ Reading(s).done = Cardinality(Dots(s)) + 1
           /\ Reading(s).bad <=> ~(\A part \in Sections(s) : part # <<>> /\ IsU8(part))
<1> DEFINE N == Len(s) + 1
           dot == <<".">>
           e == s \o dot
           R == [k \in 0..N |-> Readings(e)[1..k]]
<1>1. N \in Nat \ {0} /\ Len(s) \in Nat /\ N - 1 = Len(s)
  OBVIOUS
<1>2. /\ e \in Seq(IpChars) /\ Len(e) = N /\ e[N] = "."
      /\ \A i \in 1..Len(s) : e[i] = s[i]
  <2>1. dot \in Seq(IpChars) /\ Len(dot) = 1 /\ dot[1] = "."
    BY DEF IpChars
  <2> HIDE DEF dot
  <2>2. /\ e \in Seq(IpChars) /\ Len(e) = Len(s) + Len(dot)
        /\ \A i \in 1..Len(s) + Len(dot) :
              e[i] = IF i <= Len(s) THEN s[i] ELSE dot[i - Len(s)]
    BY <2>1, ConcatProperties
  <2> HIDE DEF e
  <2> QED
    BY <1>1, <2>1, <2>2
<1>3. Reading(s) = R[N]
  <2>1. Reading(s) = Readings(e)[DOMAIN e]
    BY ReadingIsFold
  <2> HIDE DEF e
  <2>2. DOMAIN e = 1..N
    BY <1>2
  <2> QED
    BY <1>1, <2>1, <2>2
<1> HIDE DEF e, N
<1>4. /\ \A k \in 0..N : R[k] \in ReadingStates
      /\ R[0] = Start
      /\ \A k \in 0..(N - 1) : R[k + 1] = Read(R[k], e[k + 1])
  <2>1. /\ Readings(e)[1..0] = Start
        /\ \A k \in 0..N : Readings(e)[1..k] \in ReadingStates
        /\ \A k \in 0..(N - 1) :
              Readings(e)[1..k + 1] = Read(Readings(e)[1..k], e[k + 1])
    BY <1>2, ReadingSteps
  <2>2. 0 \in 0..N /\ \A k \in 0..(N - 1) : k \in 0..N /\ k + 1 \in 0..N
    BY <1>1
  <2> QED
    BY <2>1, <2>2
<1> HIDE DEF R
<1>5. /\ \A k \in 0..Len(s) + 1 : R[k] \in ReadingStates
      /\ \A k \in 0..(Len(s) - 1) : R[k + 1] = Read(R[k], s[k + 1])
      /\ R[Len(s) + 1] = Read(R[Len(s)], ".")
  <2>1. \A k \in 0..(Len(s) - 1) : k \in 0..(N - 1) /\ k + 1 \in 1..Len(s)
    BY <1>1
  <2>2. Len(s) \in 0..(N - 1)
    BY <1>1
  <2> QED
    BY <1>2, <1>4, <2>1, <2>2 DEF N
<1>6. N \in Cuts(s) /\ Cuts(s) \in SUBSET (0..N)
  BY <1>1 DEF Cuts, Dots, N
<1>7. /\ R[N].done = Cardinality({c \in Cuts(s) : 1 <= c /\ c <= N})
      /\ R[N].bad <=> \E p, q \in Cuts(s) :
            /\ Between(s, p, q) /\ q <= N
            /\ ~IsU8(SubSeq(s, p + 1, q - 1))
  BY <1>4, <1>5, <1>6, ReadingAtCuts
<1>8. Cardinality({c \in Cuts(s) : 1 <= c /\ c <= N}) = Cardinality(Dots(s)) + 1
  <2>1. {c \in Cuts(s) : 1 <= c /\ c <= N} = Dots(s) \cup {N} /\ N \notin Dots(s)
    <3>1. \A c \in Dots(s) : c \in 1..Len(s) /\ 1 <= c /\ c <= N /\ c # N
      BY <1>1 DEF Dots
    <3>2. 1 <= N /\ N <= N /\ ~(1 <= 0)
      BY <1>1
    <3> QED
      BY <3>1, <3>2 DEF Cuts, N
  <2>2. IsFiniteSet(Dots(s))
    <3>1. IsFiniteSet(1..Len(s)) /\ Dots(s) \in SUBSET (1..Len(s))
      BY <1>1, FS_Interval DEF Dots
    <3> QED
      BY <3>1, FS_Subset
  <2> QED
    BY <2>1, <2>2, FS_AddElement
<1>9. \A q \in Cuts(s) : q <= N
  BY <1>1, <1>6
<1> QED
  BY <1>3, <1>7, <1>8, <1>9, SectionsBetween

\* check_ip accepts the texts that read, from left to right, as one octet per
\* section with the right number of periods, and no others.
THEOREM AddressesAreOctetsHolds == Spec => []AddressesAreOctets
<1>1. TextOK => AddressesAreOctets
  <2> SUFFICES ASSUME TextOK, field = "ip"
               PROVE  IpOk(text) <=>
                        ~Reading(text).bad /\ Reading(text).done = Periods + 1
    BY DEF AddressesAreOctets
  <2>1. text \in Seq(IpChars)
    BY DEF TextOK, Alphabet, IpChars
  <2>2. BadByte \notin Chars(text)
    <3>1. \A i \in 1..Len(text) : text[i] \in IpChars
      BY <2>1, ElementOfSeq
    <3>2. BadByte \notin IpChars
      BY DEF BadByte, IpChars
    <3>3. \A c \in Chars(text) : c \in IpChars
      <4>1. DOMAIN text = 1..Len(text)
        BY <2>1
      <4> QED
        BY <3>1, <4>1 DEF Chars, ToSet
    <3> QED
      BY <3>2, <3>3
  <2>3. Cardinality(Dots(text)) \in Nat /\ Periods \in Nat
    <3>1. IsFiniteSet(1..Len(text)) /\ Dots(text) \in SUBSET (1..Len(text))
      BY <2>1, FS_Interval DEF Dots
    <3>2. IsFiniteSet(Dots(text))
      BY <3>1, FS_Subset
    <3> QED
      BY <3>2, FS_CardinalityType, Limits
  <2>4. Cardinality(Dots(text)) = Periods <=> Reading(text).done = Periods + 1
    BY <2>1, <2>3, Addresses
  <2> QED
    BY <2>1, <2>2, <2>4, Addresses DEF IpOk
<1> QED
  BY <1>1, TextsHold, PTL

=============================================================================
