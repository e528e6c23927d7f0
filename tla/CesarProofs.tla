---------------------------- MODULE CesarProofs ----------------------------
(***************************************************************************)
(* The cipher in its buffers, for every shift, every size of the buffer,   *)
(* every text and every way the bytes are cut into reads.                  *)
(***************************************************************************)
EXTENDS Cesar, TLAPS

Chars == Codes \ {0}

-----------------------------------------------------------------------------
(* One character. *)

LEMMA EncryptedIsChar ==
    ASSUME NEW c \in Chars
    PROVE  Encrypted(c) \in Chars
  BY ShiftAssumption
     DEF Encrypted, Chars, Codes, Printable, FirstPrintable, LastPrintable

LEMMA DecryptedIsChar ==
    ASSUME NEW c \in Chars
    PROVE  Decrypted(c) \in Chars
  BY ShiftAssumption
     DEF Decrypted, Chars, Codes, Printable, FirstPrintable, LastPrintable

\* The ciphers are inverse to each other, whatever the shift.
LEMMA RoundTrip ==
    ASSUME NEW c \in Chars
    PROVE  Decrypted(Encrypted(c)) = c
<1>1. CASE c \notin Printable
  BY <1>1 DEF Encrypted, Decrypted
<1>2. CASE c \in Printable /\ c + CESAR_SHIFT > LastPrintable
  <2>1. Encrypted(c) = c + CESAR_SHIFT - 95
    BY <1>2, ShiftAssumption DEF Encrypted, Printable, FirstPrintable, LastPrintable
  <2>2. CESAR_SHIFT = 95 => Decrypted(c) = c
    BY <1>2 DEF Decrypted, Printable, FirstPrintable, LastPrintable
  <2> QED
    BY <1>2, <2>1, <2>2, ShiftAssumption
       DEF Decrypted, Printable, FirstPrintable, LastPrintable
<1>3. CASE c \in Printable /\ c + CESAR_SHIFT <= LastPrintable
  BY <1>3, ShiftAssumption DEF Encrypted, Decrypted, Printable, FirstPrintable, LastPrintable
<1> QED
  BY <1>1, <1>2, <1>3, ShiftAssumption DEF Printable, FirstPrintable, LastPrintable

LEMMA TextTyped ==
    ASSUME NEW t \in Texts
    PROVE  t \in Seq(Chars) /\ Coded(t) \in Seq(Chars) /\ Len(Coded(t)) = Len(t)
<1>1. t \in Seq(Chars)
  BY TextsAssumption DEF Chars
<1>2. \A k \in 1 .. Len(t) : Encrypted(t[k]) \in Chars
  BY <1>1, EncryptedIsChar
<1> QED
  BY <1>1, <1>2 DEF Coded

-----------------------------------------------------------------------------
(* The invariant. *)

\* The bytes on their way are the rest of what was said, from the m-th
\* character on, encrypted.
OnTheWire(m) ==
    /\ Len(said) = m + Len(wire)
    /\ \A k \in 1 .. Len(wire) : wire[k] = Encrypted(said[m + k])

\* n bytes were received: those before i are decrypted, the rest is not, and
\* the '\0' is behind them.
Decrypting(n) ==
    /\ n < BUFFER_SIZE /\ i <= n + 1 /\ buffer[n + 1] = 0
    /\ OnTheWire(Len(heard) + n)
    /\ \A k \in 1 .. n :
          buffer[k] = IF k < i THEN said[Len(heard) + k] ELSE Encrypted(said[Len(heard) + k])

Hears ==
    /\ pc \in {"poll", "answer", "encrypt"} => OnTheWire(Len(heard))
    /\ pc = "decrypt" => \E n \in Nat : Decrypting(n)

\* The copy is what was answered last, encrypted up to i.
Encrypting ==
    /\ Len(copy) >= 1 /\ i <= Len(copy) /\ copy[Len(copy)] = 0
    /\ Len(answered) = Len(seen) + Len(copy) - 1
    /\ \A k \in 1 .. Len(copy) - 1 :
          copy[k] = IF k < i THEN Encrypted(answered[Len(seen) + k]) ELSE answered[Len(seen) + k]

Sees ==
    /\ pc # "encrypt" => Len(seen) = Len(answered)
    /\ pc = "encrypt" => Encrypting

IInv == TypeOK /\ Hears /\ HeardAsSaid /\ Sees /\ SeenAsAnswered

\* What was said, heard and sent stays as it is when something is added.
LEMMA Concat ==
    ASSUME NEW s \in Seq(Chars), NEW t \in Seq(Chars)
    PROVE  /\ s \o t \in Seq(Chars)
           /\ Len(s \o t) = Len(s) + Len(t)
           /\ \A k \in 1 .. Len(s) : (s \o t)[k] = s[k]
           /\ \A k \in 1 .. Len(t) : (s \o t)[Len(s) + k] = t[k]
  OBVIOUS

LEMMA InitIInv ==
    ASSUME Init
    PROVE  IInv
<1>1. buffer \in [1 .. BUFFER_SIZE -> Codes]
  BY GarbageAssumption DEF Init
<1>2. <<>> \in Seq(Codes \ {0}) /\ <<>> \in Seq(Codes) /\ Len(<<>>) = 0
  OBVIOUS
<1>3. TypeOK
  BY <1>1, <1>2, SizeAssumption DEF Init, TypeOK
<1>4. Hears /\ HeardAsSaid /\ Sees /\ SeenAsAnswered
  BY <1>2 DEF Init, Hears, HeardAsSaid, Sees, SeenAsAnswered, OnTheWire
<1> QED
  BY <1>3, <1>4 DEF IInv

-----------------------------------------------------------------------------
(* Each action. *)

LEMMA ClientSendsStep ==
    ASSUME IInv, ClientSends
    PROVE  IInv'
<1>1. PICK t \in Texts : /\ Len(said) + Len(t) <= MaxSaid
                         /\ said' = said \o t /\ wire' = wire \o Coded(t)
  BY DEF ClientSends
<1>2. UNCHANGED <<pc, buffer, i, heard, copy, answered, seen, count>>
  BY DEF ClientSends
<1>3. /\ said \in Seq(Chars) /\ wire \in Seq(Chars)
      /\ t \in Seq(Chars) /\ Coded(t) \in Seq(Chars) /\ Len(Coded(t)) = Len(t)
      /\ \A k \in 1 .. Len(t) : Coded(t)[k] = Encrypted(t[k])
  BY TextTyped DEF IInv, TypeOK, Chars, Coded
<1>4. /\ said' \in Seq(Chars) /\ Len(said') = Len(said) + Len(t)
      /\ \A k \in 1 .. Len(said) : said'[k] = said[k]
      /\ \A k \in 1 .. Len(t) : said'[Len(said) + k] = t[k]
  BY <1>1, <1>3, Concat
<1>5. /\ wire' \in Seq(Chars) /\ Len(wire') = Len(wire) + Len(t)
      /\ \A k \in 1 .. Len(wire) : wire'[k] = wire[k]
      /\ \A k \in 1 .. Len(t) : wire'[Len(wire) + k] = Coded(t)[k]
  <2> DEFINE c == Coded(t)
  <2>1. c \in Seq(Chars) /\ Len(c) = Len(t) /\ wire' = wire \o c /\ wire \in Seq(Chars)
    BY <1>1, <1>3
  <2> HIDE DEF c
  <2>2. /\ wire' \in Seq(Chars) /\ Len(wire') = Len(wire) + Len(c)
        /\ \A k \in 1 .. Len(wire) : wire'[k] = wire[k]
        /\ \A k \in 1 .. Len(c) : wire'[Len(wire) + k] = c[k]
    BY <2>1, Concat
  <2> QED
    BY <2>1, <2>2 DEF c
<1>6. TypeOK'
  BY <1>1, <1>2, <1>4, <1>5 DEF IInv, TypeOK, Chars
<1>7. ASSUME NEW m \in Nat, OnTheWire(m)
      PROVE  /\ Len(said') = m + Len(wire')
             /\ \A k \in 1 .. Len(wire') : wire'[k] = Encrypted(said'[m + k])
  <2>1. Len(said) = m + Len(wire) /\ Len(said) \in Nat /\ Len(wire) \in Nat /\ Len(t) \in Nat
    BY <1>3, <1>7 DEF OnTheWire
  <2>2. ASSUME NEW k \in 1 .. Len(wire') PROVE wire'[k] = Encrypted(said'[m + k])
    <3>1. CASE k \in 1 .. Len(wire)
      <4>1. m + k \in 1 .. Len(said)
        BY <2>1, <3>1
      <4> QED
        BY <1>4, <1>5, <1>7, <3>1, <4>1 DEF OnTheWire
    <3>2. CASE k \notin 1 .. Len(wire)
      <4>1. PICK j \in 1 .. Len(t) : k = Len(wire) + j
        <5>1. k - Len(wire) \in 1 .. Len(t) /\ k = Len(wire) + (k - Len(wire))
          BY <1>5, <2>1, <3>2
        <5> QED
          BY <5>1
      <4>2. m + k = Len(said) + j
        BY <2>1, <4>1
      <4> QED
        BY <1>3, <1>4, <1>5, <4>1, <4>2
    <3> QED
      BY <3>1, <3>2
  <2> QED
    BY <1>4, <1>5, <2>1, <2>2
<1>8. Len(heard) \in Nat /\ Len(heard)' = Len(heard)
  BY <1>2 DEF IInv, TypeOK
<1>9. Hears'
  <2>1. CASE pc \in {"poll", "answer", "encrypt"}
    BY <1>2, <1>7, <1>8, <2>1 DEF IInv, Hears, OnTheWire
  <2>2. CASE pc = "decrypt"
    <3>1. PICK n \in Nat : Decrypting(n)
      BY <2>2 DEF IInv, Hears
    <3>2. \A k \in 1 .. n : said'[Len(heard) + k] = said[Len(heard) + k]
      <4>1. Len(said) = Len(heard) + n + Len(wire) /\ Len(wire) \in Nat
        BY <1>3, <3>1 DEF Decrypting, OnTheWire
      <4> QED
        BY <1>4, <1>8, <4>1
    <3>3. Len(heard) + n \in Nat /\ OnTheWire(Len(heard) + n)
      BY <1>8, <3>1 DEF Decrypting
    <3>4. OnTheWire(Len(heard) + n)'
      BY <1>2, <1>7, <3>3 DEF OnTheWire
    <3>5. Decrypting(n)'
      BY <1>2, <3>1, <3>2, <3>4 DEF Decrypting
    <3> QED
      BY <1>2, <2>2, <3>5 DEF Hears
  <2> QED
    BY <1>2, <2>1, <2>2 DEF Hears
<1>10. HeardAsSaid'
  BY <1>2, <1>3, <1>4, <1>8 DEF IInv, HeardAsSaid
<1>11. Sees' /\ SeenAsAnswered'
  BY <1>2 DEF IInv, Sees, Encrypting, SeenAsAnswered
<1> QED
  BY <1>6, <1>9, <1>10, <1>11 DEF IInv

\* What is left on the wire when n bytes were received.
LEMMA RestOfWire ==
    ASSUME NEW w \in Seq(Chars), NEW n \in 1 .. Len(w)
    PROVE  /\ SubSeq(w, n + 1, Len(w)) \in Seq(Chars)
           /\ Len(SubSeq(w, n + 1, Len(w))) = Len(w) - n
           /\ \A k \in 1 .. Len(w) - n : SubSeq(w, n + 1, Len(w))[k] = w[n + k]
  OBVIOUS

LEMMA ReceiveStep ==
    ASSUME IInv, Receive
    PROVE  IInv'
<1>1. PICK n \in 1 .. Len(wire) : /\ n < BUFFER_SIZE /\ buffer' = Received(n)
                                  /\ wire' = SubSeq(wire, n + 1, Len(wire))
  BY DEF Receive
<1>2. /\ pc = "poll" /\ i' = 1 /\ pc' = "decrypt"
      /\ UNCHANGED <<said, heard, copy, answered, seen, count>>
  BY DEF Receive
<1>3. /\ said \in Seq(Chars) /\ wire \in Seq(Chars) /\ Len(heard) \in Nat
      /\ Len(wire) \in Nat /\ n \in Nat /\ BUFFER_SIZE \in Nat
  BY SizeAssumption DEF IInv, TypeOK, Chars
<1>4. /\ wire' \in Seq(Chars) /\ Len(wire') = Len(wire) - n
      /\ \A k \in 1 .. Len(wire) - n : wire'[k] = wire[n + k]
  BY <1>1, <1>3, RestOfWire
<1>5. /\ buffer' \in [1 .. BUFFER_SIZE -> Codes] /\ buffer'[n + 1] = 0
      /\ \A k \in 1 .. n : buffer'[k] = wire[k]
  <2>1. \A k \in 1 .. n : wire[k] \in Codes
    BY <1>3 DEF Chars
  <2>2. 0 \in Codes /\ buffer \in [1 .. BUFFER_SIZE -> Codes]
    BY DEF IInv, TypeOK, Codes
  <2>3. \A k \in 1 .. BUFFER_SIZE :
            buffer'[k] = IF k <= n THEN wire[k] ELSE IF k = n + 1 THEN 0 ELSE buffer[k]
    BY <1>1 DEF Received
  <2>4. buffer' \in [1 .. BUFFER_SIZE -> Codes]
    BY <1>1, <1>3, <2>1, <2>2 DEF Received
  <2> QED
    BY <1>1, <1>3, <2>3, <2>4
<1>6. TypeOK'
  BY <1>2, <1>4, <1>5 DEF IInv, TypeOK, Chars
<1>7. OnTheWire(Len(heard))
  BY <1>2 DEF IInv, Hears
<1>8. OnTheWire(Len(heard) + n)'
  <2>1. Len(said) = (Len(heard) + n) + Len(wire')
    BY <1>3, <1>4, <1>7 DEF OnTheWire
  <2>2. ASSUME NEW k \in 1 .. Len(wire') PROVE wire'[k] = Encrypted(said[(Len(heard) + n) + k])
    <3>1. n + k \in 1 .. Len(wire) /\ k \in 1 .. Len(wire) - n
      BY <1>3, <1>4
    <3>2. Len(heard) + (n + k) = (Len(heard) + n) + k
      BY <1>3, <3>1
    <3>3. wire'[k] = wire[n + k]
      BY <1>4, <3>1
    <3>4. wire[n + k] = Encrypted(said[Len(heard) + (n + k)])
      BY <1>7, <3>1 DEF OnTheWire
    <3> QED
      BY <3>2, <3>3, <3>4
  <2> QED
    BY <1>2, <2>1, <2>2 DEF OnTheWire
<1>9. Decrypting(n)'
  <2>1. \A k \in 1 .. n : buffer'[k] = Encrypted(said[Len(heard) + k])
    BY <1>1, <1>3, <1>5, <1>7 DEF OnTheWire
  <2> QED
    BY <1>1, <1>2, <1>3, <1>5, <1>8, <2>1 DEF Decrypting
<1>10. Hears'
  BY <1>2, <1>3, <1>9 DEF Hears
<1>11. HeardAsSaid' /\ Sees' /\ SeenAsAnswered'
  BY <1>2 DEF IInv, HeardAsSaid, Sees, SeenAsAnswered
<1> QED
  BY <1>6, <1>10, <1>11 DEF IInv

\* The loop is inside what was received until it meets the '\0'.
LEMMA DecryptingAt ==
    ASSUME IInv, NEW n \in Nat, Decrypting(n)
    PROVE  /\ \A k \in 1 .. n : Len(heard) + k \in 1 .. Len(said)
           /\ \A k \in 1 .. n : said[Len(heard) + k] \in Chars /\ buffer[k] \in Chars
           /\ i \in 1 .. BUFFER_SIZE
           /\ buffer[i] = 0 <=> i = n + 1
<1>1. /\ Len(said) = Len(heard) + n + Len(wire) /\ Len(wire) \in Nat /\ Len(heard) \in Nat
      /\ said \in Seq(Chars) /\ i \in Nat \ {0}
  BY DEF IInv, TypeOK, Decrypting, OnTheWire, Chars
<1>2. \A k \in 1 .. n : Len(heard) + k \in 1 .. Len(said)
  BY <1>1
<1>3. \A k \in 1 .. n : said[Len(heard) + k] \in Chars
  BY <1>1, <1>2
<1>4. \A k \in 1 .. n : buffer[k] \in Chars
  BY <1>3, EncryptedIsChar DEF Decrypting
<1>5. i \in 1 .. BUFFER_SIZE
  BY <1>1, SizeAssumption DEF Decrypting
<1>6. buffer[i] = 0 <=> i = n + 1
  BY <1>1, <1>4 DEF Decrypting, Chars
<1> QED
  BY <1>2, <1>3, <1>4, <1>5, <1>6

LEMMA DecryptTurnStep ==
    ASSUME IInv, DecryptTurn
    PROVE  IInv'
<1>1. /\ pc = "decrypt" /\ buffer[i] # 0 /\ buffer' = [buffer EXCEPT ![i] = Decrypted(@)]
      /\ i' = i + 1 /\ UNCHANGED <<pc, said, wire, heard, copy, answered, seen, count>>
  BY DEF DecryptTurn
<1>2. PICK n \in Nat : Decrypting(n)
  BY <1>1 DEF IInv, Hears
<1>3. /\ \A k \in 1 .. n : said[Len(heard) + k] \in Chars /\ buffer[k] \in Chars
      /\ i \in 1 .. BUFFER_SIZE /\ i # n + 1 /\ i \in 1 .. n
  BY <1>1, <1>2, DecryptingAt DEF Decrypting
<1>4. buffer[i] = Encrypted(said[Len(heard) + i])
  BY <1>2, <1>3 DEF Decrypting
<1>5. Decrypted(buffer[i]) = said[Len(heard) + i] /\ Decrypted(buffer[i]) \in Codes
  BY <1>3, <1>4, RoundTrip DEF Chars
<1>6. buffer \in [1 .. BUFFER_SIZE -> Codes] /\ buffer' \in [1 .. BUFFER_SIZE -> Codes]
  BY <1>1, <1>3, <1>5 DEF IInv, TypeOK
<1>7. TypeOK'
  BY <1>1, <1>6 DEF IInv, TypeOK
<1>8. Decrypting(n)'
  <2>1. OnTheWire(Len(heard) + n)'
    BY <1>1, <1>2 DEF Decrypting, OnTheWire
  <2>2. n < BUFFER_SIZE /\ i' <= n + 1 /\ buffer'[n + 1] = 0
    BY <1>1, <1>2, <1>3, <1>6, SizeAssumption DEF Decrypting
  <2>3. ASSUME NEW k \in 1 .. n
        PROVE  buffer'[k] = IF k < i' THEN said[Len(heard) + k]
                            ELSE Encrypted(said[Len(heard) + k])
    <3>1. CASE k = i
      BY <1>1, <1>3, <1>5, <1>6, <3>1
    <3>2. CASE k # i
      <4>1. buffer'[k] = buffer[k] /\ (k < i' <=> k < i)
        BY <1>1, <1>3, <1>6, <3>2, <2>2, SizeAssumption
      <4> QED
        BY <1>2, <4>1 DEF Decrypting
    <3> QED
      BY <3>1, <3>2
  <2> QED
    BY <1>1, <2>1, <2>2, <2>3 DEF Decrypting
<1>9. Hears'
  BY <1>1, <1>8 DEF Hears
<1>10. HeardAsSaid' /\ Sees' /\ SeenAsAnswered'
  BY <1>1 DEF IInv, HeardAsSaid, Sees, SeenAsAnswered
<1> QED
  BY <1>7, <1>9, <1>10 DEF IInv

\* The beginning of an array.
LEMMA Prefix ==
    ASSUME NEW m \in Nat, NEW b, NEW n \in Nat, n <= m,
           b \in [1 .. m -> Codes], \A k \in 1 .. n : b[k] \in Chars
    PROVE  /\ SubSeq(b, 1, n) \in Seq(Chars)
           /\ Len(SubSeq(b, 1, n)) = n
           /\ \A k \in 1 .. n : SubSeq(b, 1, n)[k] = b[k]
<1>1. b \in Seq(Codes) /\ Len(b) = m
  OBVIOUS
<1>2. Len(SubSeq(b, 1, n)) = n /\ \A k \in 1 .. n : SubSeq(b, 1, n)[k] = b[k]
  BY <1>1
<1> QED
  BY <1>1, <1>2

LEMMA DecryptReturnsStep ==
    ASSUME IInv, DecryptReturns
    PROVE  IInv'
<1>1. /\ pc = "decrypt" /\ buffer[i] = 0
      /\ UNCHANGED <<said, wire, buffer, i, copy, answered, seen, count>>
  BY DEF DecryptReturns
<1>2. CASE pc' = "exit" /\ UNCHANGED heard
  BY <1>1, <1>2
     DEF IInv, TypeOK, Hears, HeardAsSaid, Sees, SeenAsAnswered
<1>3. CASE pc' = "answer" /\ heard' = heard \o SubSeq(buffer, 1, i - 1)
  <2>1. PICK n \in Nat : Decrypting(n)
    BY <1>1 DEF IInv, Hears
  <2>2. /\ \A k \in 1 .. n : said[Len(heard) + k] \in Chars /\ buffer[k] \in Chars
        /\ i = n + 1
    BY <1>1, <2>1, DecryptingAt
  <2>3. /\ BUFFER_SIZE \in Nat /\ n <= BUFFER_SIZE /\ buffer \in [1 .. BUFFER_SIZE -> Codes]
        /\ heard \in Seq(Chars) /\ Len(heard) \in Nat /\ i - 1 = n
    BY <2>1, <2>2, SizeAssumption DEF IInv, TypeOK, Decrypting, Chars
  <2> DEFINE p == SubSeq(buffer, 1, n)
  <2>4. /\ p \in Seq(Chars) /\ Len(p) = n
        /\ \A k \in 1 .. n : p[k] = said[Len(heard) + k]
    BY <2>1, <2>2, <2>3, Prefix DEF Decrypting
  <2>5. heard' = heard \o p
    BY <1>3, <2>3
  <2> HIDE DEF p
  <2>6. /\ heard' \in Seq(Chars) /\ Len(heard') = Len(heard) + n
        /\ \A k \in 1 .. Len(heard) : heard'[k] = heard[k]
        /\ \A k \in 1 .. n : heard'[Len(heard) + k] = said[Len(heard) + k]
    <3>1. /\ heard \o p \in Seq(Chars) /\ Len(heard \o p) = Len(heard) + Len(p)
          /\ \A k \in 1 .. Len(heard) : (heard \o p)[k] = heard[k]
          /\ \A k \in 1 .. Len(p) : (heard \o p)[Len(heard) + k] = p[k]
      BY <2>3, <2>4, Concat
    <3> QED
      BY <2>4, <2>5, <3>1
  <2>7. TypeOK'
    BY <1>1, <1>3, <2>6 DEF IInv, TypeOK, Chars
  <2>8. Hears'
    BY <1>1, <1>3, <2>1, <2>6 DEF Hears, Decrypting, OnTheWire
  <2>9. HeardAsSaid'
    <3>1. Len(said) = Len(heard) + n + Len(wire) /\ Len(wire) \in Nat
      BY <2>1 DEF IInv, TypeOK, Decrypting, OnTheWire
    <3>2. ASSUME NEW k \in 1 .. Len(heard') PROVE heard'[k] = said[k]
      <4>1. CASE k \in 1 .. Len(heard)
        BY <2>6, <4>1 DEF IInv, HeardAsSaid
      <4>2. CASE k \notin 1 .. Len(heard)
        <5>1. k - Len(heard) \in 1 .. n /\ Len(heard) + (k - Len(heard)) = k
          BY <2>3, <2>6, <4>2
        <5> QED
          BY <2>6, <5>1
      <4> QED
        BY <4>1, <4>2
    <3>3. Len(heard') <= Len(said)
      BY <2>3, <2>6, <3>1
    <3> QED
      BY <1>1, <3>2, <3>3 DEF HeardAsSaid
  <2>10. Sees' /\ SeenAsAnswered'
    BY <1>1, <1>3 DEF IInv, Sees, SeenAsAnswered
  <2> QED
    BY <2>7, <2>8, <2>9, <2>10 DEF IInv
<1> QED
  BY <1>2, <1>3 DEF DecryptReturns

\* A response is put behind what was answered, and its copy has yet to be
\* encrypted.
LEMMA AnswerStep ==
    ASSUME IInv, pc \in {"poll", "answer"}, NEW r \in Responses, Answer(r),
           buffer' \in [1 .. BUFFER_SIZE -> Codes]
    PROVE  IInv'
<1>1. /\ count < MaxAnswers /\ count' = count + 1 /\ copy' = Append(r, 0)
      /\ answered' = answered \o r /\ i' = 1 /\ pc' = "encrypt"
      /\ UNCHANGED <<said, wire, heard, seen>>
  BY DEF Answer
<1>2. /\ r \in Seq(Chars) /\ answered \in Seq(Chars) /\ Len(r) \in Nat
      /\ Len(answered) \in Nat /\ Len(seen) = Len(answered)
  BY TextsAssumption DEF IInv, TypeOK, Sees, Chars
<1>3. /\ answered' \in Seq(Chars) /\ Len(answered') = Len(answered) + Len(r)
      /\ \A k \in 1 .. Len(answered) : answered'[k] = answered[k]
      /\ \A k \in 1 .. Len(r) : answered'[Len(answered) + k] = r[k]
  <2>1. /\ answered \o r \in Seq(Chars) /\ Len(answered \o r) = Len(answered) + Len(r)
        /\ \A k \in 1 .. Len(answered) : (answered \o r)[k] = answered[k]
        /\ \A k \in 1 .. Len(r) : (answered \o r)[Len(answered) + k] = r[k]
    BY <1>2, Concat
  <2> QED
    BY <1>1, <2>1
<1>4. /\ copy' \in Seq(Codes) /\ Len(copy') = Len(r) + 1 /\ copy'[Len(r) + 1] = 0
      /\ \A k \in 1 .. Len(r) : copy'[k] = r[k]
  <2>1. r \in Seq(Codes) /\ 0 \in Codes
    BY <1>2 DEF Chars, Codes
  <2> QED
    BY <1>1, <2>1
<1>5. TypeOK'
  BY <1>1, <1>3, <1>4, SizeAssumption DEF IInv, TypeOK, Chars
<1>6. Hears' /\ HeardAsSaid'
  BY <1>1 DEF IInv, Hears, HeardAsSaid, OnTheWire
<1>7. Encrypting'
  BY <1>1, <1>2, <1>3, <1>4 DEF Encrypting
<1>8. Sees'
  BY <1>1, <1>7 DEF Sees
<1>9. SeenAsAnswered'
  BY <1>1, <1>2, <1>3 DEF IInv, SeenAsAnswered
<1> QED
  BY <1>5, <1>6, <1>8, <1>9 DEF IInv

LEMMA RelayStep ==
    ASSUME IInv, RelayAnswer
    PROVE  IInv'
<1>1. PICK r \in Responses :
          /\ Len(r) < BUFFER_SIZE /\ Answer(r)
          /\ buffer' = [k \in 1 .. BUFFER_SIZE |->
                          IF k <= Len(r) THEN r[k] ELSE IF k = Len(r) + 1 THEN 0 ELSE buffer[k]]
  BY DEF RelayAnswer
<1>2. /\ \A k \in 1 .. Len(r) : r[k] \in Codes
      /\ 0 \in Codes /\ buffer \in [1 .. BUFFER_SIZE -> Codes] /\ Len(r) \in Nat
  <2>1. r \in Seq(Chars)
    BY TextsAssumption DEF Chars
  <2>2. \A k \in 1 .. Len(r) : r[k] \in Codes
    BY <2>1 DEF Chars
  <2> QED
    BY <2>1, <2>2 DEF IInv, TypeOK, Codes
<1>3. buffer' \in [1 .. BUFFER_SIZE -> Codes]
  BY <1>1, <1>2, SizeAssumption
<1> QED
  BY <1>1, <1>3, AnswerStep DEF RelayAnswer

LEMMA LocalStep ==
    ASSUME IInv, LocalAnswer
    PROVE  IInv'
<1>1. buffer' \in [1 .. BUFFER_SIZE -> Codes]
  BY DEF IInv, TypeOK, LocalAnswer
<1> QED
  BY <1>1, AnswerStep DEF LocalAnswer

\* The loop is inside the copy until it meets the '\0'.
LEMMA EncryptingAt ==
    ASSUME IInv, Encrypting
    PROVE  /\ \A k \in 1 .. Len(copy) - 1 : answered[Len(seen) + k] \in Chars /\ copy[k] \in Chars
           /\ i \in 1 .. Len(copy) /\ Len(copy) \in Nat /\ Len(seen) \in Nat
           /\ copy[i] = 0 <=> i = Len(copy)
<1>1. /\ Len(copy) \in Nat /\ Len(seen) \in Nat /\ answered \in Seq(Chars) /\ i \in Nat \ {0}
      /\ Len(answered) = Len(seen) + Len(copy) - 1
  BY DEF IInv, TypeOK, Chars, Encrypting
<1>2. \A k \in 1 .. Len(copy) - 1 : answered[Len(seen) + k] \in Chars
  <2>1. \A k \in 1 .. Len(copy) - 1 : Len(seen) + k \in 1 .. Len(answered)
    BY <1>1
  <2> QED
    BY <1>1, <2>1
<1>3. \A k \in 1 .. Len(copy) - 1 : copy[k] \in Chars
  BY <1>2, EncryptedIsChar DEF Encrypting
<1>4. i \in 1 .. Len(copy)
  BY <1>1 DEF Encrypting
<1>5. copy[i] = 0 <=> i = Len(copy)
  BY <1>1, <1>3, <1>4 DEF Encrypting, Chars
<1> QED
  BY <1>1, <1>2, <1>3, <1>4, <1>5

LEMMA EncryptTurnStep ==
    ASSUME IInv, EncryptTurn
    PROVE  IInv'
<1>1. /\ pc = "encrypt" /\ copy[i] # 0 /\ copy' = [copy EXCEPT ![i] = Encrypted(@)]
      /\ i' = i + 1 /\ UNCHANGED <<pc, said, wire, buffer, heard, answered, seen, count>>
  BY DEF EncryptTurn
<1>2. Encrypting
  BY <1>1 DEF IInv, Sees
<1>3. /\ i \in 1 .. Len(copy) - 1 /\ copy[i] \in Chars /\ Len(copy) \in Nat
      /\ copy \in Seq(Codes)
  BY <1>1, <1>2, EncryptingAt DEF IInv, TypeOK
<1>4. copy[i] = answered[Len(seen) + i] /\ Encrypted(copy[i]) \in Codes
  BY <1>2, <1>3, EncryptedIsChar DEF Encrypting, Chars
<1>5. /\ copy' \in Seq(Codes) /\ Len(copy') = Len(copy)
      /\ copy'[i] = Encrypted(answered[Len(seen) + i])
      /\ \A k \in 1 .. Len(copy) : k # i => copy'[k] = copy[k]
  BY <1>1, <1>3, <1>4
<1>6. TypeOK'
  BY <1>1, <1>5 DEF IInv, TypeOK
<1>7. Encrypting'
  <2>1. ASSUME NEW k \in 1 .. Len(copy) - 1
        PROVE  copy'[k] = IF k < i' THEN Encrypted(answered[Len(seen) + k])
                          ELSE answered[Len(seen) + k]
    <3>1. CASE k = i
      BY <1>1, <1>3, <1>5, <3>1
    <3>2. CASE k # i
      <4>1. copy'[k] = copy[k] /\ (k < i' <=> k < i)
        BY <1>1, <1>3, <1>5, <3>2
      <4> QED
        BY <1>2, <4>1 DEF Encrypting
    <3> QED
      BY <3>1, <3>2
  <2>2. i' <= Len(copy') /\ copy'[Len(copy')] = 0
    <3>1. Len(copy) \in 1 .. Len(copy) /\ Len(copy) # i
      BY <1>3
    <3>2. copy'[Len(copy)] = copy[Len(copy)]
      BY <1>5, <3>1
    <3>3. copy[Len(copy)] = 0
      BY <1>2 DEF Encrypting
    <3>4. i' <= Len(copy)
      BY <1>1, <1>3
    <3> QED
      BY <1>5, <3>2, <3>3, <3>4
  <2> QED
    BY <1>1, <1>2, <1>5, <2>1, <2>2 DEF Encrypting
<1>8. Hears' /\ HeardAsSaid' /\ Sees' /\ SeenAsAnswered'
  BY <1>1, <1>7 DEF IInv, Hears, OnTheWire, HeardAsSaid, Sees, SeenAsAnswered
<1> QED
  BY <1>6, <1>8 DEF IInv

LEMMA SendStep ==
    ASSUME IInv, SendEncrypted
    PROVE  IInv'
<1>1. /\ pc = "encrypt" /\ copy[i] = 0 /\ pc' = "poll"
      /\ seen' = seen \o SubSeq(copy, 1, i - 1)
      /\ UNCHANGED <<said, wire, buffer, i, heard, copy, answered, count>>
  BY DEF SendEncrypted
<1>2. Encrypting
  BY <1>1 DEF IInv, Sees
<1> DEFINE n == Len(copy) - 1
<1>3. /\ i = n + 1 /\ n \in Nat /\ Len(seen) \in Nat /\ seen \in Seq(Chars)
      /\ copy \in [1 .. Len(copy) -> Codes] /\ Len(copy) \in Nat /\ n <= Len(copy)
      /\ \A k \in 1 .. n : answered[Len(seen) + k] \in Chars /\ copy[k] \in Chars
      /\ Len(answered) = Len(seen) + n
  <2>1. /\ \A k \in 1 .. Len(copy) - 1 : answered[Len(seen) + k] \in Chars /\ copy[k] \in Chars
        /\ i = Len(copy) /\ Len(copy) \in Nat /\ Len(seen) \in Nat
    BY <1>1, <1>2, EncryptingAt
  <2>2. seen \in Seq(Chars) /\ copy \in Seq(Codes)
    BY DEF IInv, TypeOK, Chars
  <2>3. copy \in [1 .. Len(copy) -> Codes]
    BY <2>2
  <2>4. Len(copy) >= 1 /\ Len(answered) = Len(seen) + Len(copy) - 1
    BY <1>2 DEF Encrypting
  <2>5. i = n + 1 /\ n \in Nat /\ n <= Len(copy) /\ Len(answered) = Len(seen) + n
    BY <2>1, <2>4
  <2> QED
    BY <2>1, <2>2, <2>3, <2>5
<1>4. \A k \in 1 .. n : copy[k] = Encrypted(answered[Len(seen) + k])
  BY <1>2, <1>3 DEF Encrypting
<1> HIDE DEF n
<1> DEFINE p == SubSeq(copy, 1, n)
<1>5. p \in Seq(Chars) /\ Len(p) = n /\ \A k \in 1 .. n : p[k] = copy[k]
  BY <1>3, Prefix
<1>6. seen' = seen \o p
  BY <1>1, <1>3
<1> HIDE DEF p
<1>7. /\ seen' \in Seq(Chars) /\ Len(seen') = Len(seen) + n
      /\ \A k \in 1 .. Len(seen) : seen'[k] = seen[k]
      /\ \A k \in 1 .. n : seen'[Len(seen) + k] = p[k]
  <2>1. /\ seen \o p \in Seq(Chars) /\ Len(seen \o p) = Len(seen) + Len(p)
        /\ \A k \in 1 .. Len(seen) : (seen \o p)[k] = seen[k]
        /\ \A k \in 1 .. Len(p) : (seen \o p)[Len(seen) + k] = p[k]
    BY <1>3, <1>5, Concat
  <2> QED
    BY <1>5, <1>6, <2>1
<1>8. TypeOK'
  BY <1>1, <1>7 DEF IInv, TypeOK, Chars
<1>9. Hears' /\ HeardAsSaid'
  BY <1>1 DEF IInv, Hears, HeardAsSaid, OnTheWire
<1>10. Sees'
  BY <1>1, <1>3, <1>7 DEF Sees
<1>11. SeenAsAnswered'
  <2>1. ASSUME NEW k \in 1 .. Len(seen') PROVE Decrypted(seen'[k]) = answered[k]
    <3>1. CASE k \in 1 .. Len(seen)
      BY <1>7, <3>1 DEF IInv, SeenAsAnswered
    <3>2. CASE k \notin 1 .. Len(seen)
      <4>1. k - Len(seen) \in 1 .. n /\ Len(seen) + (k - Len(seen)) = k
        BY <1>3, <1>7, <3>2
      <4>2. seen'[k] = Encrypted(answered[k]) /\ answered[k] \in Chars
        BY <1>3, <1>4, <1>5, <1>7, <4>1
      <4> QED
        BY <4>2, RoundTrip
    <3> QED
      BY <3>1, <3>2
  <2> QED
    BY <1>1, <1>3, <1>7, <2>1 DEF SeenAsAnswered
<1> QED
  BY <1>8, <1>9, <1>10, <1>11 DEF IInv

\* The steps that only move on.
LEMMA MoveStep ==
    ASSUME IInv, Leave \/ Forward \/ Exited \/ UNCHANGED vars
    PROVE  IInv'
<1>1. /\ UNCHANGED <<said, wire, buffer, i, heard, copy, answered, seen, count>>
      /\ \/ pc' = pc
         \/ pc \in {"poll", "answer"} /\ pc' \in {"poll", "exit"}
  BY DEF Leave, Forward, Exited, vars
<1>2. CASE pc' = pc
  BY <1>1, <1>2 DEF IInv, TypeOK, Hears, Decrypting, OnTheWire, HeardAsSaid, Sees, Encrypting,
                    SeenAsAnswered
<1>3. CASE pc \in {"poll", "answer"} /\ pc' \in {"poll", "exit"}
  BY <1>1, <1>3 DEF IInv, TypeOK, Hears, OnTheWire, HeardAsSaid, Sees, SeenAsAnswered
<1> QED
  BY <1>1, <1>2, <1>3

LEMMA Inductive == Spec => []IInv
<1>1. Init => IInv
  BY InitIInv
<1>2. IInv /\ [Next]_vars => IInv'
  BY ClientSendsStep, ReceiveStep, DecryptTurnStep, DecryptReturnsStep, LocalStep, RelayStep,
     EncryptTurnStep, SendStep, MoveStep DEF Next
<1> QED
  BY <1>1, <1>2, PTL DEF Spec

-----------------------------------------------------------------------------

\* recv, the '\0' behind it and the two ciphers keep every byte in its place
\* and in its range: no cipher makes a character that is none.
THEOREM TypeCorrect == Spec => []TypeOK
<1>1. IInv => TypeOK
  BY DEF IInv
<1> QED
  BY <1>1, Inductive, PTL

\* The loops of cesar_decrypt and cesar_encrypt, which have no bound but the
\* '\0', end inside their arrays.
THEOREM LoopsEndInside == Spec => []LoopsStayInside
<1>1. IInv => LoopsStayInside
  <2> SUFFICES ASSUME IInv
               PROVE  LoopsStayInside
    OBVIOUS
  <2>1. ASSUME pc = "decrypt"
        PROVE  i <= BUFFER_SIZE /\ \E k \in i .. BUFFER_SIZE : buffer[k] = 0
    <3>1. PICK n \in Nat : Decrypting(n)
      BY <2>1 DEF IInv, Hears
    <3>2. n + 1 \in i .. BUFFER_SIZE /\ buffer[n + 1] = 0 /\ i \in 1 .. BUFFER_SIZE
      BY <3>1, DecryptingAt, SizeAssumption DEF Decrypting
    <3> QED
      BY <3>2, SizeAssumption
  <2>2. ASSUME pc = "encrypt" PROVE i <= Len(copy) /\ copy[Len(copy)] = 0
    BY <2>2 DEF IInv, Sees, Encrypting
  <2> QED
    BY <2>1, <2>2 DEF LoopsStayInside
<1> QED
  BY <1>1, Inductive, PTL

\* What handle_client hears is what the client said, for every shift and every
\* way recv cuts the bytes.
THEOREM Understood == Spec => []HeardAsSaid
<1>1. IInv => HeardAsSaid
  BY DEF IInv
<1> QED
  BY <1>1, Inductive, PTL

\* What the client decrypts of send_encrypted_response is what was answered.
THEOREM Readable == Spec => []SeenAsAnswered
<1>1. IInv => SeenAsAnswered
  BY DEF IInv
<1> QED
  BY <1>1, Inductive, PTL

=============================================================================
