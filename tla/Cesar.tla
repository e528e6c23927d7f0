------------------------------- MODULE Cesar -------------------------------
(***************************************************************************)
(* The cipher of the logic server, where handle_client uses it: what is    *)
(* read from the client is decrypted in place in a buffer that is used     *)
(* again and again, and every response is encrypted in place in a copy.    *)
(*                                                                         *)
(* A char is its code, 0 .. 255; whether char is signed makes no           *)
(* difference, as the codes from 128 on are not printable either way.  The *)
(* client's side of the cipher is the inverse of the server's.             *)
(***************************************************************************)
EXTENDS Integers, Sequences

CONSTANTS
    CESAR_SHIFT,
    BUFFER_SIZE,
    Texts,       \* what the client may want to say
    Responses,   \* what the server may answer
    Garbage,     \* what memory that was never written may hold
    MaxSaid,     \* characters the client sends
    MaxAnswers   \* responses the server sends

FirstPrintable == 32
LastPrintable  == 126
Printable == FirstPrintable .. LastPrintable
Codes == 0 .. 255

ASSUME ShiftAssumption == CESAR_SHIFT \in 0 .. 95
ASSUME SizeAssumption ==
    BUFFER_SIZE \in Nat \ {0, 1} /\ MaxSaid \in Nat /\ MaxAnswers \in Nat
\* Texts are C strings.
ASSUME TextsAssumption ==
    Texts \subseteq Seq(Codes \ {0}) /\ Responses \subseteq Seq(Codes \ {0})
ASSUME GarbageAssumption == Garbage \subseteq Codes

VARIABLES
    pc,        \* "poll", "decrypt", "answer", "encrypt" or "exit"
    said,      \* the characters the client wanted to say
    wire,      \* the bytes of them that are on their way
    buffer,    \* char buffer[BUFFER_SIZE] of handle_client
    i,         \* the index of the loop of cesar_decrypt or cesar_encrypt
    heard,     \* what the server took from the buffer
    copy,      \* strdup(response) in send_encrypted_response
    answered,  \* the responses, one after the other
    seen,      \* the bytes the client got
    count      \* responses so far

vars == <<pc, said, wire, buffer, i, heard, copy, answered, seen, count>>

Init ==
    /\ pc       = "poll"
    /\ said     = <<>>
    /\ wire     = <<>>
    /\ buffer   \in [1 .. BUFFER_SIZE -> Garbage]
    /\ i        = 1
    /\ heard    = <<>>
    /\ copy     = <<>>
    /\ answered = <<>>
    /\ seen     = <<>>
    /\ count    = 0

-----------------------------------------------------------------------------
(* One character. *)

\* Mutant: the smallest character is not wrapped round.
Decrypted_NoWrap(c) == IF c \in Printable THEN c - CESAR_SHIFT ELSE c

Decrypted(c) ==
    LET shifted == c - CESAR_SHIFT IN
    IF c \notin Printable THEN c
    ELSE IF shifted < FirstPrintable THEN shifted + 95 ELSE shifted

\* Mutant: the wrap is one character late.
Encrypted_LateWrap(c) ==
    LET shifted == c + CESAR_SHIFT IN
    IF c \notin Printable THEN c
    ELSE IF shifted > LastPrintable + 1 THEN shifted - 95 ELSE shifted

Encrypted(c) ==
    LET shifted == c + CESAR_SHIFT IN
    IF c \notin Printable THEN c
    ELSE IF shifted > LastPrintable THEN shifted - 95 ELSE shifted

\* The client's side: a text character by character.
Coded(s)   == [k \in 1 .. Len(s) |-> Encrypted(s[k])]
Decoded(s) == [k \in 1 .. Len(s) |-> Decrypted(s[k])]

-----------------------------------------------------------------------------

ClientSends ==
    /\ pc # "exit"
    /\ \E t \in Texts :
          /\ Len(said) + Len(t) <= MaxSaid
          /\ said' = said \o t
          /\ wire' = wire \o Coded(t)
    /\ UNCHANGED <<pc, buffer, i, heard, copy, answered, seen, count>>

\* Mutant: what was received is not terminated.
Received_Open(n) == [k \in 1 .. BUFFER_SIZE |-> IF k <= n THEN wire[k] ELSE buffer[k]]

\* recv of n bytes and buffer[bytes_received] = '\0'; what is behind it stays.
Received(n) ==
    [k \in 1 .. BUFFER_SIZE |-> IF k <= n THEN wire[k]
                                ELSE IF k = n + 1 THEN 0 ELSE buffer[k]]

\* recv returns as many bytes as have come, and at most BUFFER_SIZE - 1.
Receive ==
    /\ pc = "poll"
    /\ \E n \in 1 .. Len(wire) :
          /\ n < BUFFER_SIZE
          /\ buffer' = Received(n)
          /\ wire' = SubSeq(wire, n + 1, Len(wire))
    /\ i' = 1
    /\ pc' = "decrypt"
    /\ UNCHANGED <<said, heard, copy, answered, seen, count>>

\* The loop of cesar_decrypt, until it meets the '\0'.
DecryptTurn ==
    /\ pc = "decrypt" /\ buffer[i] # 0
    /\ buffer' = [buffer EXCEPT ![i] = Decrypted(@)]
    /\ i' = i + 1
    /\ UNCHANGED <<pc, said, wire, heard, copy, answered, seen, count>>

\* recv returns 0: the client has closed the connection.
Leave ==
    /\ pc = "poll"
    /\ pc' = "exit"
    /\ UNCHANGED <<said, wire, buffer, i, heard, copy, answered, seen, count>>

\* decrypt_cesar_message is called on what is decrypted already; its result is
\* written to the log only, but without memory for it the session ends.
\* process_client_request gets the buffer.
DecryptReturns ==
    /\ pc = "decrypt" /\ buffer[i] = 0
    /\ \/ pc' = "exit" /\ UNCHANGED heard
       \/ pc' = "answer" /\ heard' = heard \o SubSeq(buffer, 1, i - 1)
    /\ UNCHANGED <<said, wire, buffer, i, copy, answered, seen, count>>

\* The request goes to the data server.
Forward ==
    /\ pc = "answer"
    /\ pc' = "poll"
    /\ UNCHANGED <<said, wire, buffer, i, heard, copy, answered, seen, count>>

\* send_encrypted_response(sock, r): a copy, to be encrypted from its start.
Answer(r) ==
    /\ count < MaxAnswers /\ count' = count + 1
    /\ copy' = Append(r, 0)
    /\ answered' = answered \o r
    /\ i' = 1
    /\ pc' = "encrypt"
    /\ UNCHANGED <<said, wire, heard, seen>>

LocalAnswer ==
    /\ pc = "answer"
    /\ \E r \in Responses : Answer(r)
    /\ UNCHANGED buffer

\* An answer of the data server is read into the same buffer, without the
\* cipher, and sent on.
RelayAnswer ==
    /\ pc = "poll"
    /\ \E r \in Responses :
          /\ Len(r) < BUFFER_SIZE
          /\ buffer' = [k \in 1 .. BUFFER_SIZE |->
                          IF k <= Len(r) THEN r[k] ELSE IF k = Len(r) + 1 THEN 0 ELSE buffer[k]]
          /\ Answer(r)

\* The loop of cesar_encrypt.
EncryptTurn ==
    /\ pc = "encrypt" /\ copy[i] # 0
    /\ copy' = [copy EXCEPT ![i] = Encrypted(@)]
    /\ i' = i + 1
    /\ UNCHANGED <<pc, said, wire, buffer, heard, answered, seen, count>>

\* send(sock, encrypted, strlen(encrypted), 0)
SendEncrypted ==
    /\ pc = "encrypt" /\ copy[i] = 0
    /\ seen' = seen \o SubSeq(copy, 1, i - 1)
    /\ pc' = "poll"
    /\ UNCHANGED <<said, wire, buffer, i, heard, copy, answered, count>>

Exited == pc = "exit" /\ UNCHANGED vars

Next ==
    \/ ClientSends \/ Leave \/ Receive \/ DecryptTurn \/ DecryptReturns
    \/ Forward \/ LocalAnswer \/ RelayAnswer \/ EncryptTurn \/ SendEncrypted \/ Exited

Spec == Init /\ [][Next]_vars

-----------------------------------------------------------------------------
(* Properties. *)

TypeOK ==
    /\ pc \in {"poll", "decrypt", "answer", "encrypt", "exit"}
    /\ said \in Seq(Codes \ {0}) /\ Len(said) <= MaxSaid
    /\ wire \in Seq(Codes \ {0})
    /\ buffer \in [1 .. BUFFER_SIZE -> Codes]
    /\ i \in Nat \ {0}
    /\ heard \in Seq(Codes \ {0})
    /\ copy \in Seq(Codes)
    /\ answered \in Seq(Codes \ {0})
    /\ seen \in Seq(Codes \ {0})
    /\ count \in 0 .. MaxAnswers

\* The loops stop inside their arrays: neither cipher makes a character into
\* '\0' or the '\0' into a character, and nothing of an earlier message is
\* decrypted again.
LoopsStayInside ==
    /\ pc = "decrypt" => i <= BUFFER_SIZE /\ \E k \in i .. BUFFER_SIZE : buffer[k] = 0
    /\ pc = "encrypt" => i <= Len(copy) /\ copy[Len(copy)] = 0

\* What process_client_request gets is what the client said, however the bytes
\* were cut into reads and wherever the shift wraps round: nothing is lost,
\* repeated or read with what an earlier message left in the buffer.
HeardAsSaid ==
    /\ Len(heard) <= Len(said)
    /\ \A k \in 1 .. Len(heard) : heard[k] = said[k]

\* What the client decrypts is what the server answered, whole responses in
\* their order.
SeenAsAnswered ==
    /\ Len(seen) <= Len(answered)
    /\ \A k \in 1 .. Len(seen) : Decrypted(seen[k]) = answered[k]
    /\ pc \in {"poll", "answer"} => Len(seen) = Len(answered)

=============================================================================
