------------------------------- MODULE Framing -------------------------------
(***************************************************************************)
(* One direction of the pipe, byte by byte: a writer that puts frames into *)
(* it and a reader that takes them out in pieces of any size               *)
(* (ipc/protocol.rs; WriteFrameAsync and ReadFrameAsync of the client).    *)
(* A byte is [of, value]: a digit of a length, or a byte of the message    *)
(* `of'.                                                                   *)
(***************************************************************************)
EXTENDS Naturals, Sequences, SequencesExt

CONSTANTS
  Base,         \* values of a byte: 256
  MaxPayload,   \* MAX_PAYLOAD_SIZE: 1 MiB
  Reader        \* who reads: "daemon" or "client"

VARIABLES
  stream,       \* bytes in the pipe
  got           \* bytes the reader has of the frame it is reading

HeaderSize == 4

(* u32::to_le_bytes and from_le_bytes.                                     *)
ToLE(n) ==
  LET n1 == n \div Base
      n2 == n1 \div Base
      n3 == n2 \div Base
  IN  [d \in 1 .. HeaderSize |-> [of |-> 0, value |-> <<n, n1, n2, n3>>[d] % Base]]

FromLE(bytes) ==
  bytes[1].value + Base * (bytes[2].value + Base * (bytes[3].value + Base * bytes[4].value))

(* encode_frame fails above the limit.  The client's writer has no limit.  *)
Fits(size) == size <= MaxPayload

Payload(k, size) == [i \in 1 .. size |-> [of |-> k, value |-> 1]]

Frame(k, size) == ToLE(size) \o Payload(k, size)

Write(k, size) ==
  /\ stream' = stream \o Frame(k, size)
  /\ UNCHANGED got

-----------------------------------------------------------------------------
(* read_frame and ReadFrameAsync.                                          *)

HeaderRead == Len(got) >= HeaderSize

PayloadLen == FromLE(SubSeq(got, 1, HeaderSize))

(* The client refuses empty frames as well, and reads a length above 2^31  *)
(* as a negative one, which is also outside of its bounds.                 *)
Accepted(n) == n <= MaxPayload /\ (Reader = "client" => n > 0)

Refused == HeaderRead /\ ~Accepted(PayloadLen)

(* Faulty: the loop on the payload starts at an offset that still counts   *)
(* the header.                                                             *)
WantedShort ==
  IF ~HeaderRead THEN HeaderSize
  ELSE IF PayloadLen > HeaderSize THEN PayloadLen ELSE HeaderSize

(* Bytes asked of the pipe so far: the header, then also the payload.      *)
Wanted == IF HeaderRead THEN HeaderSize + PayloadLen ELSE HeaderSize

Complete == HeaderRead /\ ~Refused /\ Len(got) >= Wanted

(* A read returns at least one byte and at most what was asked for.        *)
ReadSome(n) ==
  /\ ~Refused
  /\ n \in 1 .. Wanted - Len(got)
  /\ n <= Len(stream)
  /\ got' = got \o SubSeq(stream, 1, n)
  /\ stream' = SubSeq(stream, n + 1, Len(stream))

Message == SubSeq(got, HeaderSize + 1, Len(got))

(* The reader is done with the frame.                                      *)
Take ==
  /\ Complete
  /\ got' = <<>>
  /\ UNCHANGED stream

Idle == stream = <<>> /\ got = <<>>
=============================================================================
