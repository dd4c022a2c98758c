---------------------------- MODULE AtomicUpdate ----------------------------
(***************************************************************************)
(* What a firmware update over BLE promises: the device boots the image it *)
(* has, or an image of which every chunk was received, in order, from one  *)
(* transfer.  FirmwareUpdate is shown to implement this.                   *)
(***************************************************************************)
EXTENDS Naturals, Sequences

CONSTANTS
    Chunks,       \* number of chunks of an image, at least one
    Transfers     \* the transfers; each carries an image of its own

VARIABLES
    staged,       \* the chunks received so far of an image not booted yet
    boot          \* what the device boots

auVars == <<staged, boot>>

\* A chunk carries its transfer's data for one offset.
Chunk(t, offset) == [transfer |-> t, offset |-> offset]

\* The whole image of transfer t, and its first n chunks.
Prefix(t, n) == [i \in 1..n |-> Chunk(t, i - 1)]
Whole(t) == Prefix(t, Chunks)

\* The firmware the device had before any transfer.
Factory == <<>>

Discard ==
    /\ staged' = <<>>
    /\ UNCHANGED boot

Receive ==
    /\ \E t \in Transfers, n \in 0..(Chunks - 1) :
          staged = Prefix(t, n) /\ staged' = Prefix(t, n + 1)
    /\ UNCHANGED boot

Commit ==
    /\ \E t \in Transfers : staged = Whole(t)
    /\ boot' = staged
    /\ staged' = <<>>

AuInit == staged = <<>> /\ boot = Factory
AuNext == Discard \/ Receive \/ Commit
AuSpec == AuInit /\ [][AuNext]_auVars
=============================================================================
