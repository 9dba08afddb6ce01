------------------------------ MODULE DisplayMirror ------------------------------
(***************************************************************************)
(* One capture of a device's screen (display_mirror.py): the chunks of     *)
(* frames, of dirty rectangles and of the colour table come over one       *)
(* stream, which the device may break off and start again and of which     *)
(* packets are lost, and are put together into a canvas, rendered when the *)
(* stream has been quiet or the time is up.                                *)
(*                                                                         *)
(* A frame is a number; every panel has one size, a frame or a rectangle   *)
(* takes Chunks packets and a colour table as many.  Left out: the pixels, *)
(* the PNG, and packets that no firmware sends.                            *)
(***************************************************************************)
EXTENDS Integers, Sequences, FiniteSets

CONSTANTS
  Kinds,         \* what a frame paints: "mono", or the name of a rectangle
  Signatures,    \* of colour tables; a frame may name none
  NoSignature,
  Chunks,        \* packets of a frame, and of a table
  MaxFrames, MaxTables

ASSUME DisplayAssumption ==
  /\ "mono" \in Kinds /\ NoSignature \notin Signatures
  /\ Chunks \in Nat \ {0} /\ MaxFrames \in Nat /\ MaxTables \in Nat

NoFrame == [id |-> 0, kind |-> "mono", sig |-> NoSignature]

VARIABLES
  armed,       \* the device mirrors its screen
  frame,       \* the frame it sends
  frameAt,     \* packets of it that are out
  table,       \* the signature of the table it sends
  tableAt,
  frames, tables,   \* begun
  capture,     \* "settles", "collects", "over"
  buf,         \* _buf: per packet, the frame it is of; <<>> when None
  bufFrame,    \* _frame_id, with the _rect latched at offset 0
  mono,        \* _mono: per packet, the frame it is of; <<>> when None
  monoSig,     \* _mono_palette_sig
  rects,       \* the rectangles of rgb that were painted, each with its packets
  palette      \* signature, regions, _total

displayVars == <<armed, frame, frameAt, table, tableAt, frames, tables, capture, buf, bufFrame,
                 mono, monoSig, rects, palette>>
deviceVars == <<frame, frameAt, frames>>
tableVars == <<table, tableAt, tables>>
canvasVars == <<buf, bufFrame, mono, monoSig, rects>>

DisplayInit ==
  /\ armed = FALSE
  /\ frame = NoFrame /\ frameAt = Chunks /\ table = NoSignature /\ tableAt = Chunks
  /\ frames = 0 /\ tables = 0
  /\ capture = "settles"
  /\ buf = <<>> /\ bufFrame = NoFrame
  /\ mono = <<>> /\ monoSig = NoSignature
  /\ rects = [k \in Kinds \ {"mono"} |-> <<>>]
  /\ palette = [signature |-> NoSignature, regions |-> <<>>, total |-> 0]

-----------------------------------------------------------------------------
(* The device (external).                                                  *)

\* A new frame, when the last one is out or in its place.
FrameBegins ==
  /\ armed /\ frames < MaxFrames
  /\ frames' = frames + 1
  /\ \E k \in Kinds, s \in Signatures \cup {NoSignature} :
       frame' = [id |-> frames + 1, kind |-> k, sig |-> s]
  /\ frameAt' = 0
  /\ UNCHANGED <<armed, tableVars, capture, canvasVars, palette>>

TableBegins(s) ==
  /\ armed /\ tables < MaxTables
  /\ tables' = tables + 1 /\ table' = s /\ tableAt' = 0
  /\ UNCHANGED <<armed, deviceVars, capture, canvasVars, palette>>

FramePacketLost ==
  /\ frameAt < Chunks
  /\ frameAt' = frameAt + 1
  /\ UNCHANGED <<armed, frame, frames, tableVars, capture, canvasVars, palette>>

TablePacketLost ==
  /\ tableAt < Chunks
  /\ tableAt' = tableAt + 1
  /\ UNCHANGED <<armed, table, tables, deviceVars, capture, canvasVars, palette>>

-----------------------------------------------------------------------------
(* _MirrorCanvas.                                                          *)

\* Fault: a packet continues whatever frame is in the buffer.
InSequenceAnyFrame(off) == off = 0 \/ (buf # <<>> /\ off = Len(buf))

\* The buffer is as long as the packets that are in it.
InSequence(off) == off = 0 \/ (buf # <<>> /\ frame.id = bufFrame.id /\ off = Len(buf))

Rest(pixels) == <<>>

\* The last packet paints what the buffer holds where the first one said.
Painted(pixels, by) ==
  IF by.kind = "mono"
  THEN mono' = pixels /\ monoSig' = frame.sig /\ UNCHANGED rects
  ELSE rects' = [rects EXCEPT ![by.kind] = pixels] /\ UNCHANGED <<mono, monoSig>>

FramePacket ==
  /\ capture # "over" /\ frameAt < Chunks
  /\ frameAt' = frameAt + 1
  /\ IF ~InSequence(frameAt)
     THEN buf' = <<>> /\ UNCHANGED <<bufFrame, mono, monoSig, rects>>
     ELSE LET head   == IF frameAt = 0 THEN frame ELSE bufFrame
              pixels == IF frameAt = 0 THEN <<frame.id>> ELSE Append(buf, frame.id)
          IN  /\ bufFrame' = head
              /\ IF Len(pixels) < Chunks
                 THEN buf' = pixels /\ UNCHANGED <<mono, monoSig, rects>>
                 ELSE buf' = Rest(pixels) /\ Painted(pixels, head)
  /\ UNCHANGED <<armed, frame, frames, tableVars, capture, palette>>

-----------------------------------------------------------------------------
(* _Palette.                                                               *)

Continues(off) == table = palette.signature /\ off = Len(palette.regions)

TablePacket ==
  /\ capture # "over" /\ tableAt < Chunks
  /\ tableAt' = tableAt + 1
  /\ palette' = IF tableAt = 0
                THEN [signature |-> table, regions |-> <<table>>, total |-> Chunks]
                ELSE IF Continues(tableAt) THEN [palette EXCEPT !.regions = Append(@, table)]
                ELSE [palette EXCEPT !.regions = <<>>, !.total = 0]
  /\ UNCHANGED <<armed, table, tables, deviceVars, capture, canvasVars>>

PaletteComplete == palette.total > 0 /\ Len(palette.regions) >= palette.total

Colorized ==
  mono # <<>> /\ monoSig # NoSignature /\ palette.signature = monoSig /\ PaletteComplete

-----------------------------------------------------------------------------
(* capture.                                                                *)

Complete == mono # <<>> \/ \E k \in DOMAIN rects : rects[k] # <<>>

\* _arm_and_request: the admin message may be dropped in silence.
Requests ==
  /\ capture = "settles" \/ (capture = "collects" /\ ~Complete)
  /\ capture' = "collects"
  /\ armed' \in {armed, TRUE}
  /\ armed' # armed \/ capture' # capture
  /\ UNCHANGED <<deviceVars, tableVars, canvasVars, palette>>

\* A second of silence after something whole, or the deadline; the device is told
\* to stop, and stops at the latest when the connection is closed.
CaptureOver ==
  /\ capture = "collects"
  /\ capture' = "over" /\ armed' = FALSE
  /\ UNCHANGED <<deviceVars, tableVars, canvasVars, palette>>

-----------------------------------------------------------------------------
DisplayNext ==
  \/ FrameBegins \/ FramePacketLost \/ FramePacket
  \/ (\E s \in Signatures : TableBegins(s)) \/ TablePacketLost \/ TablePacket
  \/ Requests \/ CaptureOver

DisplaySpec == DisplayInit /\ [][DisplayNext]_displayVars

-----------------------------------------------------------------------------
(* Properties.                                                             *)

FrameIds == 0..MaxFrames

DisplayTypeOK ==
  /\ armed \in BOOLEAN
  /\ frame \in [id : FrameIds, kind : Kinds, sig : Signatures \cup {NoSignature}]
  /\ frameAt \in 0..Chunks /\ tableAt \in 0..Chunks
  /\ table \in Signatures \cup {NoSignature}
  /\ frames \in FrameIds /\ tables \in 0..MaxTables
  /\ capture \in {"settles", "collects", "over"}
  /\ buf \in Seq(FrameIds) /\ Len(buf) < Chunks
  /\ bufFrame \in [id : FrameIds, kind : Kinds, sig : Signatures \cup {NoSignature}]
  /\ mono \in Seq(FrameIds) /\ monoSig \in Signatures \cup {NoSignature}
  /\ rects \in [Kinds \ {"mono"} -> Seq(FrameIds)]
  /\ palette.regions \in Seq(Signatures) /\ Len(palette.regions) <= Chunks

\* What is painted, a frame or a rectangle, has all its packets, all of one and the
\* same frame, whatever was lost, broken off or begun in the middle.
FrameIsWhole ==
  \A pixels \in {mono} \cup {rects[k] : k \in DOMAIN rects} :
    pixels # <<>> => /\ Len(pixels) = Chunks
                     /\ \A i, j \in DOMAIN pixels : pixels[i] = pixels[j]

\* A frame is coloured by the whole table it names, or not at all.
ColoursAreWhole ==
  Colorized => /\ Len(palette.regions) = Chunks
               /\ \A i \in DOMAIN palette.regions : palette.regions[i] = monoSig

\* What is shown was on the display.
DisplayInv == DisplayTypeOK /\ FrameIsWhole /\ ColoursAreWhole

=============================================================================
