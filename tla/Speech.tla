------------------------------- MODULE Speech -------------------------------
(***************************************************************************)
(* A recording, decoded whole under its ceilings, and the transcript of    *)
(* what the engine heard in it (src/src/convert/audio_asr.rs and the ASR   *)
(* adapter of src/src/convert/subprocess.rs).                              *)
(*                                                                         *)
(* A recording is its container followed by its packets in stream order;   *)
(* what the engine reports comes after them.  A packet has frames of one   *)
(* rate and channel count, and the squares its samples add up to; of the   *)
(* last one a file that was cut short may hold a part only.                *)
(***************************************************************************)
EXTENDS Integers, Sequences, FiniteSets, SequencesExt

CONSTANTS MaxSeconds, Priming,   \* the ceiling on the duration, in frames of the reported rate
          MaxDecoded             \* on the decoded size

ASSUME SpeechAssumption == {MaxSeconds, Priming, MaxDecoded} \subseteq Nat

Formats == {"wav", "mp3", "flac", "m4a"}

DecodeStart == [error |-> "none", rate |-> 0, channels |-> 0, frames |-> 0, squares |-> 0, wav |-> <<>>]
DecodeFail(s, code) == [s EXCEPT !.error = code]

\* An m4a holds one track of low-complexity aac, by its own configuration,
\* whose rate the container does not contradict.
AudioConfig(track) == IF track.config = "lc" THEN "none" ELSE "asr-codec-unsupported"

CheckM4aTrack(track) ==
  CASE track.tracks > 1 -> "asr-codec-unsupported"
    [] track.tracks = 0 -> "asr-decode-failed"
    [] track.codec # "aac" -> "asr-codec-unsupported"
    [] AudioConfig(track) # "none" -> AudioConfig(track)
    [] track.declared # 0 /\ track.declared # track.rate -> "asr-codec-unsupported"
    [] OTHER -> "none"

DecodedBytes(frames, channels) == frames * channels * 2

\* Packets of other tracks and without frames are passed over; a packet
\* that does not decode, another rate or channel count, or a waveform past a
\* ceiling fails the recording.
DecodePacket(s, packet) ==
  LET rate == IF s.rate = 0 THEN packet.rate ELSE s.rate
      frames == s.frames + packet.frames
  IN  CASE s.error # "none" \/ packet.track # 1 -> s
        [] ~packet.whole -> DecodeFail(s, "asr-decode-failed")
        [] packet.frames = 0 -> s
        [] packet.rate = 0 \/ packet.rate # rate -> DecodeFail(s, "asr-decode-failed")
        [] s.rate # 0 /\ packet.channels # s.channels -> DecodeFail(s, "asr-decode-failed")
        [] frames > rate * MaxSeconds + Priming -> DecodeFail(s, "asr-duration-exceeded")
        [] DecodedBytes(frames, packet.channels) > MaxDecoded -> DecodeFail(s, "asr-decoded-too-large")
        [] OTHER -> [s EXCEPT !.rate = rate, !.channels = packet.channels, !.frames = frames,
                              !.squares = @ + packet.squares, !.wav = Append(@, packet)]

\* The loop ends at the end of the file, be it the end of a packet or within one.
Yielded(packets) == LET broken == SelectInSeq(packets, LAMBDA p : p.cut)
                    IN  IF broken = 0 THEN packets ELSE SubSeq(packets, 1, broken - 1)

\* A recording whose energy is below one bit per frame is silent.
DecodeEnd(track, s) ==
  CASE track.format \notin Formats -> DecodeFail(s, "unsupported")
    [] track.format = "m4a" /\ CheckM4aTrack(track) # "none" -> DecodeFail(s, CheckM4aTrack(track))
    [] track.tracks = 0 -> DecodeFail(s, "asr-decode-failed")
    [] s.error # "none" -> s
    [] s.rate = 0 -> DecodeFail(s, "asr-decode-failed")
    [] s.squares < s.frames -> DecodeFail(s, "asr-no-speech")
    [] OTHER -> s

\* Faulty variant: a packet that does not decode is skipped.
DecodeSkipping(track, packets) ==
  DecodeEnd(track, FoldLeft(DecodePacket, DecodeStart, SelectSeq(Yielded(packets), LAMBDA p : p.whole)))

Decode(track, packets) ==
  DecodeEnd(track, FoldLeft(DecodePacket, DecodeStart, Yielded(packets)))

ParseTranscription(heard) ==
  IF \E i \in DOMAIN heard : heard[i].from < 0 \/ heard[i].to < heard[i].from
  THEN "asr-protocol-error" ELSE "none"

\* One line per segment, by start and then by end; the sort is stable.
RenderTranscript(heard) ==
  LET tagged == [i \in DOMAIN heard |-> <<heard[i].from, heard[i].to, i>>]
      less(x, y) == \/ x[1] < y[1]
                    \/ x[1] = y[1] /\ x[2] < y[2]
                    \/ x[1] = y[1] /\ x[2] = y[2] /\ x[3] < y[3]
      sorted == SortSeq(tagged, less)
  IN  [k \in DOMAIN sorted |-> heard[sorted[k][3]]]

Transcribe(track, packets, heard) ==
  LET outcome(s, code) == [error |-> code, wav |-> IF code = "none" THEN s.wav ELSE <<>>,
                           frames |-> s.frames, rate |-> s.rate,
                           lines |-> IF code = "none" THEN RenderTranscript(heard) ELSE <<>>]
      judge(s) == outcome(s, CASE s.error # "none" -> s.error
                               [] s.error = "none" /\ ParseTranscription(heard) # "none" -> "asr-protocol-error"
                               [] s.error = "none" /\ heard = <<>> -> "empty_output"
                               [] OTHER -> "none")
  IN  judge(Decode(track, packets))

-----------------------------------------------------------------------------
(* For the checks *)

Total(packets, Of(_)) == FoldLeft(LAMBDA n, p : n + Of(p), 0, packets)

\* A track whose decoder and container the engine takes.
Admitted(track) ==
  /\ track.format \in Formats /\ track.tracks > 0
  /\ track.format = "m4a" =>
       /\ track.tracks = 1 /\ track.codec = "aac" /\ track.config = "lc"
       /\ track.declared \in {0, track.rate}

\* The packets with sound are under one rate and channel count and within the
\* ceilings, and are not silence.
Sounds(sound, frames) ==
  /\ sound # <<>> /\ Cardinality({<<p.rate, p.channels>> : p \in ToSet(sound)}) = 1
  /\ \A p \in ToSet(sound) : /\ p.rate # 0
                             /\ frames <= p.rate * MaxSeconds + Priming
                             /\ frames * p.channels * 2 <= MaxDecoded
  /\ Total(sound, LAMBDA p : p.squares) >= frames

\* A transcript stands for all that the stream yields of the track: every
\* frame of it was decoded, and each segment has its line, in the order the
\* engine's times give.  A recording of which any packet is refused has none.
Stands(out, track, mine, sound, frames, heard) ==
  /\ out.error = "none" <=>
       /\ Admitted(track) /\ (\A p \in ToSet(mine) : p.whole) /\ Sounds(sound, frames)
       /\ heard # <<>> /\ \A h \in ToSet(heard) : 0 <= h.from /\ h.from <= h.to
  /\ out.error = "none" =>
       /\ out.wav = sound /\ out.frames = frames
       /\ Len(out.lines) = Len(heard) /\ ToSet(out.lines) = ToSet(heard)
       /\ \A k \in 2..Len(out.lines) : out.lines[k - 1].from <= out.lines[k].from

TranscriptWhole(track, packets, heard) ==
  LET mine == SelectSeq(packets, LAMBDA p : p.track = 1 /\ ~p.cut)
      stands(sound) == Stands(Transcribe(track, packets, heard), track, mine, sound,
                              Total(sound, LAMBDA p : p.frames), heard)
  IN  stands(SelectSeq(mine, LAMBDA p : p.frames > 0))

\* Every time of the transcript is a moment of the recording.
TimesWithin(out) == \A k \in DOMAIN out.lines : out.lines[k].to * out.rate <= out.frames

=============================================================================
