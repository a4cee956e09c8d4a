---------------------------- MODULE MCFileDrivers ----------------------------
(* Instances of FileDrivers for TLC. *)
EXTENDS FileDrivers, TLC

Format(rate, channels, bits) == [rate |-> rate, channels |-> channels, bits |-> bits]
Mark(at, id, size, format) == [at |-> at, id |-> id, size |-> size, format |-> format]

\* RIFF at lead, the format chunk, a gap bytes long text chunk, the data chunk,
\* and the bytes the file really has behind it.
Wav(lead, format, formatSize, gap, bytes) ==
  LET fmtAt == lead + 12
      gapAt == fmtAt + 8 + formatSize
      dataAt == IF gap = 0 THEN gapAt ELSE gapAt + 8 + gap
  IN [len |-> dataAt + 8 + bytes, type |-> "WAVE",
      marks |-> {Mark(lead, "RIFF", dataAt + bytes - lead, NoFormat), Mark(fmtAt, "fmt ", formatSize, format),
                 Mark(dataAt, "data", bytes, NoFormat)}
                \cup IF gap = 0 THEN {} ELSE {Mark(gapAt, "LIST", gap, NoFormat)}]

Mono(rate) == Format(rate, 1, 16)
Sized(f, n) == [f EXCEPT !.len = n]
\* One more mark, in a body or behind the last chunk.
Extra(f, at, id) == [f EXCEPT !.marks = @ \cup {Mark(at, id, 4, Mono(100))}]

\* Frames of two samples, and every length from none to two frames and a half.
ShortFiles == {Wav(0, Mono(200), 16, 0, bytes) : bytes \in 0 .. 10}

\* 0, 1 and 256 in 16 bits, a frame too long for an AudioFrame, the real rates,
\* stereo, no channel, minus one, 8 bits.
FormatFiles ==
  {Wav(0, Mono(rate), 16, 0, 7) : rate \in {50, 6553600, 6553700, 32000, 400000}}
    \cup {Wav(0, Format(48000, channels, 16), 16, 0, 10) : channels \in {0, 2^16 - 1}}
    \cup {Wav(0, Mono(8000), 16, 0, bytes) : bytes \in {158, 160, 161, 320, 3796}}
    \cup {Wav(0, Format(48000, 2, 16), 18, 0, bytes) : bytes \in {10, 1920, 1925}}
    \cup {Wav(0, Format(200, 2, 16), 16, 0, 9), Wav(0, Format(200, 1, 8), 16, 0, 8)}

\* Layouts in and around the 256-byte window.
LayoutFiles ==
  {Wav(lead, Mono(200), formatSize, gap, 6) :
     lead \in {0, 3}, formatSize \in {16, 18, 40}, gap \in {0, 4, 7 + 197, 26 + 178}}
    \cup {Wav(0, Mono(200), 16, gap, 6) : gap \in 201 .. 207}
    \cup {Wav(0, Mono(200), 14, gap, 6) : gap \in {0, 2}}
    \cup {Extra(Wav(12, Mono(200), 16, 20, 6), at, id) :
            at \in {0, 36, 56, 66, 86}, id \in {"RIFF", "fmt ", "data"}}
    \cup {Sized(Extra(Wav(0, Mono(200), 16, 0, 6), 50, id), 70) : id \in {"fmt ", "data"}}
    \cup {Sized(Wav(0, Mono(200), 16, 0, 6), n) : n \in {0, 8, 30, 39, 43, 44, 49}}
    \cup {[Wav(0, Mono(200), 16, 0, 6) EXCEPT !.type = "AVI "]}

FarEnds ==
  {Wav(0, Mono(200), 16, 0, bytes) : bytes \in {0, 3, 4, 8, 12}}
    \cup {Wav(0, Mono(8000), 16, 0, 320), Wav(0, Format(200, 2, 16), 16, 0, 9),
          Wav(0, Format(200, 1, 8), 16, 0, 8), Sized(Wav(0, Mono(200), 16, 0, 6), 39)}

MCFiles == ShortFiles \cup FormatFiles \cup LayoutFiles
=============================================================================
