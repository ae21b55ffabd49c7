------------------------------- MODULE MCFat -------------------------------
(* Fat on files of up to three slices, in a 1024-value uint32_t.            *)
EXTENDS Fat

MCArchTable == <<[name |-> "i386", cputype |-> 7, cpusubtype |-> 3],
                 [name |-> "i486", cputype |-> 7, cpusubtype |-> 4],
                 [name |-> "ppc",  cputype |-> 18, cpusubtype |-> 0]>>

MCArchFlags == {<< >>, <<"all">>, <<"i386">>, <<"i386", "ppc">>, <<"i386", "i386">>}

MCHostCpu == [cputype |-> 7, cpusubtype |-> 3]

FileSize == 512

Slc(t, s, offset, size, kind) ==
  [cputype |-> t, cpusubtype |-> s, offset |-> offset, size |-> size,
   align |-> 3, kind |-> kind, hdcpu |-> t, ok |-> TRUE]

Slices == {
  Slc(7, 3, 64, 128, "MH"),
  Slc(7, 3 + SubtypeSpan, 192, 64, "MH"), Slc(7, 4 + SubtypeSpan, 128, 64, "MH"),  \* capability bits
  Slc(7, 4, 192, 320, "MH"),
  Slc(18, 0, 256, 256, "ARCHIVE"),
  Slc(99, 0, 64, 64, "MH"),                       \* unknown cputype
  [Slc(18, 0, 64, 64, "MH") EXCEPT !.hdcpu = 7],
  [Slc(7, 3, 64, 64, "MH") EXCEPT !.ok = FALSE],
  Slc(7, 3, 256, 320, "MH"),                      \* past the end
  Slc(7, 3, 520, 24, "MH"),                       \* begins past the end
  Slc(7, 3, 512, 512, "MH"),                      \* begins at the end; wraps to 0
  Slc(18, 0, 448, 640, "MH"),                     \* 448 + 640 wraps to 64
  [Slc(7, 3, 68, 64, "MH") EXCEPT !.align = 10],  \* no shift at all
  [Slc(7, 4, 68, 64, "MH") EXCEPT !.align = 3],   \* not aligned
  [Slc(18, 0, 64, 64, "MH") EXCEPT !.align = 11],
  Slc(18, 0, 64, 64, "FAT"), Slc(7, 4, 64, 64, "UNKNOWN")}

MCFats == {[fsize |-> FileSize, archs |-> a] :
             a \in UNION {[1..n -> Slices] : n \in 0..3}}
=============================================================================
