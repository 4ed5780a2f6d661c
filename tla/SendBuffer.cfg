\* Packets of 2 and 3 bytes; a payload of 4 makes one larger than a chunk, one of
\* 7 wraps around with its header, one of 8 is cut.
SPECIFICATION Spec
CONSTANTS
    Threads = {t1, t2}
    Chunks = {c1, c2, c3}
    Buffers = {b1, b2, b3}
    None = None
    ChunkSize = 4
    Header = 1
    Width = 8
    Payloads = {1, 2, 4, 7, 8}
SYMMETRY Symmetry
INVARIANT TypeOK
INVARIANT MemoryExclusive
INVARIANT CrashNeedsLargePacket
\* A crash stops the process, and so does a bound on chunks or buffers.
CHECK_DEADLOCK FALSE
