\* Three commands or messages under way, two connections.
CONSTANTS
    Tasks = {t1, t2, t3}
    Conns = {c1, c2}
    NoConn = NoConn
SPECIFICATION Spec
SYMMETRY Symmetry
INVARIANT TypeOK
INVARIANT OrphanOnlyByLateMessage
INVARIANT SecondReaderOnlyByStaleEvent
INVARIANT TailIsReadOrSaysSo
