\* Two documents, one of this device, and room for one limbo resolution; the stream
\* breaks twice and the app is restarted once.  The system stops when all has arrived.
SPECIFICATION SyncSpec
CONSTANTS
    NumDocs = 2
    Own = {2}
    MaxActive = 1
    MaxBreaks = 2
    MaxRestarts = 1
INVARIANTS SyncTypeOK AcksAreCounted LimboIsTracked ChangesAreOfKnown Converges
PROPERTIES Settles
CHECK_DEADLOCK FALSE
