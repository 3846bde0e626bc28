\* One session that may follow another, two requests, a daemon that changes twice.
SPECIFICATION Spec
CONSTANTS
    Nobody = Nobody
    MaxRequests = 2
    Tips = {b1, b2}
    Txs = {t1}
    MaxInits = 2
    MaxChanges = 1
    MaxFailures = 1
INVARIANTS ContextsKept CalledBack
PROPERTIES  Serves
CHECK_DEADLOCK FALSE
