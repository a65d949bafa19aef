----------------------------- MODULE SamsaraCards ------------------------------
(***************************************************************************)
(* cards/js/*.js: for each Samsara operation, the request the client       *)
(* builds, how the other side reads it, the result that side builds, and   *)
(* how the client reads that.  Builders and readers are written apart in   *)
(* the code, and so they are here: whether they fit is checked, not built  *)
(* in.  A request starts with its opcode and id, a result with its id.     *)
(***************************************************************************)
EXTENDS CardCommon

NATIVE_OPCODES ==
    [CREATE_DB |-> 0, DELETE_DB |-> 1, WRITE |-> 2, READ |-> 3, READ_FREE |-> 4,
     DELETE |-> 5, READ_CELL |-> 6, DIFERIR |-> 7, CRUZAR |-> 8]

EXTERNAL_OPCODES ==
    [CREATE_DB |-> 32, DELETE_DB |-> 33, WRITE |-> 34, READ |-> 35, READ_FREE |-> 36,
     DELETE |-> 37, READ_CELL |-> 38, DIFERIR |-> 39, CRUZAR |-> 40]

Operations == DOMAIN NATIVE_OPCODES

\* Results with nothing but a status, and those that also name a cell
StatusResult(message) ==
    readResultMessage(message, 20,
        [id |-> Slice(message, 0, 16), status |-> U32At(message, 16)])

CellIndexResult(message) ==
    readResultMessage(message, 24,
        [id |-> Slice(message, 0, 16), status |-> U32At(message, 16),
         cellIndex |-> U32At(message, 20)])

--------------------------------------------------------------------------------
createDbReqBytes(m) ==
    buildOpcodeMessage(NATIVE_OPCODES.CREATE_DB,
        <<m.id, LengthOf(m.dbName), LengthOf(m.secret), u32Bytes(m.dbSize),
          u32Bytes(m.genome), m.dbName, m.secret>>)

createDbReq(message) ==
    readRequest(message, 36,
        <<Sixteen("id"), Number("dbNameLen"), Number("secretLen"), Number("dbSize"),
          Number("genome"), Sized("dbName", "dbNameLen"), Sized("secret", "secretLen")>>)

createDbResultBytes(r) == buildResultMessage(r.id, <<u32Bytes(r.status)>>)

createDbResult(message) == StatusResult(message)

--------------------------------------------------------------------------------
deleteDbReqBytes(m) ==
    buildOpcodeMessage(NATIVE_OPCODES.DELETE_DB,
        <<m.id, u32Bytes(m.cellIndex), LengthOf(m.dbName), LengthOf(m.secret),
          m.dbName, m.secret>>)

deleteDbReq(message) ==
    readRequest(message, 32,
        <<Sixteen("id"), Number("cellIndex"), Number("dbNameLen"), Number("secretLen"),
          Sized("dbName", "dbNameLen"), Sized("secret", "secretLen")>>)

deleteDbResultBytes(r) == buildResultMessage(r.id, <<u32Bytes(r.status)>>)

deleteDbResult(message) == StatusResult(message)

--------------------------------------------------------------------------------
\* Wrong: the lengths of value and secret are sent in the other order
writeReqBytesSwapped(m) ==
    buildOpcodeMessage(NATIVE_OPCODES.WRITE,
        <<m.id, u32Bytes(m.cellIndex), LengthOf(m.dbName), LengthOf(m.key),
          LengthOf(m.secret), LengthOf(m.value), m.dbName, m.key, m.value, m.secret>>)

writeReqBytes(m) ==
    buildOpcodeMessage(NATIVE_OPCODES.WRITE,
        <<m.id, u32Bytes(m.cellIndex), LengthOf(m.dbName), LengthOf(m.key),
          LengthOf(m.value), LengthOf(m.secret), m.dbName, m.key, m.value, m.secret>>)

writeReq(message) ==
    readRequest(message, 40,
        <<Sixteen("id"), Number("cellIndex"), Number("dbNameLen"), Number("keyLen"),
          Number("valueLen"), Number("secretLen"), Sized("dbName", "dbNameLen"), Sized("key", "keyLen"),
          Sized("value", "valueLen"), Sized("secret", "secretLen")>>)

\* The new cell and value it is given are not sent.
writeResultBytes(r) == buildResultMessage(r.id, <<u32Bytes(r.status)>>)

writeResult(message) == StatusResult(message)

--------------------------------------------------------------------------------
readReqBytes(m) ==
    buildOpcodeMessage(NATIVE_OPCODES.READ,
        <<m.id, u32Bytes(m.cellIndex), LengthOf(m.dbName), LengthOf(m.key),
          LengthOf(m.secret), m.dbName, m.key, m.secret>>)

readReq(message) ==
    readRequest(message, 36,
        <<Sixteen("id"), Number("cellIndex"), Number("dbNameLen"), Number("keyLen"),
          Number("secretLen"), Sized("dbName", "dbNameLen"), Sized("key", "keyLen"), Sized("secret", "secretLen")>>)

readResultBytes(r) ==
    buildResultMessage(r.id, <<u32Bytes(r.status), u32Bytes(r.cellIndex), r.value>>)

readResult(message) ==
    readResultMessage(message, 24,
        [id |-> Slice(message, 0, 16), status |-> U32At(message, 16),
         cellIndex |-> U32At(message, 20), value |-> SliceFrom(message, 24)])

--------------------------------------------------------------------------------
readFreeReqBytes(m) ==
    buildOpcodeMessage(NATIVE_OPCODES.READ_FREE,
        <<m.id, LengthOf(m.dbName), LengthOf(m.key), m.dbName, m.key>>)

readFreeReq(message) ==
    readRequest(message, 28,
        <<Sixteen("id"), Number("dbNameLen"), Number("keyLen"),
          Sized("dbName", "dbNameLen"), Sized("key", "keyLen")>>)

readFreeResultBytes(r) == buildResultMessage(r.id, <<u32Bytes(r.status), r.value>>)

readFreeResult(message) ==
    readResultMessage(message, 20,
        [id |-> Slice(message, 0, 16), status |-> U32At(message, 16),
         value |-> SliceFrom(message, 20)])

--------------------------------------------------------------------------------
deleteReqBytes(m) ==
    buildOpcodeMessage(NATIVE_OPCODES.DELETE,
        <<m.id, u32Bytes(m.cellIndex), LengthOf(m.dbName), LengthOf(m.key),
          LengthOf(m.secret), m.dbName, m.key, m.secret>>)

deleteReq(message) ==
    readRequest(message, 36,
        <<Sixteen("id"), Number("cellIndex"), Number("dbNameLen"), Number("keyLen"),
          Number("secretLen"), Sized("dbName", "dbNameLen"), Sized("key", "keyLen"), Sized("secret", "secretLen")>>)

deleteResultBytes(r) == buildResultMessage(r.id, <<u32Bytes(r.status)>>)

deleteResult(message) == StatusResult(message)

--------------------------------------------------------------------------------
readCellReqBytes(m) ==
    buildOpcodeMessage(NATIVE_OPCODES.READ_CELL,
        <<m.id, u32Bytes(m.cellIndex), LengthOf(m.dbName), LengthOf(m.secret),
          m.dbName, m.secret>>)

readCellReq(message) ==
    readRequest(message, 32,
        <<Sixteen("id"), Number("cellIndex"), Number("dbNameLen"), Number("secretLen"),
          Sized("dbName", "dbNameLen"), Sized("secret", "secretLen")>>)

\* The value given is a cell or bytes.
readCellResultBytes(r) ==
    buildResultMessage(r.id,
        <<u32Bytes(r.status), IF r.cell = Null THEN r.value ELSE cellBytes(r.cell)>>)

readCellResult(message) ==
    LET value == SliceFrom(message, 20)
    IN  readResultMessage(message, 20,
            [id |-> Slice(message, 0, 16), status |-> U32At(message, 16), value |-> value,
             cell |-> IF Len(value) >= 16 THEN cellFromBytes(value) ELSE Null])

--------------------------------------------------------------------------------
diferirReqBytes(m) ==
    buildOpcodeMessage(NATIVE_OPCODES.DIFERIR,
        <<m.id, LengthOf(m.dbName), u32Bytes(m.cellIndex), LengthOf(m.secret),
          u32Bytes(m.childGenome), u32Bytes(m.x), u32Bytes(m.y), u32Bytes(m.z),
          m.childSalt, LengthOf(m.childSecret), m.dbName, m.secret, m.childSecret>>)

diferirReq(message) ==
    readRequest(message, 68,
        <<Sixteen("id"), Number("dbNameLen"), Number("cellIndex"), Number("secretLen"),
          Number("childGenome"), Number("x"), Number("y"), Number("z"),
          Sixteen("childSalt"), Number("childSecretLen"), Sized("dbName", "dbNameLen"),
          Sized("secret", "secretLen"), Sized("childSecret", "childSecretLen")>>)

diferirResultBytes(r) ==
    buildResultMessage(r.id, <<u32Bytes(r.status), u32Bytes(r.cellIndex)>>)

diferirResult(message) == CellIndexResult(message)

--------------------------------------------------------------------------------
cruzarReqBytes(m) ==
    buildOpcodeMessage(NATIVE_OPCODES.CRUZAR,
        <<m.id, LengthOf(m.dbName), u32Bytes(m.cellIndexA), u32Bytes(m.cellIndexB),
          LengthOf(m.secretA), LengthOf(m.secretB), u32Bytes(m.x), u32Bytes(m.y),
          u32Bytes(m.z), LengthOf(m.childSecret),
          m.dbName, m.secretA, m.secretB, m.childSecret>>)

cruzarReq(message) ==
    readRequest(message, 56,
        <<Sixteen("id"), Number("dbNameLen"), Number("cellIndexA"), Number("cellIndexB"),
          Number("secretALen"), Number("secretBLen"), Number("x"), Number("y"),
          Number("z"), Number("childSecretLen"), Sized("dbName", "dbNameLen"),
          Sized("secretA", "secretALen"), Sized("secretB", "secretBLen"),
          Sized("childSecret", "childSecretLen")>>)

cruzarResultBytes(r) ==
    buildResultMessage(r.id, <<u32Bytes(r.status), u32Bytes(r.cellIndex)>>)

cruzarResult(message) == CellIndexResult(message)

--------------------------------------------------------------------------------
(***************************************************************************)
(* The four functions of an operation, by its name (index.js).             *)
(***************************************************************************)
ReqBytes(op, m) ==
    CASE op = "CREATE_DB" -> createDbReqBytes(m) [] op = "DELETE_DB" -> deleteDbReqBytes(m)
      [] op = "WRITE" -> writeReqBytes(m)        [] op = "READ" -> readReqBytes(m)
      [] op = "READ_FREE" -> readFreeReqBytes(m) [] op = "DELETE" -> deleteReqBytes(m)
      [] op = "READ_CELL" -> readCellReqBytes(m) [] op = "DIFERIR" -> diferirReqBytes(m)
      [] OTHER -> cruzarReqBytes(m)

Req(op, message) ==
    CASE op = "CREATE_DB" -> createDbReq(message) [] op = "DELETE_DB" -> deleteDbReq(message)
      [] op = "WRITE" -> writeReq(message)        [] op = "READ" -> readReq(message)
      [] op = "READ_FREE" -> readFreeReq(message) [] op = "DELETE" -> deleteReq(message)
      [] op = "READ_CELL" -> readCellReq(message) [] op = "DIFERIR" -> diferirReq(message)
      [] OTHER -> cruzarReq(message)

ResultBytes(op, r) ==
    CASE op = "CREATE_DB" -> createDbResultBytes(r) [] op = "DELETE_DB" -> deleteDbResultBytes(r)
      [] op = "WRITE" -> writeResultBytes(r)        [] op = "READ" -> readResultBytes(r)
      [] op = "READ_FREE" -> readFreeResultBytes(r) [] op = "DELETE" -> deleteResultBytes(r)
      [] op = "READ_CELL" -> readCellResultBytes(r) [] op = "DIFERIR" -> diferirResultBytes(r)
      [] OTHER -> cruzarResultBytes(r)

Result(op, message) ==
    CASE op = "CREATE_DB" -> createDbResult(message) [] op = "DELETE_DB" -> deleteDbResult(message)
      [] op = "WRITE" -> writeResult(message)        [] op = "READ" -> readResult(message)
      [] op = "READ_FREE" -> readFreeResult(message) [] op = "DELETE" -> deleteResult(message)
      [] op = "READ_CELL" -> readCellResult(message) [] op = "DIFERIR" -> diferirResult(message)
      [] OTHER -> cruzarResult(message)
================================================================================
