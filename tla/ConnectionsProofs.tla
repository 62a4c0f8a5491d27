-------------------------- MODULE ConnectionsProofs --------------------------
(***************************************************************************)
(* Proofs about Connections, for any number of connections, overlapping    *)
(* requests and workers: stored credentials fit the connection, secrets    *)
(* are the last ones given, answers fail and jobs cannot be built only     *)
(* after a commit of someone else.                                         *)
(***************************************************************************)
EXTENDS Connections, TLAPS

-----------------------------------------------------------------------------
(* Schemas.                                                                *)

\* The fields of a connection and of its credentials are those that the
\* constructor of its type takes, and handlers use only those.
LEMMA HandlerBuilds ==
  ASSUME NEW kind \in ConnectionKind, NEW type \in AuthType, Accepts(kind, type)
  PROVE  get_handler(TypeOf(kind), Schema(kind).data \union AuthFields(type))
<1>1. CASE kind \in {"clickhouse", "mysql", "mssql", "postgres"}
  <2>1. type = "basic" /\ Schema(kind).data = Database
    BY <1>1 DEF Accepts, Schema, ConnectionSchema, ClickhouseConnectionSchema, MySQLConnectionSchema,
                MSSQLConnectionSchema, PostgresConnectionSchema
  <2>2. AuthFields(type) = {"type", "user", "password"}
    BY <2>1 DEF AuthFields, AuthSchema, BasicAuthSchema
  <2>3. TypeOf(kind) = kind
    BY <1>1 DEF TypeOf, IcebergKinds
  <2>4. QED
    BY <1>1, <2>1, <2>2, <2>3
    DEF get_handler, connection_handler_proxy, connect, Database, Login, DTO,
        ClickhouseConnectionDTO, MySQLConnectionDTO, MSSQLConnectionDTO, PostgresConnectionDTO,
        ClickhouseHandler, MySQLHandler, MSSQLHandler, PostgresHandler
<1>2. CASE kind \in {"ftp", "ftps", "sftp", "webdav"}
  <2>1. /\ type = "basic"
        /\ Schema(kind).data = {"host", "port"} \union (IF kind = "webdav" THEN {"protocol"} ELSE {})
    BY <1>2 DEF Accepts, Schema, ConnectionSchema, FTPConnectionSchema, FTPSConnectionSchema,
                SFTPConnectionSchema, WebDAVConnectionSchema
  <2>2. AuthFields(type) = {"type", "user", "password"}
    BY <2>1 DEF AuthFields, AuthSchema, BasicAuthSchema
  <2>3. TypeOf(kind) = kind
    BY <1>2 DEF TypeOf, IcebergKinds
  <2>4. QED
    BY <1>2, <2>1, <2>2, <2>3
    DEF get_handler, connection_handler_proxy, connect, Login, DTO, FTPConnectionDTO,
        FTPSConnectionDTO, SFTPConnectionDTO, WebDAVConnectionDTO, FTPHandler, FTPSHandler,
        SFTPHandler, WebDAVHandler
<1>3. CASE kind \in {"hive", "hdfs", "oracle"}
  <2>1. /\ type = "basic"
        /\ Schema(kind).data =
             IF kind = "oracle" THEN {"host", "port", "service_name", "sid", "additional_params"}
             ELSE {"cluster"}
    BY <1>3 DEF Accepts, Schema, ConnectionSchema, OracleConnectionSchema, HiveConnectionSchema,
                HDFSConnectionSchema
  <2>2. AuthFields(type) = {"type", "user", "password"}
    BY <2>1 DEF AuthFields, AuthSchema, BasicAuthSchema
  <2>3. TypeOf(kind) = kind
    BY <1>3 DEF TypeOf, IcebergKinds
  <2>4. QED
    BY <1>3, <2>1, <2>2, <2>3
    DEF get_handler, connection_handler_proxy, connect, Login, DTO, OracleConnectionDTO,
        HiveConnectionDTO, HDFSConnectionDTO, OracleHandler, HiveHandler, HDFSHandler
<1>4. CASE kind = "samba"
  <2>1. type = "samba" /\ Schema(kind).data = {"host", "share", "port", "protocol", "domain"}
    BY <1>4 DEF Accepts, Schema, ConnectionSchema, SambaConnectionSchema
  <2>2. AuthFields(type) = {"type", "user", "auth_type", "password"}
    BY <2>1 DEF AuthFields, AuthSchema, SambaAuthSchema
  <2>3. TypeOf(kind) = kind
    BY <1>4 DEF TypeOf, IcebergKinds
  <2>4. QED
    BY <1>4, <2>1, <2>2, <2>3
    DEF get_handler, connection_handler_proxy, connect, Login, DTO, SambaConnectionDTO, SambaHandler
<1>5. CASE kind = "s3"
  <2>1. /\ type = "s3"
        /\ Schema(kind).data = {"host", "bucket", "protocol", "region", "port", "bucket_style",
                                "additional_params"}
    BY <1>5 DEF Accepts, Schema, ConnectionSchema, S3ConnectionSchema
  <2>2. AuthFields(type) = {"type", "access_key", "secret_key"}
    BY <2>1 DEF AuthFields, AuthSchema, S3AuthSchema
  <2>3. TypeOf(kind) = kind
    BY <1>5 DEF TypeOf, IcebergKinds
  <2>4. QED
    BY <1>5, <2>1, <2>2, <2>3
    DEF get_handler, connection_handler_proxy, connect, DTO, S3ConnectionDTO, S3Handler
<1>6. CASE kind = "iceberg_rest_s3_direct"
  <2>1. /\ type \in {"iceberg_rest_bearer_s3_basic", "iceberg_rest_oauth2_client_credentials_s3_basic"}
        /\ Schema(kind).data = {"type", "rest_catalog_url", "s3_warehouse_path", "s3_host", "s3_port",
                    "s3_protocol", "s3_bucket", "s3_region", "s3_bucket_style",
                    "s3_additional_params"}
    BY <1>6 DEF Accepts, connection_and_auth_data_match, DirectAuthTypes, Schema, ConnectionSchema,
                IcebergRESTCatalogS3DirectConnectionSchema
  <2>2. TypeOf(kind) = "iceberg"
    BY <1>6 DEF TypeOf, IcebergKinds
  <2>3. CASE type = "iceberg_rest_bearer_s3_basic"
    <3>1. AuthFields(type) = {"type", "s3_access_key", "rest_catalog_token", "s3_secret_key"}
      BY <2>3 DEF AuthFields, AuthSchema, IcebergRESTCatalogBearerS3BasicAuthSchema
    <3>2. QED
      BY <2>1, <2>2, <3>1
      DEF get_handler, connection_handler_proxy, connect, DTO, get_iceberg_connection_dto, DirectDTO,
          IcebergRESTCatalogS3Handler, MakeAuth
  <2>4. CASE type = "iceberg_rest_oauth2_client_credentials_s3_basic"
    <3>1. AuthFields(type) =
            {"type", "s3_access_key", "s3_secret_key", "rest_catalog_oauth2_client_secret"}
            \union OAuth2Fields
      BY <2>4 DEF AuthFields, AuthSchema, IcebergRESTCatalogOAuth2ClientCredentialsS3BasicAuthSchema
    <3>2. QED
      BY <2>1, <2>2, <3>1
      DEF get_handler, connection_handler_proxy, connect, DTO, get_iceberg_connection_dto, DirectDTO,
          IcebergRESTCatalogS3Handler, MakeAuth, OAuth2Needs, OAuth2Defaults, OAuth2Fields
  <2>5. QED
    BY <2>1, <2>3, <2>4
<1>7. CASE kind = "iceberg_rest_s3_delegated"
  <2>1. /\ type \in {"iceberg_rest_bearer", "iceberg_rest_oauth2_client_credentials"}
        /\ Schema(kind).data = {"type", "rest_catalog_url", "s3_warehouse_name", "s3_access_delegation"}
    BY <1>7 DEF Accepts, connection_and_auth_data_match, DelegatedAuthTypes, IcebergAuthDataSchema,
                Schema, ConnectionSchema, IcebergRESTCatalogS3DelegatedConnectionSchema
  <2>2. TypeOf(kind) = "iceberg"
    BY <1>7 DEF TypeOf, IcebergKinds
  <2>3. CASE type = "iceberg_rest_bearer"
    <3>1. AuthFields(type) = {"type", "rest_catalog_token"}
      BY <2>3 DEF AuthFields, AuthSchema, IcebergRESTCatalogBearerAuthSchema
    <3>2. QED
      BY <2>1, <2>2, <3>1
      DEF get_handler, connection_handler_proxy, connect, DTO, get_iceberg_connection_dto, DelegatedDTO,
          IcebergRESTCatalogS3Handler, MakeAuth
  <2>4. CASE type = "iceberg_rest_oauth2_client_credentials"
    <3>1. AuthFields(type) = {"type", "rest_catalog_oauth2_client_secret"} \union OAuth2Fields
      BY <2>4 DEF AuthFields, AuthSchema, IcebergRESTCatalogOAuth2ClientCredentialsAuthSchema
    <3>2. QED
      BY <2>1, <2>2, <3>1
      DEF get_handler, connection_handler_proxy, connect, DTO, get_iceberg_connection_dto, DelegatedDTO,
          IcebergRESTCatalogS3Handler, MakeAuth, OAuth2Needs, OAuth2Defaults, OAuth2Fields
  <2>5. QED
    BY <2>1, <2>3, <2>4
<1>8. QED
  BY <1>1, <1>2, <1>3, <1>4, <1>5, <1>6, <1>7
  DEF ConnectionKind, ConnectionType, FileTypes, DBTypes, IcebergKinds

-----------------------------------------------------------------------------
(* The states of requests and jobs.                                        *)

\* Names of secrets and of fields, and types of a transfer's parameters.
SecretNames == UNION {AuthSchema(t).secret : t \in AuthType}
FieldNames ==
  (UNION {Schema(k).data : k \in ConnectionKind}) \union (UNION {AuthFields(t) : t \in AuthType})
LinkTypes == {TypeOf(k) : k \in ConnectionKind}

\* What a request can be doing: answering, updating, or something else.
Answers == [pc : {"answer"}, id : Id, torn : BOOLEAN, kind : ConnectionKind, wrote : BOOLEAN]
Updates(values) ==
  [pc : {"update", "credentials"}, id : Id, torn : BOOLEAN, kind : ConnectionKind,
   left : SUBSET SecretNames, cred : Complete(values)]
Others == {Idle} \union [pc : {"delete"}, id : Id]
          \union [pc : {"copy"}, id : Id, kind : ConnectionKind, remove : BOOLEAN]
          \union [pc : {"link"}, id : Id, type : LinkTypes]
ReqState(values) == Answers \union Updates(values) \union Others

\* What a worker can be doing.
Loading == [pc : {"transfer"}, id : Id, torn : BOOLEAN, type : LinkTypes]
Loaded == [pc : {"source", "target"}, id : Id, torn : BOOLEAN, type : LinkTypes,
           fields : SUBSET FieldNames]
JobState == {Idle} \union Loading \union Loaded

\* Types of the tables, of the requests and of the workers.
TypeOK ==
  /\ world \in Worlds
  /\ row \in [Id -> ConnectionKind \union {None}]
  /\ auth \in [Id -> Complete(world.values) \union {None}]
  /\ linked \in [Id -> LinkTypes \union {None}]
  /\ DOMAIN given = Id
  /\ req \in [Requests -> ReqState(world.values)]
  /\ job \in [Workers -> JobState]

\* What credentials are.
LEMMA CompleteIs ==
  ASSUME NEW values, NEW cred
  PROVE  cred \in Complete(values) <=>
           /\ cred.type \in AuthType
           /\ cred.secrets \in [AuthSchema(cred.type).secret -> values]
           /\ cred = [type |-> cred.type, secrets |-> cred.secrets]
  BY DEF Complete

\* A client gives credentials of the world's types.
LEMMA GivenIs ==
  ASSUME TypeOK, NEW values, NEW cred \in Credentials(values)
  PROVE  cred \in Complete(values)
<1>1. world.auths \subseteq AuthType
  BY WorldsAssumption DEF TypeOK
<1>2. QED
  BY <1>1 DEF Credentials, Complete

\* Which states have the field "torn".
LEMMA HasTorn ==
  ASSUME NEW values
  PROVE  /\ \A q \in ReqState(values) :
              "torn" \in DOMAIN q <=> q.pc \in {"answer", "update", "credentials"}
         /\ \A j \in JobState : "torn" \in DOMAIN j <=> j.pc # "idle"
<1>1. \A q \in Answers : "torn" \in DOMAIN q /\ q.pc = "answer"
  BY DEF Answers
<1>2. \A q \in Updates(values) : "torn" \in DOMAIN q /\ q.pc \in {"update", "credentials"}
  BY DEF Updates
<1>3. \A q \in Others : "torn" \notin DOMAIN q /\ q.pc \in {"idle", "delete", "copy", "link"}
  BY DEF Others, Idle
<1>4. \A j \in Loading \union Loaded : "torn" \in DOMAIN j /\ j.pc # "idle"
  BY DEF Loading, Loaded
<1>5. "torn" \notin DOMAIN Idle /\ Idle.pc = "idle"
  BY DEF Idle
<1>6. QED
  BY <1>1, <1>2, <1>3, <1>4, <1>5 DEF ReqState, JobState

\* What a commit by someone else leaves of a request.
LEMMA TornRequest ==
  ASSUME NEW values, NEW q \in ReqState(values), "torn" \in DOMAIN q
  PROVE  LET t == [q EXCEPT !.torn = TRUE]
         IN  /\ t \in ReqState(values)
             /\ t.pc = q.pc /\ t.id = q.id /\ t.torn /\ t.kind = q.kind
             /\ q.pc # "answer" => t.cred = q.cred /\ t.left = q.left
<1>1. q \in Answers \/ q \in Updates(values)
  BY HasTorn DEF ReqState, Others, Idle
<1>2. CASE q \in Answers
  BY <1>2 DEF Answers, ReqState
<1>3. CASE q \in Updates(values)
  BY <1>3 DEF Updates, ReqState
<1>4. QED
  BY <1>1, <1>2, <1>3

\* And of a job.
LEMMA TornJob ==
  ASSUME NEW j \in JobState, "torn" \in DOMAIN j
  PROVE  LET t == [j EXCEPT !.torn = TRUE]
         IN  t \in JobState /\ t.pc = j.pc /\ t.id = j.id /\ t.torn
<1>1. CASE j \in Loading
  BY <1>1 DEF Loading, JobState
<1>2. CASE j \in Loaded
  BY <1>2 DEF Loaded, JobState
<1>3. QED
  BY <1>1, <1>2, HasTorn DEF JobState, Idle

-----------------------------------------------------------------------------
(* The inductive invariant.                                                *)

\* A request that will write credentials holds ones that fit the kind it will
\* write; secrets that its client left out are the stored ones, until a commit
\* of another request.  A request that will answer has an answer until then.
RequestOK(q) ==
  /\ q.pc \in {"update", "credentials"} =>
       /\ Accepts(q.kind, q.cred.type)
       /\ \A f \in q.left : f \in DOMAIN q.cred.secrets
       /\ ~q.torn => \A f \in q.left : q.cred.secrets[f] = auth[q.id].secrets[f]
  /\ q.pc = "answer" /\ ~q.torn =>
       /\ q.wrote => auth[q.id] # None
       /\ auth[q.id] # None => ReadAccepts(q.kind, auth[q.id].type)

\* What a worker has read is what is stored, until a commit of a request.
JobOK(j) ==
  /\ j.pc = "source" /\ ~j.torn => row[j.id] # None /\ j.fields = Schema(row[j.id]).data
  /\ j.pc = "target" /\ ~j.torn =>
       row[j.id] # None /\ j.fields = Schema(row[j.id]).data \union AuthFields(auth[j.id].type)

\* The inductive invariant of connections.
Inv ==
  /\ TypeOK
  /\ CredentialsFit
  /\ SecretsAreLastGiven
  /\ \A r \in Requests : RequestOK(req[r])
  /\ \A w \in Workers : JobOK(job[w])

\* The rows of a connection are as before.
Same(c) == row'[c] = row[c] /\ auth'[c] = auth[c]

\* Requests and jobs do not depend on ids that are free.
LEMMA Unconcerned ==
  ASSUME TypeOK, \A d \in Id : d \in NewId \/ Same(d)
  PROVE  /\ \A r \in Requests : RequestOK(req[r]) /\ req'[r] = req[r] => RequestOK(req[r])'
         /\ \A w \in Workers : JobOK(job[w]) /\ job'[w] = job[w] => JobOK(job[w])'
<1>1. ASSUME NEW r \in Requests, RequestOK(req[r]), req'[r] = req[r] PROVE RequestOK(req[r])'
  <2>1. CASE req[r].pc \in {"answer", "update", "credentials"}
    <3>1. req[r].id \in Id
      BY <2>1 DEF TypeOK, ReqState, Answers, Updates, Others, Idle
    <3>2. Same(req[r].id)
      BY <2>1, <3>1 DEF NewId, Concerns
    <3>3. QED
      BY <1>1, <3>2 DEF RequestOK, Same
  <2>2. CASE req[r].pc \notin {"answer", "update", "credentials"}
    BY <1>1, <2>2 DEF RequestOK
  <2>3. QED
    BY <2>1, <2>2
<1>2. ASSUME NEW w \in Workers, JobOK(job[w]), job'[w] = job[w] PROVE JobOK(job[w])'
  <2>1. CASE job[w].pc \in {"source", "target"}
    <3>1. job[w].id \in Id
      BY <2>1 DEF TypeOK, JobState, Loading, Loaded, Idle
    <3>2. Same(job[w].id)
      BY <2>1, <3>1 DEF NewId, Concerns
    <3>3. QED
      BY <1>2, <3>2 DEF JobOK, Same
  <2>2. CASE job[w].pc \notin {"source", "target"}
    BY <1>2, <2>2 DEF JobOK
  <2>3. QED
    BY <2>1, <2>2
<1>3. QED
  BY <1>1, <1>2

\* Nor on a connection that others commit, once they are marked.
LEMMA Marked ==
  ASSUME TypeOK, NEW c \in Id, \A d \in Id \ {c} : d \in NewId \/ Same(d)
  PROVE  /\ \A r \in Requests : RequestOK(req[r]) /\ req'[r] = Torn(req, c)[r] =>
              RequestOK(req[r])' /\ req'[r] \in ReqState(world.values)
         /\ \A w \in Workers : JobOK(job[w]) /\ job'[w] = Torn(job, c)[w] =>
              JobOK(job[w])' /\ job'[w] \in JobState
<1>1. ASSUME NEW r \in Requests, RequestOK(req[r]), req'[r] = Torn(req, c)[r]
      PROVE  RequestOK(req[r])' /\ req'[r] \in ReqState(world.values)
  <2> DEFINE q == req[r]
  <2>1. q \in ReqState(world.values)
    BY DEF TypeOK
  <2>2. req'[r] = IF Concerns(q, c) /\ "torn" \in DOMAIN q THEN [q EXCEPT !.torn = TRUE] ELSE q
    BY <1>1 DEF Torn, TypeOK
  <2>3. CASE Concerns(q, c) /\ "torn" \in DOMAIN q
    <3>1. PICK t : t = [q EXCEPT !.torn = TRUE]
      OBVIOUS
    <3>2. /\ t \in ReqState(world.values)
          /\ t.pc = q.pc /\ t.id = q.id /\ t.torn /\ t.kind = q.kind
          /\ q.pc # "answer" => t.cred = q.cred /\ t.left = q.left
      BY <2>1, <2>3, <3>1, TornRequest
    <3>3. req'[r] = t
      BY <2>2, <2>3, <3>1
    <3>4. QED
      BY <1>1, <3>2, <3>3 DEF RequestOK
  <2>4. CASE ~(Concerns(q, c) /\ "torn" \in DOMAIN q)
    <3>1. req'[r] = q
      BY <2>2, <2>4
    <3>2. CASE q.pc \in {"answer", "update", "credentials"}
      <4>1. q.id \in Id
        BY <3>2 DEF TypeOK, ReqState, Answers, Updates, Others, Idle
      <4>2. q.id # c
        BY <2>1, <2>4, <3>2, HasTorn DEF Concerns
      <4>3. Same(q.id)
        BY <3>2, <4>1, <4>2 DEF NewId, Concerns
      <4>4. QED
        BY <1>1, <2>1, <3>1, <4>3 DEF RequestOK, Same
    <3>3. CASE q.pc \notin {"answer", "update", "credentials"}
      BY <2>1, <3>1, <3>3 DEF RequestOK
    <3>4. QED
      BY <3>2, <3>3
  <2>5. QED
    BY <2>3, <2>4
<1>2. ASSUME NEW w \in Workers, JobOK(job[w]), job'[w] = Torn(job, c)[w]
      PROVE  JobOK(job[w])' /\ job'[w] \in JobState
  <2> DEFINE j == job[w]
  <2>1. j \in JobState
    BY DEF TypeOK
  <2>2. job'[w] = IF Concerns(j, c) /\ "torn" \in DOMAIN j THEN [j EXCEPT !.torn = TRUE] ELSE j
    BY <1>2 DEF Torn, TypeOK
  <2>3. CASE Concerns(j, c) /\ "torn" \in DOMAIN j
    <3>1. PICK t : t = [j EXCEPT !.torn = TRUE]
      OBVIOUS
    <3>2. t \in JobState /\ t.torn
      BY <2>1, <2>3, <3>1, TornJob
    <3>3. job'[w] = t
      BY <2>2, <2>3, <3>1
    <3>4. QED
      BY <3>2, <3>3 DEF JobOK
  <2>4. CASE ~(Concerns(j, c) /\ "torn" \in DOMAIN j)
    <3>1. job'[w] = j
      BY <2>2, <2>4
    <3>2. CASE j.pc \in {"source", "target"}
      <4>1. j.id \in Id
        BY <3>2 DEF TypeOK, JobState, Loading, Loaded, Idle
      <4>2. j.id # c
        BY <2>1, <2>4, <3>2, HasTorn DEF Concerns
      <4>3. Same(j.id)
        BY <3>2, <4>1, <4>2 DEF NewId, Concerns
      <4>4. QED
        BY <1>2, <2>1, <3>1, <4>3 DEF JobOK, Same
    <3>3. CASE j.pc \notin {"source", "target"}
      BY <2>1, <3>1, <3>3 DEF JobOK
    <3>4. QED
      BY <3>2, <3>3
  <2>5. QED
    BY <2>3, <2>4
<1>3. QED
  BY <1>1, <1>2

\* The tables stay tables, and what they hold fits.
TablesOK ==
  /\ world' = world
  /\ row' \in [Id -> ConnectionKind \union {None}]
  /\ auth' \in [Id -> Complete(world.values) \union {None}]
  /\ linked' \in [Id -> LinkTypes \union {None}]
  /\ DOMAIN given' = Id
  /\ CredentialsFit'
  /\ SecretsAreLastGiven'

\* A request moves on; at most rows with new ids appear.
LEMMA RequestMoves ==
  ASSUME Inv, TablesOK, NEW r \in Requests, NEW state \in ReqState(world.values), Goto(r, state),
         RequestOK(state)', job' = job, \A d \in Id : d \in NewId \/ Same(d)
  PROVE  Inv'
<1>1. \A q \in Requests : RequestOK(req[q])'
  <2>1. \A q \in Requests \ {r} : req'[q] = req[q]
    BY DEF Goto, Inv, TypeOK
  <2>2. req'[r] = state
    BY DEF Goto, Inv, TypeOK
  <2>3. RequestOK(req[r])'
    BY <2>2 DEF RequestOK
  <2>4. QED
    BY <2>1, <2>3, Unconcerned DEF Inv
<1>2. \A w \in Workers : JobOK(job[w])'
  BY Unconcerned DEF Inv
<1>3. req' \in [Requests -> ReqState(world.values)]
  BY DEF Goto, Inv, TypeOK
<1>4. TypeOK'
  BY <1>3 DEF TablesOK, Inv, TypeOK
<1>5. QED
  BY <1>1, <1>2, <1>4 DEF Inv, TablesOK

\* A request commits a change of connection c.
LEMMA RequestCommits ==
  ASSUME Inv, TablesOK, NEW r \in Requests, NEW c \in Id, NEW state \in ReqState(world.values),
         req' = [Torn(req, c) EXCEPT ![r] = state], RequestOK(state)',
         job' = Torn(job, c), \A d \in Id \ {c} : d \in NewId \/ Same(d)
  PROVE  Inv'
<1>1. DOMAIN Torn(req, c) = Requests /\ DOMAIN Torn(job, c) = Workers
  BY DEF Torn, Inv, TypeOK
<1>2. \A q \in Requests \ {r} : req'[q] = Torn(req, c)[q]
  BY <1>1
<1>3. req'[r] = state
  BY <1>1
<1>4. RequestOK(req[r])'
  BY <1>3 DEF RequestOK
<1>5. \A q \in Requests : RequestOK(req[q])' /\ req'[q] \in ReqState(world.values)
  BY <1>2, <1>3, <1>4, Marked DEF Inv
<1>6. \A w \in Workers : JobOK(job[w])' /\ job'[w] \in JobState
  BY Marked DEF Inv
<1>7. req' \in [Requests -> ReqState(world.values)]
  <2>1. req' = [q \in Requests |-> req'[q]]
    BY <1>1
  <2>2. QED
    BY <1>5, <2>1
<1>8. job' \in [Workers -> JobState]
  <2>1. job' = [w \in Workers |-> job'[w]]
    BY DEF Torn, Inv, TypeOK
  <2>2. QED
    BY <1>6, <2>1
<1>9. TypeOK'
  BY <1>7, <1>8 DEF TablesOK, Inv, TypeOK
<1>10. QED
  BY <1>5, <1>6, <1>9 DEF Inv, TablesOK

\* A worker goes on.
LEMMA JobMoves ==
  ASSUME Inv, UNCHANGED <<world, row, auth, linked, req, given>>,
         NEW w \in Workers, NEW state \in JobState, job' = [job EXCEPT ![w] = state], JobOK(state)
  PROVE  Inv'
<1>1. \A v \in Workers : JobOK(job[v])'
  BY DEF Inv, TypeOK, JobOK
<1>2. job' \in [Workers -> JobState]
  BY DEF Inv, TypeOK
<1>3. QED
  BY <1>1, <1>2 DEF Inv, TypeOK, CredentialsFit, SecretsAreLastGiven, RequestOK

\* Complete credentials are some, and leave nothing out.
LEMMA NothingLeftOut ==
  ASSUME TypeOK, NEW cred \in Complete(world.values)
  PROVE  cred # None /\ LeftOut(cred) = {}
<1>1. None \notin world.values /\ None \notin Complete(world.values)
  BY WorldsAssumption DEF TypeOK
<1>2. cred.secrets \in [AuthSchema(cred.type).secret -> world.values]
  BY CompleteIs
<1>3. QED
  BY <1>1, <1>2 DEF LeftOut

\* Where nothing is stored differently, the tables are fine.
LEMMA Quiet ==
  ASSUME Inv, UNCHANGED <<world, row, auth, linked, given>>
  PROVE  TablesOK /\ \A d \in Id : Same(d)
  BY DEF Inv, TypeOK, TablesOK, CredentialsFit, SecretsAreLastGiven, Same

\* The state between requests.
LEMMA IdleIs == Idle \in ReqState(world.values) /\ Idle \in JobState /\ Idle.pc = "idle"
  BY DEF Idle, ReqState, Others, JobState

\* The first statements of the endpoints, and the steps that write nothing but
\* perhaps a transfer.
LEMMA ReadsStep ==
  ASSUME Inv, NEW r \in Requests, NEW c \in Id,
         \/ read_connection(r, c) \/ delete_connection(r, c) \/ create_transfer(r, c)
         \/ (\E remove \in BOOLEAN : copy_connection(r, c, remove))
         \/ _raise_error(r) \/ Answer(r) \/ UpdateRow(r) \/ Link(r)
  PROVE  Inv'
<1>1. ASSUME NEW state \in ReqState(world.values), Goto(r, state), RequestOK(state),
             UNCHANGED <<world, row, auth, linked, job, given>>
      PROVE  Inv'
  <2>1. TablesOK /\ \A d \in Id : Same(d)
    BY <1>1, Quiet
  <2>2. RequestOK(state)'
    BY <1>1 DEF RequestOK
  <2>3. QED
    BY <1>1, <2>1, <2>2, RequestMoves
<1>2. ASSUME NEW state \in ReqState(world.values), Goto(r, state), state.pc \notin {"answer", "update", "credentials"},
             UNCHANGED <<world, row, auth, linked, job, given>>
      PROVE  Inv'
  BY <1>1, <1>2 DEF RequestOK
<1>3. row[c] # None => row[c] \in ConnectionKind
  BY DEF Inv, TypeOK
<1>4. CASE read_connection(r, c)
  <2> DEFINE state == Answering(c, row[c], FALSE)
  <2>1. state \in ReqState(world.values)
    BY <1>3, <1>4 DEF read_connection, Answering, ReqState, Answers
  <2>2. state.pc = "answer" /\ state.id = c /\ state.kind = row[c] /\ ~state.wrote
    BY DEF Answering
  <2>3. RequestOK(state)
    BY <2>2 DEF RequestOK, Inv, CredentialsFit, Accepts, ReadAccepts
  <2>4. Goto(r, state) /\ UNCHANGED <<world, row, auth, linked, job, given>>
    BY <1>4 DEF read_connection
  <2> HIDE DEF state
  <2>5. QED
    BY <1>1, <2>1, <2>3, <2>4
<1>5. CASE delete_connection(r, c)
  <2> DEFINE state == [pc |-> "delete", id |-> c]
  <2>1. state \in ReqState(world.values) /\ state.pc = "delete"
    BY DEF ReqState, Others
  <2>2. Goto(r, state) /\ UNCHANGED <<world, row, auth, linked, job, given>>
    BY <1>5 DEF delete_connection
  <2> HIDE DEF state
  <2>3. QED
    BY <1>2, <2>1, <2>2
<1>6. CASE create_transfer(r, c)
  <2> DEFINE state == [pc |-> "link", id |-> c, type |-> TypeOf(row[c])]
  <2>1. state \in ReqState(world.values) /\ state.pc = "link"
    BY <1>3, <1>6 DEF create_transfer, ReqState, Others, LinkTypes
  <2>2. Goto(r, state) /\ UNCHANGED <<world, row, auth, linked, job, given>>
    BY <1>6 DEF create_transfer
  <2> HIDE DEF state
  <2>3. QED
    BY <1>2, <2>1, <2>2
<1>7. ASSUME NEW remove \in BOOLEAN, copy_connection(r, c, remove) PROVE Inv'
  <2> DEFINE state == [pc |-> "copy", id |-> c, kind |-> row[c], remove |-> remove]
  <2>1. state \in ReqState(world.values) /\ state.pc = "copy"
    BY <1>3, <1>7 DEF copy_connection, ReqState, Others
  <2>2. Goto(r, state) /\ UNCHANGED <<world, row, auth, linked, job, given>>
    BY <1>7 DEF copy_connection
  <2> HIDE DEF state
  <2>3. QED
    BY <1>2, <2>1, <2>2
<1>8. CASE _raise_error(r) \/ Answer(r)
  BY <1>2, <1>8, IdleIs DEF _raise_error, Answer
<1>9. CASE UpdateRow(r)
  <2>1. UNCHANGED <<world, row, auth, linked, job, given>>
    BY <1>9 DEF UpdateRow
  <2>2. CASE Goto(r, Idle)
    BY <1>2, <2>1, <2>2, IdleIs
  <2>3. CASE Goto(r, [req[r] EXCEPT !.pc = "credentials"])
    <3> DEFINE q == req[r]
               state == [q EXCEPT !.pc = "credentials"]
    <3>1. q \in ReqState(world.values) /\ q.pc = "update"
      BY <1>9 DEF UpdateRow, Inv, TypeOK
    <3>2. q \in Updates(world.values)
      BY <3>1 DEF ReqState, Answers, Others, Idle
    <3>3. /\ state \in ReqState(world.values) /\ state.pc = "credentials" /\ state.id = q.id
          /\ state.torn = q.torn /\ state.kind = q.kind /\ state.left = q.left /\ state.cred = q.cred
      BY <3>2 DEF Updates, ReqState
    <3>4. RequestOK(q)
      BY DEF Inv
    <3> HIDE DEF state
    <3>5. RequestOK(state)
      BY <3>1, <3>3, <3>4 DEF RequestOK
    <3>6. QED
      BY <1>1, <2>1, <2>3, <3>3, <3>5 DEF state
  <2>4. QED
    BY <1>9, <2>2, <2>3 DEF UpdateRow
<1>10. CASE Link(r)
  <2>1. req[r] \in [pc : {"link"}, id : Id, type : LinkTypes]
    BY <1>10 DEF Link, Inv, TypeOK, ReqState, Answers, Updates, Others, Idle
  <2>2. linked' \in [Id -> LinkTypes \union {None}]
    BY <1>10, <2>1 DEF Link, Inv, TypeOK
  <2>3. UNCHANGED <<world, row, auth, job, given>> /\ Goto(r, Idle)
    BY <1>10 DEF Link
  <2>4. TablesOK /\ \A d \in Id : Same(d)
    BY <2>2, <2>3 DEF Inv, TypeOK, TablesOK, CredentialsFit, SecretsAreLastGiven, Same
  <2>5. RequestOK(Idle)'
    BY IdleIs DEF RequestOK, Idle
  <2>6. QED
    BY <2>3, <2>4, <2>5, IdleIs, RequestMoves
<1>11. QED
  BY <1>4, <1>5, <1>6, <1>7, <1>8, <1>9, <1>10

\* An answer about rows that the request wrote.
LEMMA WroteIs ==
  ASSUME TypeOK, world' = world, NEW c \in Id, NEW kind \in ConnectionKind,
         NEW cred \in Complete(world.values),
         Accepts(kind, cred.type), auth'[c] = cred
  PROVE  Answering(c, kind, TRUE) \in ReqState(world.values) /\ RequestOK(Answering(c, kind, TRUE))'
<1> DEFINE state == Answering(c, kind, TRUE)
<1>1. state \in ReqState(world.values)
  BY DEF Answering, ReqState, Answers
<1>2. state.pc = "answer" /\ state.id = c /\ state.kind = kind /\ cred # None
  BY NothingLeftOut DEF Answering
<1>3. Answering(c, kind, TRUE).pc = "answer" /\ Answering(c, kind, TRUE).id = c
      /\ Answering(c, kind, TRUE).kind = kind
  BY DEF Answering
<1>4. RequestOK(Answering(c, kind, TRUE))'
  BY <1>2, <1>3 DEF RequestOK, Accepts, ReadAccepts, Answering
<1>5. QED
  BY <1>1, <1>4

\* create_connection
LEMMA CreateStep ==
  ASSUME Inv, NEW r \in Requests, NEW c \in Id, NEW kind \in world.kinds,
         NEW cred \in Credentials(world.values), create_connection(r, c, kind, cred)
  PROVE  Inv'
<1>1. TypeOK /\ kind \in ConnectionKind /\ kind # None /\ cred \in Complete(world.values)
  BY GivenIs, WorldsAssumption DEF Inv, TypeOK
<1>2. cred # None /\ LeftOut(cred) = {}
  BY <1>1, NothingLeftOut
<1>3. UNCHANGED <<world, linked, job>> /\ c \in NewId /\ Accepts(kind, cred.type)
  BY DEF create_connection
<1>4. /\ row' = [row EXCEPT ![c] = kind] /\ auth' = [auth EXCEPT ![c] = cred]
      /\ given' = [given EXCEPT ![c] = cred]
  BY DEF create_connection
<1>5. \A d \in Id : d \in NewId \/ Same(d)
  BY <1>1, <1>3, <1>4 DEF Same, TypeOK
<1>6. TablesOK
  <2>1. CredentialsFit'
    BY <1>1, <1>2, <1>3, <1>4 DEF Inv, TypeOK, CredentialsFit
  <2>2. SecretsAreLastGiven'
    BY <1>1, <1>4 DEF Inv, TypeOK, SecretsAreLastGiven
  <2>3. QED
    BY <1>1, <1>3, <1>4, <2>1, <2>2 DEF TablesOK, TypeOK
<1>7. auth'[c] = cred
  BY <1>1, <1>4 DEF TypeOK
<1>8. Answering(c, kind, TRUE) \in ReqState(world.values) /\ RequestOK(Answering(c, kind, TRUE))'
  BY <1>1, <1>3, <1>7, WroteIs
<1>9. Goto(r, Answering(c, kind, TRUE))
  BY DEF create_connection
<1>10. QED
  BY <1>3, <1>5, <1>6, <1>8, <1>9, RequestMoves

\* update_connection: secrets that were left out are taken from credentials of
\* the same type.
LEMMA UpdateStep ==
  ASSUME Inv, NEW r \in Requests, NEW c \in Id, NEW kind \in world.kinds,
         NEW cred \in Credentials(world.values \union {None}), update_connection(r, c, kind, cred)
  PROVE  Inv'
<1> DEFINE left == LeftOut(cred)
           kept == KeepSecrets(cred, left, auth[c])
           state == [pc |-> "update", id |-> c, torn |-> FALSE, kind |-> kind, left |-> left,
                     cred |-> kept]
<1>1. TypeOK /\ kind \in ConnectionKind /\ cred \in Complete(world.values \union {None})
  BY GivenIs, WorldsAssumption DEF Inv, TypeOK
<1>2. /\ cred.type \in AuthType
      /\ cred.secrets \in [AuthSchema(cred.type).secret -> world.values \union {None}]
      /\ cred = [type |-> cred.type, secrets |-> cred.secrets]
  BY <1>1, CompleteIs
<1>3. auth[c] \in Complete(world.values) /\ Accepts(kind, cred.type)
      /\ (left # {} => cred.type = auth[c].type)
  BY <1>1 DEF TypeOK, update_connection
<1>4. auth[c].secrets \in [AuthSchema(auth[c].type).secret -> world.values]
  BY <1>3, CompleteIs
<1>5. left \subseteq AuthSchema(cred.type).secret
  BY <1>2 DEF LeftOut
<1>6. \A f \in AuthSchema(cred.type).secret \ left : cred.secrets[f] \in world.values
  BY <1>2 DEF LeftOut
<1>7. \A f \in left : auth[c].secrets[f] \in world.values
  BY <1>3, <1>4, <1>5
<1>8. kept = [type |-> cred.type,
              secrets |-> [f \in AuthSchema(cred.type).secret |->
                             IF f \in left THEN auth[c].secrets[f] ELSE cred.secrets[f]]]
  BY <1>2 DEF KeepSecrets
<1> HIDE DEF left, kept
<1>9. /\ kept.type = cred.type /\ DOMAIN kept.secrets = AuthSchema(cred.type).secret
      /\ \A f \in left : kept.secrets[f] = auth[c].secrets[f]
      /\ kept \in Complete(world.values)
  <2>1. PICK secrets : /\ kept = [type |-> cred.type, secrets |-> secrets]
                       /\ secrets = [f \in AuthSchema(cred.type).secret |->
                             IF f \in left THEN auth[c].secrets[f] ELSE cred.secrets[f]]
    BY <1>8
  <2>2. secrets \in [AuthSchema(cred.type).secret -> world.values]
    BY <2>1, <1>6, <1>7
  <2>3. kept.type = cred.type /\ kept.secrets = secrets
    BY <2>1
  <2>4. kept \in Complete(world.values)
    BY <1>2, <2>1, <2>2, <2>3, CompleteIs
  <2>5. QED
    BY <1>5, <2>1, <2>3, <2>4
<1>10. left \in SUBSET SecretNames
  BY <1>2, <1>5 DEF SecretNames
<1>11. state \in ReqState(world.values)
  BY <1>1, <1>9, <1>10 DEF ReqState, Updates
<1>12. state.pc = "update" /\ state.id = c /\ state.kind = kind /\ state.left = left /\ state.cred = kept
  OBVIOUS
<1>13. Goto(r, state) /\ UNCHANGED <<world, row, auth, linked, job, given>>
  BY DEF update_connection, left, kept
<1> HIDE DEF state
<1>14. RequestOK(state)
  BY <1>3, <1>5, <1>9, <1>12 DEF RequestOK
<1>15. TablesOK /\ \A d \in Id : Same(d)
  BY <1>13, Quiet
<1>16. PICK q : q = state
  OBVIOUS
<1>17. RequestOK(q)'
  BY <1>13, <1>14, <1>16 DEF RequestOK
<1>18. QED
  BY <1>11, <1>13, <1>15, <1>16, <1>17, RequestMoves

\* UpdateCredentials: what is put together from credentials that nobody replaced
\* is what the client gave last.
LEMMA CommitStep ==
  ASSUME Inv, NEW r \in Requests, UpdateCredentials(r)
  PROVE  Inv'
<1>1. PICK q : q = req[r]
  OBVIOUS
<1>2. TypeOK /\ q \in Updates(world.values) /\ RequestOK(q) /\ q.pc = "credentials"
  BY <1>1 DEF UpdateCredentials, Inv, TypeOK, ReqState, Answers, Others, Idle
<1>3. PICK c \in Id : c = q.id
  BY <1>2 DEF Updates
<1>4. q.kind \in ConnectionKind /\ q.kind # None /\ q.cred \in Complete(world.values)
      /\ Accepts(q.kind, q.cred.type)
  BY <1>2, WorldsAssumption DEF Updates, RequestOK
<1>5. q.cred # None /\ LeftOut(q.cred) = {}
  BY <1>2, <1>4, NothingLeftOut
<1>6. /\ row' = [row EXCEPT ![c] = q.kind] /\ auth' = [auth EXCEPT ![c] = q.cred]
      /\ req' = [Torn(req, c) EXCEPT ![r] = Answering(c, q.kind, TRUE)]
      /\ job' = Torn(job, c) /\ UNCHANGED <<world, linked>>
      /\ given' = [given EXCEPT ![c] = IF q.left = {} THEN q.cred
                                       ELSE IF q.torn \/ @ = None THEN None
                                       ELSE KeepSecrets(q.cred, q.left, @)]
  BY <1>1, <1>3 DEF UpdateCredentials
<1>7. ASSUME ~q.torn, given[c] # None PROVE KeepSecrets(q.cred, q.left, given[c]) = q.cred
  <2>1. given[c] = auth[c]
    BY <1>7 DEF Inv, SecretsAreLastGiven
  <2>2. \A f \in q.left : q.cred.secrets[f] = auth[c].secrets[f]
    BY <1>2, <1>3, <1>7 DEF RequestOK
  <2>3. q.cred.secrets = [f \in DOMAIN q.cred.secrets |-> q.cred.secrets[f]]
        /\ q.cred = [type |-> q.cred.type, secrets |-> q.cred.secrets]
    BY <1>4, CompleteIs
  <2>4. [f \in DOMAIN q.cred.secrets |->
           IF f \in q.left THEN given[c].secrets[f] ELSE q.cred.secrets[f]] = q.cred.secrets
    BY <2>1, <2>2, <2>3
  <2>5. QED
    BY <2>3, <2>4 DEF KeepSecrets
<1>8. given'[c] # None => given'[c] = q.cred
  BY <1>2, <1>6, <1>7 DEF TypeOK
<1>9. auth'[c] = q.cred /\ row'[c] = q.kind
  BY <1>2, <1>6 DEF TypeOK
<1>10. \A d \in Id \ {c} : Same(d) /\ given'[d] = given[d]
  BY <1>2, <1>6 DEF TypeOK, Same
<1>11. TablesOK
  <2>1. CredentialsFit'
    BY <1>4, <1>5, <1>9, <1>10 DEF Inv, CredentialsFit, Same
  <2>2. SecretsAreLastGiven'
    BY <1>8, <1>9, <1>10 DEF Inv, SecretsAreLastGiven, Same
  <2>3. DOMAIN given' = Id
    BY <1>2, <1>6 DEF TypeOK
  <2>4. QED
    BY <1>2, <1>4, <1>6, <2>1, <2>2, <2>3 DEF TablesOK, TypeOK
<1>12. Answering(c, q.kind, TRUE) \in ReqState(world.values) /\ RequestOK(Answering(c, q.kind, TRUE))'
  BY <1>2, <1>4, <1>6, <1>9, WroteIs
<1>13. QED
  BY <1>6, <1>10, <1>11, <1>12, RequestCommits

\* A connection that is removed takes its credentials along, and at most a copy
\* appears.
LEMMA RemoveStep ==
  ASSUME Inv, NEW r \in Requests, NEW c \in Id, Remove(r, c), world' = world,
         row' \in [Id -> ConnectionKind \union {None}],
         \A d \in Id \ {c} : row'[d] = row[d] \/ d \in NewId
  PROVE  Inv'
<1>1. /\ auth' = [auth EXCEPT ![c] = None] /\ linked' = [linked EXCEPT ![c] = None]
      /\ given' = [given EXCEPT ![c] = None]
      /\ req' = [Torn(req, c) EXCEPT ![r] = Idle] /\ job' = Torn(job, c)
  BY DEF Remove
<1>2. TypeOK /\ \A d \in NewId : row[d] = None /\ auth[d] = None
  BY DEF Inv, CredentialsFit, NewId
<1>3. auth'[c] = None /\ given'[c] = None
      /\ \A d \in Id \ {c} : auth'[d] = auth[d] /\ given'[d] = given[d]
  BY <1>1, <1>2 DEF TypeOK
<1>4. \A d \in Id \ {c} : d \in NewId \/ Same(d)
  BY <1>3 DEF Same
<1>5. TablesOK
  <2>1. CredentialsFit'
    BY <1>2, <1>3 DEF Inv, CredentialsFit
  <2>2. SecretsAreLastGiven'
    BY <1>3 DEF Inv, SecretsAreLastGiven
  <2>3. QED
    BY <1>1, <1>2, <2>1, <2>2 DEF TablesOK, TypeOK
<1>6. RequestOK(Idle)'
  BY DEF RequestOK, Idle
<1>7. QED
  BY <1>1, <1>4, <1>5, <1>6, IdleIs, RequestCommits

\* delete_connection and copy_connection, at their commit.
LEMMA DeleteStep ==
  ASSUME Inv, NEW r \in Requests, Delete(r) \/ (\E new \in Id : Copy(r, new))
  PROVE  Inv'
<1>1. CASE Delete(r)
  <2>1. PICK c \in Id : c = req[r].id
    BY <1>1 DEF Delete, Inv, TypeOK, ReqState, Answers, Updates, Others, Idle
  <2>2. row' = [row EXCEPT ![c] = None] /\ Remove(r, c) /\ world' = world
    BY <1>1, <2>1 DEF Delete
  <2>3. row' \in [Id -> ConnectionKind \union {None}] /\ \A d \in Id \ {c} : row'[d] = row[d]
    BY <2>2 DEF Inv, TypeOK
  <2>4. QED
    BY <2>2, <2>3, RemoveStep
<1>2. ASSUME NEW new \in Id, Copy(r, new) PROVE Inv'
  <2>1. req[r] \in [pc : {"copy"}, id : Id, kind : ConnectionKind, remove : BOOLEAN]
    BY <1>2 DEF Copy, Inv, TypeOK, ReqState, Answers, Updates, Others, Idle
  <2>2. PICK c \in Id, kind \in ConnectionKind : c = req[r].id /\ kind = req[r].kind
    BY <2>1
  <2>3. new \in NewId /\ world' = world /\ row[new] = None /\ auth[new] = None
    BY <1>2 DEF Copy, NewId, Inv, CredentialsFit
  <2>4. CASE ~req[r].remove
    <3>1. row' = [row EXCEPT ![new] = kind] /\ Goto(r, Idle) /\ UNCHANGED <<auth, linked, given, job>>
      BY <1>2, <2>2, <2>4 DEF Copy
    <3>2. row' \in [Id -> ConnectionKind \union {None}] /\ \A d \in Id \ {new} : row'[d] = row[d]
      BY <3>1 DEF Inv, TypeOK
    <3>3. \A d \in Id : d \in NewId \/ Same(d)
      BY <2>3, <3>1, <3>2 DEF Same
    <3>4. TablesOK
      <4>1. CredentialsFit'
        BY <2>3, <3>1, <3>2 DEF Inv, CredentialsFit
      <4>2. SecretsAreLastGiven'
        BY <3>1 DEF Inv, SecretsAreLastGiven
      <4>3. QED
        BY <2>3, <3>1, <3>2, <4>1, <4>2 DEF TablesOK, Inv, TypeOK
    <3>5. RequestOK(Idle)'
      BY DEF RequestOK, Idle
    <3>6. QED
      BY <3>1, <3>3, <3>4, <3>5, IdleIs, RequestMoves
  <2>5. CASE req[r].remove
    <3>1. /\ row' = IF row[c] = None THEN row ELSE [[row EXCEPT ![new] = kind] EXCEPT ![c] = None]
          /\ Remove(r, c)
      BY <1>2, <2>2, <2>5 DEF Copy
    <3>2. row' \in [Id -> ConnectionKind \union {None}]
      BY <3>1 DEF Inv, TypeOK
    <3>3. \A d \in Id \ {c} : row'[d] = row[d] \/ d \in NewId
      BY <2>3, <3>1 DEF Inv, TypeOK
    <3>4. QED
      BY <2>3, <3>1, <3>2, <3>3, RemoveStep
  <2>6. QED
    BY <2>4, <2>5
<1>3. QED
  BY <1>1, <1>2

\* The worker's queries.
LEMMA WorkerStep ==
  ASSUME Inv, NEW w \in Workers,
         (\E c \in Id : LoadTransfer(w, c)) \/ LoadConnection(w) \/ LoadCredentials(w)
  PROVE  Inv'
<1>1. TypeOK /\ job[w] \in JobState /\ JobOK(job[w])
  BY DEF Inv, TypeOK
<1>2. UNCHANGED <<world, row, auth, linked, req, given>>
  BY DEF LoadTransfer, LoadConnection, LoadCredentials
<1>3. JobOK(Idle)
  BY DEF JobOK, Idle
<1>4. CASE job' = [job EXCEPT ![w] = Idle]
  BY <1>2, <1>3, <1>4, IdleIs, JobMoves
<1>5. ASSUME NEW c \in Id, LoadTransfer(w, c) PROVE Inv'
  <2> DEFINE state == [pc |-> "transfer", id |-> c, torn |-> FALSE, type |-> linked[c]]
  <2>1. state \in JobState /\ state.pc = "transfer"
    BY <1>1, <1>5 DEF LoadTransfer, TypeOK, JobState, Loading
  <2>2. JobOK(state)
    BY <2>1 DEF JobOK
  <2>3. job' = [job EXCEPT ![w] = state]
    BY <1>5 DEF LoadTransfer
  <2> HIDE DEF state
  <2>4. QED
    BY <1>2, <2>1, <2>2, <2>3, JobMoves
<1>6. CASE LoadConnection(w) /\ row[job[w].id] # None
  <2> DEFINE j == job[w]
             state == [pc |-> "source", id |-> j.id, torn |-> j.torn, type |-> j.type,
                       fields |-> Schema(row[j.id]).data]
  <2>1. j \in Loading
    BY <1>1, <1>6 DEF LoadConnection, JobState, Loaded, Idle
  <2>2. row[j.id] \in ConnectionKind
    BY <1>1, <1>6, <2>1 DEF TypeOK, Loading
  <2>3. Schema(row[j.id]).data \subseteq FieldNames
    BY <2>2 DEF FieldNames
  <2>4. state \in JobState
    BY <2>1, <2>3 DEF Loading, Loaded, JobState
  <2>5. state.pc = "source" /\ state.id = j.id /\ state.fields = Schema(row[j.id]).data
    OBVIOUS
  <2>6. job' = [job EXCEPT ![w] = state]
    BY <1>6 DEF LoadConnection
  <2> HIDE DEF state
  <2>7. JobOK(state)
    BY <1>6, <2>5 DEF JobOK
  <2>8. QED
    BY <1>2, <2>4, <2>6, <2>7, JobMoves
<1>7. CASE LoadCredentials(w) /\ job[w].pc = "source" /\ JobGoesOn(job[w])
  <2> DEFINE j == job[w]
             state == [j EXCEPT !.pc = "target", !.fields = WithCredentials(j)]
  <2>1. j \in Loaded
    BY <1>1, <1>7 DEF JobState, Loading, Idle
  <2>2. auth[j.id] \in Complete(world.values)
    BY <1>1, <1>7, <2>1 DEF TypeOK, Loaded, JobGoesOn
  <2>3. auth[j.id].type \in AuthType
    BY <2>2, CompleteIs
  <2>4. WithCredentials(j) \subseteq FieldNames
    BY <2>1, <2>3 DEF WithCredentials, Loaded, FieldNames
  <2>5. /\ state \in JobState /\ state.pc = "target" /\ state.id = j.id /\ state.torn = j.torn
        /\ state.fields = WithCredentials(j)
    BY <2>1, <2>4 DEF Loaded, JobState
  <2>6. job' = [job EXCEPT ![w] = state]
    BY <1>7 DEF LoadCredentials
  <2> HIDE DEF state
  <2>7. JobOK(state)
    BY <1>1, <1>7, <2>5 DEF JobOK, WithCredentials
  <2>8. QED
    BY <1>2, <2>5, <2>6, <2>7, JobMoves
<1>8. QED
  BY <1>4, <1>5, <1>6, <1>7 DEF LoadConnection, LoadCredentials

\* delete_transfer
LEMMA UnlinkStep ==
  ASSUME Inv, NEW c \in Id, delete_transfer(c)
  PROVE  Inv'
<1>1. TypeOK /\ \A d \in Id : Same(d)
  BY DEF delete_transfer, Same, Inv
<1>2. UNCHANGED <<world, row, auth, req, given>> /\ job' = Torn(job, c)
      /\ linked' = [linked EXCEPT ![c] = None]
  BY DEF delete_transfer
<1>3. \A w \in Workers : JobOK(job[w])' /\ job'[w] \in JobState
  BY <1>1, <1>2, Marked DEF Inv
<1>4. job' \in [Workers -> JobState]
  <2>1. job' = [w \in Workers |-> job'[w]]
    BY <1>1, <1>2 DEF Torn, TypeOK
  <2>2. QED
    BY <1>3, <2>1
<1>5. TypeOK'
  BY <1>1, <1>2, <1>4 DEF TypeOK
<1>6. \A r \in Requests : RequestOK(req[r])'
  BY <1>2 DEF Inv, RequestOK
<1>7. QED
  BY <1>2, <1>3, <1>5, <1>6 DEF Inv, CredentialsFit, SecretsAreLastGiven

\* The invariant of connections.
LEMMA InvHolds == Spec => []Inv
<1>1. Init => Inv
  <2> SUFFICES ASSUME Init PROVE Inv
    OBVIOUS
  <2>1. /\ world \in Worlds /\ row = [c \in Id |-> None] /\ auth = [c \in Id |-> None]
        /\ linked = [c \in Id |-> None] /\ given = [c \in Id |-> None]
        /\ req = [r \in Requests |-> Idle] /\ job = [w \in Workers |-> Idle]
    BY DEF Init
  <2>2. TypeOK
    BY <2>1, IdleIs DEF TypeOK
  <2>3. RequestOK(Idle) /\ JobOK(Idle)
    BY DEF RequestOK, JobOK, Idle
  <2>4. QED
    BY <2>1, <2>2, <2>3 DEF Inv, CredentialsFit, SecretsAreLastGiven
<1>2. Inv /\ [Next]_vars => Inv'
  <2> SUFFICES ASSUME Inv, [Next]_vars PROVE Inv'
    OBVIOUS
  <2>1. CASE UNCHANGED vars
    BY <2>1 DEF vars, Inv, TypeOK, CredentialsFit, SecretsAreLastGiven, RequestOK, JobOK
  <2>2. ASSUME NEW r \in Requests, NEW c \in Id, NEW kind \in world.kinds,
               NEW cred \in Credentials(world.values), create_connection(r, c, kind, cred)
        PROVE  Inv'
    BY <2>2, CreateStep
  <2>3. ASSUME NEW r \in Requests, NEW c \in Id, NEW kind \in world.kinds,
               NEW cred \in Credentials(world.values \union {None}), update_connection(r, c, kind, cred)
        PROVE  Inv'
    BY <2>3, UpdateStep
  <2>4. ASSUME NEW r \in Requests, NEW c \in Id,
               \/ read_connection(r, c) \/ delete_connection(r, c) \/ create_transfer(r, c)
               \/ (\E remove \in BOOLEAN : copy_connection(r, c, remove))
        PROVE  Inv'
    BY <2>4, ReadsStep
  <2>5. ASSUME NEW r \in Requests, _raise_error(r) \/ Answer(r) \/ UpdateRow(r) \/ Link(r) PROVE Inv'
    <3>1. PICK c : c \in Id
      <4>1. req[r].id \in Id
        BY <2>5 DEF _raise_error, Answer, UpdateRow, Link, Inv, TypeOK, ReqState, Answers, Updates, Others, Idle
      <4>2. QED
        BY <4>1
    <3>2. QED
      BY <2>5, <3>1, ReadsStep
  <2>6. ASSUME NEW r \in Requests,
               UpdateCredentials(r) \/ Delete(r) \/ (\E new \in Id : Copy(r, new))
        PROVE  Inv'
    BY <2>6, CommitStep, DeleteStep
  <2>7. ASSUME NEW c \in Id, delete_transfer(c) PROVE Inv'
    BY <2>7, UnlinkStep
  <2>8. ASSUME NEW w \in Workers,
               (\E c \in Id : LoadTransfer(w, c)) \/ LoadConnection(w) \/ LoadCredentials(w)
        PROVE  Inv'
    BY <2>8, WorkerStep
  <2>9. QED
    BY <2>1, <2>2, <2>3, <2>4, <2>5, <2>6, <2>7, <2>8 DEF Next
<1>3. QED
  BY <1>1, <1>2, PTL DEF Spec

\* Stored credentials are complete, are of a type that the connection's kind
\* takes, and go with the connection, for any overlapping requests.
THEOREM CredentialsFitHolds == Spec => []CredentialsFit
<1>1. Inv => CredentialsFit
  BY DEF Inv
<1>2. QED
  BY <1>1, InvHolds, PTL

\* Secrets are the last ones given, until an update puts back one that another
\* update had replaced.
THEOREM SecretsAreLastGivenHolds == Spec => []SecretsAreLastGiven
<1>1. Inv => SecretsAreLastGiven
  BY DEF Inv
<1>2. QED
  BY <1>1, InvHolds, PTL

\* An answer fails only after another request's commit.
THEOREM AnswersFailTornHolds == Spec => []AnswersFailTorn
<1>1. Inv => AnswersFailTorn
  BY DEF Inv, RequestOK, AnswersFailTorn, AnswerFails
<1>2. QED
  BY <1>1, InvHolds, PTL

\* A worker that no commit disturbs builds both handlers from what it read, for
\* every kind of connection and type of credentials, if the type is still the
\* transfer's and there are credentials.
THEOREM JobsBuildHolds == Spec => []JobsBuild
<1>1. Inv => JobsBuild
  <2> SUFFICES ASSUME Inv, NEW w \in Workers, job[w].pc \in {"source", "target"}, ~job[w].torn,
                      job[w].type = TypeOf(row[job[w].id]), auth[job[w].id] # None
               PROVE  JobGoesOn(job[w])
    BY DEF JobsBuild
  <2>1. PICK c \in Id : c = job[w].id
    BY DEF Inv, TypeOK, JobState, Loading, Loaded, Idle
  <2>2. row[c] \in ConnectionKind /\ auth[c] \in Complete(world.values) /\ Accepts(row[c], auth[c].type)
    BY <2>1 DEF Inv, TypeOK, CredentialsFit
  <2>3. auth[c].type \in AuthType
    BY <2>2, CompleteIs
  <2>4. WithCredentials(job[w]) = Schema(row[c]).data \union AuthFields(auth[c].type)
    BY <2>1 DEF Inv, JobOK, WithCredentials
  <2>5. get_handler(TypeOf(row[c]), Schema(row[c]).data \union AuthFields(auth[c].type))
    BY <2>2, <2>3, HandlerBuilds
  <2>6. QED
    BY <2>1, <2>4, <2>5 DEF JobGoesOn
<1>2. QED
  BY <1>1, InvHolds, PTL

-----------------------------------------------------------------------------
(* Row locks, and the store that the endpoints implement.                  *)

\* A row lock belongs to the update that is between its two UPDATEs of that
\* connection, every such update has it, and the row is there: an update never
\* brings back a connection, and an end of the request leaves no lock behind.
LocksHeld ==
  /\ lock \in [Id -> Requests \union {None}]
  /\ \A c \in Id : lock[c] # None => req[lock[c]].pc = "credentials" /\ req[lock[c]].id = c
  /\ \A r \in Requests : req[r].pc = "credentials" => lock[req[r].id] = r /\ row[req[r].id] # None

\* An update that will write credentials replaces ones, unless the connection
\* is gone.
ReplacesOld ==
  \A r \in Requests : req[r].pc \in {"update", "credentials"} /\ row[req[r].id] # None =>
    auth[req[r].id] # None

\* The invariant of the store.
StoreInv == LocksHeld /\ ReplacesOld

\* A request is at the same place.
AtPlace(p) == req'[p].pc = req[p].pc /\ req'[p].id = req[p].id

\* A connection stays, is removed, or is new.
Lives(d) == Same(d) \/ (row'[d] = None /\ lock[d] = None) \/ d \in NewId

\* Ids of requests.
LEMMA IdOf ==
  ASSUME Inv, NEW r \in Requests, req[r].pc # "idle"
  PROVE  req[r].id \in Id
  BY DEF Inv, TypeOK, ReqState, Answers, Updates, Others, Idle

\* An id that nobody mentions is not locked.
LEMMA NewUnlocked ==
  ASSUME LocksHeld, NEW c \in NewId
  PROVE  lock[c] = None
  BY DEF LocksHeld, NewId, Concerns

\* After a commit of connection c the other requests are where they were.
LEMMA TornInPlace ==
  ASSUME Inv, NEW r \in Requests, NEW c, NEW state, req' = [Torn(req, c) EXCEPT ![r] = state]
  PROVE  req'[r] = state /\ \A p \in Requests \ {r} : AtPlace(p)
<1>1. DOMAIN Torn(req, c) = Requests
  BY DEF Torn, Inv, TypeOK
<1>2. req'[r] = state
  BY <1>1
<1>3. ASSUME NEW p \in Requests \ {r} PROVE AtPlace(p)
  <2>1. PICK q \in ReqState(world.values) : q = req[p]
    BY DEF Inv, TypeOK
  <2>2. req'[p] = IF Concerns(q, c) /\ "torn" \in DOMAIN q THEN [q EXCEPT !.torn = TRUE] ELSE q
    BY <1>1, <2>1 DEF Torn
  <2>3. CASE "torn" \in DOMAIN q
    <3>1. PICK t : t = [q EXCEPT !.torn = TRUE]
      OBVIOUS
    <3>2. t.pc = q.pc /\ t.id = q.id
      BY <2>3, <3>1, TornRequest
    <3>3. QED
      BY <2>1, <2>2, <3>1, <3>2 DEF AtPlace
  <2>4. CASE "torn" \notin DOMAIN q
    BY <2>1, <2>2, <2>4 DEF AtPlace
  <2>5. QED
    BY <2>3, <2>4
<1>4. QED
  BY <1>2, <1>3

\* And when a request just moves on.
LEMMA GotoInPlace ==
  ASSUME Inv, NEW r \in Requests, NEW state, Goto(r, state)
  PROVE  req'[r] = state /\ \A p \in Requests \ {r} : AtPlace(p)
  BY DEF Goto, Inv, TypeOK, AtPlace

\* A step of a request that neither takes nor gives back a lock.
LEMMA LockFree ==
  ASSUME Inv, StoreInv, lock' = lock, NEW r \in Requests, req[r].pc # "credentials",
         req'[r].pc # "credentials", \A p \in Requests \ {r} : AtPlace(p),
         \A d \in Id : Lives(d),
         req'[r].pc = "update" => auth'[req'[r].id] # None
  PROVE  StoreInv'
<1>1. ASSUME NEW c \in Id, lock[c] # None
      PROVE  req'[lock[c]].pc = "credentials" /\ req'[lock[c]].id = c
  <2>1. lock[c] \in Requests \ {r} /\ req[lock[c]].pc = "credentials" /\ req[lock[c]].id = c
    BY <1>1 DEF StoreInv, LocksHeld
  <2>2. QED
    BY <2>1 DEF AtPlace
<1>2. ASSUME NEW p \in Requests, req'[p].pc = "credentials"
      PROVE  lock[req'[p].id] = p /\ row'[req'[p].id] # None
  <2>1. p # r /\ req[p].pc = "credentials" /\ req'[p].id = req[p].id
    BY <1>2 DEF AtPlace
  <2>2. PICK c \in Id : c = req[p].id
    BY <2>1, IdOf
  <2>3. lock[c] = p /\ row[c] # None
    BY <2>1, <2>2 DEF StoreInv, LocksHeld
  <2>4. c \notin NewId /\ lock[c] # None
    BY <2>3, WorldsAssumption DEF NewId
  <2>5. QED
    BY <2>1, <2>2, <2>3, <2>4 DEF Lives, Same
<1>3. ASSUME NEW p \in Requests, req'[p].pc \in {"update", "credentials"}, row'[req'[p].id] # None
      PROVE  auth'[req'[p].id] # None
  <2>1. CASE p = r
    BY <1>3, <2>1
  <2>2. CASE p # r
    <3>1. req[p].pc \in {"update", "credentials"} /\ req'[p].id = req[p].id
      BY <1>3, <2>2 DEF AtPlace
    <3>2. PICK c \in Id : c = req[p].id
      BY <3>1, IdOf
    <3>3. c \notin NewId
      BY <3>1, <3>2 DEF NewId, Concerns
    <3>4. Same(c)
      BY <1>3, <3>1, <3>2, <3>3 DEF Lives
    <3>5. QED
      BY <1>3, <3>1, <3>2, <3>4 DEF Same, StoreInv, ReplacesOld
  <2>3. QED
    BY <2>1, <2>2
<1>4. QED
  BY <1>1, <1>2, <1>3 DEF StoreInv, LocksHeld, ReplacesOld

\* A locked connection is changed only by the update that holds its lock.
OnlyByHolder == \A c \in Id : lock[c] # None /\ ~Same(c) => UpdateCredentials(lock[c])

\* A step of the store, or none.
StoreStep == [Store!Next]_<<row, auth>>

\* A step that keeps both tables is none of the store.
LEMMA TablesKept ==
  ASSUME UNCHANGED <<row, auth>>
  PROVE  StoreStep /\ OnlyByHolder /\ \A d \in Id : Same(d) /\ Lives(d)
  BY DEF StoreStep, OnlyByHolder, Same, Lives

\* Where connections are created, removed or left alone, no holder is passed.
LEMMA LivesByHolder ==
  ASSUME StoreInv, \A d \in Id : Lives(d)
  PROVE  OnlyByHolder
  BY NewUnlocked DEF OnlyByHolder, Lives, StoreInv

\* Steps of requests that write neither table.
LEMMA StoreReads ==
  ASSUME Inv, StoreInv, NEW r \in Requests,
         \/ _raise_error(r) \/ Answer(r) \/ Link(r) \/ UpdateRow(r)
         \/ \E c \in Id : \/ read_connection(r, c) \/ delete_connection(r, c) \/ create_transfer(r, c)
                          \/ (\E remove \in BOOLEAN : copy_connection(r, c, remove))
                          \/ (\E kind, cred : update_connection(r, c, kind, cred))
  PROVE  StoreInv' /\ StoreStep /\ OnlyByHolder
<1>1. UNCHANGED <<row, auth>>
  BY DEF _raise_error, Answer, Link, UpdateRow, read_connection, delete_connection, create_transfer,
         copy_connection, update_connection
<1>2. ASSUME NEW state, Goto(r, state), lock' = lock, req[r].pc # "credentials", state.pc # "credentials",
             state.pc = "update" => auth[state.id] # None
      PROVE  StoreInv'
  <2>1. req'[r] = state /\ \A p \in Requests \ {r} : AtPlace(p)
    BY <1>2, GotoInPlace
  <2>2. \A d \in Id : Lives(d)
    BY <1>1, TablesKept
  <2>3. QED
    BY <1>1, <1>2, <2>1, <2>2, LockFree
<1>3. CASE _raise_error(r) \/ Answer(r) \/ Link(r) \/ (UpdateRow(r) /\ Goto(r, Idle))
  <2>1. Goto(r, Idle) /\ req[r].pc # "credentials" /\ Idle.pc = "idle"
    BY <1>3 DEF _raise_error, Answer, Link, UpdateRow, Idle
  <2>2. lock' = lock
    <3>1. CASE UpdateRow(r) /\ Goto(r, Idle)
      <4>1. PICK q \in ReqState(world.values) : q = req[r]
        BY DEF Inv, TypeOK
      <4>2. q \in Updates(world.values)
        BY <3>1, <4>1 DEF UpdateRow, ReqState, Answers, Others, Idle
      <4>3. [q EXCEPT !.pc = "credentials"].pc = "credentials"
        BY <4>2 DEF Updates
      <4>4. ~Goto(r, [q EXCEPT !.pc = "credentials"])
        BY <2>1, <4>3 DEF Goto, Inv, TypeOK
      <4>5. QED
        BY <3>1, <4>1, <4>4 DEF UpdateRow
    <3>2. QED
      BY <1>3, <3>1 DEF _raise_error, Answer, Link
  <2>3. StoreInv'
    BY <1>2, <2>1, <2>2
  <2>4. QED
    BY <1>1, <2>3, TablesKept
<1>4. ASSUME NEW c \in Id, \/ read_connection(r, c) \/ delete_connection(r, c) \/ create_transfer(r, c)
                          \/ (\E remove \in BOOLEAN : copy_connection(r, c, remove))
      PROVE  StoreInv'
  <2>1. PICK state : Goto(r, state) /\ state.pc \in {"answer", "delete", "link", "copy"}
    <3>1. CASE read_connection(r, c)
      BY <3>1 DEF read_connection, Answering
    <3>2. CASE delete_connection(r, c)
      BY <3>2 DEF delete_connection
    <3>3. CASE create_transfer(r, c)
      BY <3>3 DEF create_transfer
    <3>4. ASSUME NEW remove \in BOOLEAN, copy_connection(r, c, remove)
          PROVE  \E state : Goto(r, state) /\ state.pc \in {"answer", "delete", "link", "copy"}
      BY <3>4 DEF copy_connection
    <3>5. QED
      BY <1>4, <3>1, <3>2, <3>3, <3>4
  <2>2. lock' = lock /\ req[r].pc = "idle"
    BY <1>4 DEF read_connection, delete_connection, create_transfer, copy_connection
  <2>3. QED
    BY <1>2, <2>1, <2>2
<1>5. ASSUME NEW c \in Id, NEW kind, NEW cred, update_connection(r, c, kind, cred) PROVE StoreInv'
  <2>1. PICK state : Goto(r, state) /\ state.pc = "update" /\ state.id = c
    BY <1>5 DEF update_connection
  <2>2. lock' = lock /\ req[r].pc = "idle" /\ auth[c] # None
    BY <1>5 DEF update_connection
  <2>3. QED
    BY <1>2, <2>1, <2>2
<1>6. CASE UpdateRow(r) /\ ~Goto(r, Idle)
  <2>1. PICK q \in ReqState(world.values) : q = req[r]
    BY DEF Inv, TypeOK
  <2>2. q.pc = "update" /\ q \in Updates(world.values)
    BY <1>6, <2>1 DEF UpdateRow, ReqState, Answers, Others, Idle
  <2>3. PICK c \in Id : c = q.id
    BY <2>2 DEF Updates
  <2>4. PICK state : state = [q EXCEPT !.pc = "credentials"]
    OBVIOUS
  <2>5. state.pc = "credentials" /\ state.id = c
    BY <2>2, <2>3, <2>4 DEF Updates
  <2>6. Goto(r, state) /\ lock' = [lock EXCEPT ![c] = r] /\ lock[c] = None /\ row[c] # None
    BY <1>6, <2>1, <2>3, <2>4 DEF UpdateRow
  <2>7. req'[r] = state /\ \A p \in Requests \ {r} : AtPlace(p)
    BY <2>6, GotoInPlace
  <2>8. auth[c] # None
    BY <2>1, <2>2, <2>3, <2>6 DEF StoreInv, ReplacesOld
  <2>9. LocksHeld'
    <3>1. lock' \in [Id -> Requests \union {None}] /\ lock'[c] = r /\ \A d \in Id \ {c} : lock'[d] = lock[d]
      BY <2>6 DEF StoreInv, LocksHeld
    <3>2. ASSUME NEW d \in Id, lock'[d] # None
          PROVE  req'[lock'[d]].pc = "credentials" /\ req'[lock'[d]].id = d
      <4>1. CASE d = c
        BY <2>5, <2>7, <3>1, <4>1
      <4>2. CASE d # c
        <5>1. lock[d] \in Requests /\ lock'[d] = lock[d]
              /\ req[lock[d]].pc = "credentials" /\ req[lock[d]].id = d
          BY <3>1, <3>2, <4>2 DEF StoreInv, LocksHeld
        <5>2. lock[d] # r
          BY <2>1, <2>2, <5>1
        <5>3. QED
          BY <2>7, <5>1, <5>2 DEF AtPlace
      <4>3. QED
        BY <4>1, <4>2
    <3>3. ASSUME NEW p \in Requests, req'[p].pc = "credentials"
          PROVE  lock'[req'[p].id] = p /\ row'[req'[p].id] # None
      <4>1. CASE p = r
        BY <1>1, <2>5, <2>6, <2>7, <3>1, <4>1
      <4>2. CASE p # r
        <5>1. req[p].pc = "credentials" /\ req'[p].id = req[p].id
          BY <2>7, <3>3, <4>2 DEF AtPlace
        <5>2. PICK d \in Id : d = req[p].id
          BY <5>1, IdOf
        <5>3. lock[d] = p /\ row[d] # None
          BY <5>1, <5>2 DEF StoreInv, LocksHeld
        <5>4. d # c
          BY <2>6, <5>3, WorldsAssumption
        <5>5. QED
          BY <1>1, <3>1, <5>1, <5>2, <5>3, <5>4
      <4>3. QED
        BY <4>1, <4>2
    <3>4. QED
      BY <3>1, <3>2, <3>3 DEF LocksHeld
  <2>10. ReplacesOld'
    <3>1. ASSUME NEW p \in Requests, req'[p].pc \in {"update", "credentials"}, row'[req'[p].id] # None
          PROVE  auth'[req'[p].id] # None
      <4>1. CASE p = r
        BY <1>1, <2>5, <2>7, <2>8, <4>1
      <4>2. CASE p # r
        BY <1>1, <2>7, <3>1, <4>2 DEF AtPlace, StoreInv, ReplacesOld
      <4>3. QED
        BY <4>1, <4>2
    <3>2. QED
      BY <3>1 DEF ReplacesOld
  <2>11. QED
    BY <1>1, <2>9, <2>10, TablesKept DEF StoreInv
<1>7. QED
  BY <1>1, <1>3, <1>4, <1>5, <1>6, TablesKept

\* UpdateCredentials writes both rows of a connection that still exists and that
\* nobody else could have changed.
LEMMA StoreCommit ==
  ASSUME Inv, StoreInv, NEW r \in Requests, UpdateCredentials(r)
  PROVE  StoreInv' /\ StoreStep /\ OnlyByHolder
<1>1. PICK q : q = req[r]
  OBVIOUS
<1>2. TypeOK /\ q \in Updates(world.values) /\ RequestOK(q) /\ q.pc = "credentials"
  BY <1>1 DEF UpdateCredentials, Inv, TypeOK, ReqState, Answers, Others, Idle
<1>3. PICK c \in Id : c = q.id
  BY <1>2 DEF Updates
<1>4. q.kind \in ConnectionKind /\ q.kind # None /\ q.cred \in Complete(world.values)
      /\ Accepts(q.kind, q.cred.type)
  BY <1>2, WorldsAssumption DEF Updates, RequestOK
<1>5. /\ row' = [row EXCEPT ![c] = q.kind] /\ auth' = [auth EXCEPT ![c] = q.cred]
      /\ req' = [Torn(req, c) EXCEPT ![r] = Answering(c, q.kind, TRUE)]
      /\ lock' = [lock EXCEPT ![c] = None]
  BY <1>1, <1>3 DEF UpdateCredentials
<1>6. lock[c] = r /\ row[c] # None /\ auth[c] # None
  BY <1>1, <1>2, <1>3 DEF StoreInv, LocksHeld, ReplacesOld
<1>7. q.cred # None /\ LeftOut(q.cred) = {} /\ q.cred.type \in AuthType
  BY <1>2, <1>4, NothingLeftOut, CompleteIs
<1>8. row'[c] = q.kind /\ auth'[c] = q.cred /\ \A d \in Id \ {c} : Same(d)
  BY <1>2, <1>5 DEF TypeOK, Same
<1>9. StoreStep
  <2>1. Store!Whole(row'[c], auth'[c])
    BY <1>4, <1>7, <1>8 DEF Store!Whole, LeftOut
  <2>2. Store!Replace(c)
    BY <1>6, <1>8, <2>1 DEF Store!Replace, Store!Only, Same
  <2>3. QED
    BY <2>2 DEF StoreStep, Store!Next
<1>10. OnlyByHolder
  BY <1>6, <1>8 DEF OnlyByHolder
<1>11. req'[r].pc = "answer" /\ \A p \in Requests \ {r} : AtPlace(p)
  <2>1. PICK state : state = Answering(c, q.kind, TRUE)
    OBVIOUS
  <2>2. state.pc = "answer"
    BY <2>1 DEF Answering
  <2>3. QED
    BY <1>5, <2>1, <2>2, TornInPlace
<1>12. lock' \in [Id -> Requests \union {None}] /\ lock'[c] = None /\ \A d \in Id \ {c} : lock'[d] = lock[d]
  BY <1>5 DEF StoreInv, LocksHeld
<1>13. ASSUME NEW d \in Id, lock'[d] # None
       PROVE  req'[lock'[d]].pc = "credentials" /\ req'[lock'[d]].id = d
  <2>1. d # c /\ lock'[d] = lock[d]
    BY <1>12, <1>13
  <2>2. lock[d] \in Requests /\ req[lock[d]].pc = "credentials" /\ req[lock[d]].id = d
    BY <1>13, <2>1 DEF StoreInv, LocksHeld
  <2>3. lock[d] # r
    BY <1>1, <1>3, <2>1, <2>2
  <2>4. QED
    BY <1>11, <2>1, <2>2, <2>3 DEF AtPlace
<1>14. ASSUME NEW p \in Requests, req'[p].pc = "credentials"
       PROVE  lock'[req'[p].id] = p /\ row'[req'[p].id] # None
  <2>1. p # r /\ req[p].pc = "credentials" /\ req'[p].id = req[p].id
    BY <1>11, <1>14 DEF AtPlace
  <2>2. PICK d \in Id : d = req[p].id
    BY <2>1, IdOf
  <2>3. lock[d] = p /\ row[d] # None
    BY <2>1, <2>2 DEF StoreInv, LocksHeld
  <2>4. d # c
    BY <1>6, <2>1, <2>3
  <2>5. QED
    BY <1>8, <1>12, <2>1, <2>2, <2>3, <2>4 DEF Same
<1>15. ASSUME NEW p \in Requests, req'[p].pc \in {"update", "credentials"}, row'[req'[p].id] # None
       PROVE  auth'[req'[p].id] # None
  <2>1. req[p].pc \in {"update", "credentials"} /\ req'[p].id = req[p].id
    BY <1>11, <1>15 DEF AtPlace
  <2>2. PICK d \in Id : d = req[p].id
    BY <2>1, IdOf
  <2>3. CASE d = c
    BY <1>7, <1>8, <2>1, <2>2, <2>3
  <2>4. CASE d # c
    BY <1>8, <1>15, <2>1, <2>2, <2>4 DEF Same, StoreInv, ReplacesOld
  <2>5. QED
    BY <2>3, <2>4
<1>16. QED
  BY <1>9, <1>10, <1>12, <1>13, <1>14, <1>15 DEF StoreInv, LocksHeld, ReplacesOld

\* create_connection: a free id gets both rows.
LEMMA StoreCreate ==
  ASSUME Inv, StoreInv, NEW r \in Requests, NEW c \in Id, NEW kind \in world.kinds,
         NEW cred \in Credentials(world.values), create_connection(r, c, kind, cred)
  PROVE  StoreInv' /\ StoreStep /\ OnlyByHolder
<1>1. TypeOK /\ kind \in ConnectionKind /\ kind # None
  BY WorldsAssumption DEF Inv, TypeOK
<1>2. cred \in Complete(world.values)
  BY <1>1, GivenIs
<1>3. cred # None /\ LeftOut(cred) = {} /\ cred.type \in AuthType
  BY <1>1, <1>2, NothingLeftOut, CompleteIs
<1>4. /\ req[r].pc = "idle" /\ c \in NewId /\ row[c] = None /\ Accepts(kind, cred.type)
      /\ row' = [row EXCEPT ![c] = kind] /\ auth' = [auth EXCEPT ![c] = cred]
      /\ Goto(r, Answering(c, kind, TRUE)) /\ lock' = lock
  BY DEF create_connection, NewId
<1>5. row'[c] = kind /\ auth'[c] = cred /\ \A d \in Id \ {c} : Same(d)
  BY <1>1, <1>4 DEF TypeOK, Same
<1>6. StoreStep
  <2>1. Store!Whole(row'[c], auth'[c])
    BY <1>1, <1>3, <1>4, <1>5 DEF Store!Whole, LeftOut
  <2>2. Store!Create(c)
    BY <1>4, <1>5, <2>1 DEF Store!Create, Store!Only, Same
  <2>3. QED
    BY <2>2 DEF StoreStep, Store!Next
<1>7. \A d \in Id : Lives(d)
  BY <1>4, <1>5 DEF Lives
<1>8. req'[r].pc = "answer" /\ \A p \in Requests \ {r} : AtPlace(p)
  BY <1>4, GotoInPlace DEF Answering
<1>9. QED
  BY <1>4, <1>6, <1>7, <1>8, LockFree, LivesByHolder

\* A connection that is removed, by a deletion or a move, loses both rows, and
\* at most a copy appears.
LEMMA StoreRemove ==
  ASSUME Inv, StoreInv, NEW r \in Requests, req[r].pc # "credentials", NEW c \in Id,
         Remove(r, c), lock' = lock,
         \/ row' = [row EXCEPT ![c] = None]
         \/ \E new \in NewId, kind \in ConnectionKind :
              row' = IF row[c] = None THEN row ELSE [[row EXCEPT ![new] = kind] EXCEPT ![c] = None]
  PROVE  StoreInv' /\ StoreStep /\ OnlyByHolder
<1>1. /\ TypeOK /\ lock[c] = None /\ auth' = [auth EXCEPT ![c] = None]
      /\ req' = [Torn(req, c) EXCEPT ![r] = Idle]
  BY DEF Remove, Inv
<1>2. auth'[c] = None /\ \A d \in Id \ {c} : auth'[d] = auth[d]
  BY <1>1 DEF TypeOK
<1>3. row[c] = None => auth[c] = None
  BY DEF Inv, CredentialsFit
<1>4. req'[r].pc = "idle" /\ \A p \in Requests \ {r} : AtPlace(p)
  <2>1. PICK state : state = Idle
    OBVIOUS
  <2>2. state.pc = "idle"
    BY <2>1, IdleIs
  <2>3. req' = [Torn(req, c) EXCEPT ![r] = state]
    BY <1>1, <2>1
  <2>4. QED
    BY <2>2, <2>3, TornInPlace
<1>5. CASE row[c] = None
  <2>1. row' = row
    BY <1>1, <1>5 DEF TypeOK
  <2>2. auth' = auth
    BY <1>1, <1>3, <1>5 DEF TypeOK
  <2>3. StoreStep /\ OnlyByHolder /\ \A d \in Id : Lives(d)
    BY <2>1, <2>2, TablesKept
  <2>4. QED
    BY <1>4, <2>3, LockFree
<1>6. CASE row[c] # None /\ row' = [row EXCEPT ![c] = None]
  <2>1. row'[c] = None /\ \A d \in Id \ {c} : Same(d)
    BY <1>1, <1>2, <1>6 DEF TypeOK, Same
  <2>2. Store!Remove(c)
    BY <1>2, <1>6, <2>1 DEF Store!Remove, Store!Removed, Store!Only, Same
  <2>3. StoreStep
    BY <2>2 DEF StoreStep, Store!Next
  <2>4. \A d \in Id : Lives(d)
    BY <1>1, <2>1 DEF Lives
  <2>5. QED
    BY <1>4, <2>3, <2>4, LockFree, LivesByHolder
<1>7. ASSUME row[c] # None, NEW new \in NewId, NEW kind \in ConnectionKind,
             row' = [[row EXCEPT ![new] = kind] EXCEPT ![c] = None]
      PROVE  StoreInv' /\ StoreStep /\ OnlyByHolder
  <2>1. new \in Id /\ new # c /\ row[new] = None /\ auth[new] = None /\ kind # None
    BY <1>7, WorldsAssumption DEF NewId, Inv, CredentialsFit
  <2>2. row'[c] = None /\ row'[new] = kind /\ \A d \in Id \ {c, new} : Same(d)
    BY <1>1, <1>2, <1>7, <2>1 DEF TypeOK, Same
  <2>3. auth'[new] = None
    BY <1>2, <2>1
  <2>4. Store!Move(c, new)
    BY <1>2, <1>7, <2>1, <2>2, <2>3 DEF Store!Move, Store!Removed, Store!Copied, Store!Only, Same
  <2>5. StoreStep
    BY <2>1, <2>4 DEF StoreStep, Store!Next
  <2>6. \A d \in Id : Lives(d)
    BY <1>1, <2>2 DEF Lives
  <2>7. QED
    BY <1>4, <2>5, <2>6, LockFree, LivesByHolder
<1>8. QED
  BY <1>5, <1>6, <1>7

\* delete_connection and copy_connection, at their commit.
LEMMA StoreDelete ==
  ASSUME Inv, StoreInv, NEW r \in Requests, Delete(r) \/ (\E new \in Id : Copy(r, new))
  PROVE  StoreInv' /\ StoreStep /\ OnlyByHolder
<1>1. req[r].pc \in {"delete", "copy"} /\ lock' = lock
  BY DEF Delete, Copy
<1>2. PICK c \in Id : c = req[r].id
  BY <1>1, IdOf
<1>3. CASE Delete(r)
  <2>1. row' = [row EXCEPT ![c] = None] /\ Remove(r, c)
    BY <1>2, <1>3 DEF Delete
  <2>2. QED
    BY <1>1, <2>1, StoreRemove
<1>4. ASSUME NEW new \in Id, Copy(r, new) PROVE StoreInv' /\ StoreStep /\ OnlyByHolder
  <2>1. req[r] \in [pc : {"copy"}, id : Id, kind : ConnectionKind, remove : BOOLEAN]
    BY <1>4 DEF Copy, Inv, TypeOK, ReqState, Answers, Updates, Others, Idle
  <2>2. PICK kind \in ConnectionKind : kind = req[r].kind
    BY <2>1
  <2>3. new \in NewId /\ row[new] = None /\ auth[new] = None /\ kind # None
    BY <1>4, WorldsAssumption DEF Copy, NewId, Inv, CredentialsFit
  <2>4. CASE req[r].remove
    <3>1. /\ row' = IF row[c] = None THEN row ELSE [[row EXCEPT ![new] = kind] EXCEPT ![c] = None]
          /\ Remove(r, c)
      BY <1>2, <1>4, <2>2, <2>4 DEF Copy
    <3>2. QED
      BY <1>1, <2>3, <3>1, StoreRemove
  <2>5. CASE ~req[r].remove
    <3>1. row' = [row EXCEPT ![new] = kind] /\ Goto(r, Idle) /\ auth' = auth
      BY <1>4, <2>2, <2>5 DEF Copy
    <3>2. row'[new] = kind /\ auth'[new] = None /\ \A d \in Id \ {new} : Same(d)
      BY <2>3, <3>1 DEF Inv, TypeOK, Same
    <3>3. Store!Copy(new)
      BY <2>3, <3>2 DEF Store!Copy, Store!Copied, Store!Only, Same
    <3>4. StoreStep
      BY <3>3 DEF StoreStep, Store!Next
    <3>5. \A d \in Id : Lives(d)
      BY <2>3, <3>2 DEF Lives
    <3>6. req'[r].pc = "idle" /\ \A p \in Requests \ {r} : AtPlace(p)
      BY <3>1, GotoInPlace DEF Idle
    <3>7. QED
      BY <1>1, <3>4, <3>5, <3>6, LockFree, LivesByHolder
  <2>6. QED
    BY <2>4, <2>5
<1>5. QED
  BY <1>3, <1>4

\* Workers, and deletions of transfers, touch neither connections nor requests.
LEMMA StoreIdle ==
  ASSUME StoreInv, UNCHANGED <<row, auth, lock, req>>
  PROVE  StoreInv' /\ StoreStep /\ OnlyByHolder
<1>1. StoreInv'
  BY DEF StoreInv, LocksHeld, ReplacesOld
<1>2. QED
  BY <1>1, TablesKept

\* Every step keeps the invariant of the store and is a step of it or none.
LEMMA StoreSteps ==
  ASSUME Inv, StoreInv, [Next]_vars
  PROVE  StoreInv' /\ StoreStep /\ OnlyByHolder
<1>1. CASE UNCHANGED vars
  BY <1>1, StoreIdle DEF vars
<1>2. ASSUME NEW r \in Requests, NEW c \in Id, NEW kind \in world.kinds,
             NEW cred \in Credentials(world.values), create_connection(r, c, kind, cred)
      PROVE  StoreInv' /\ StoreStep /\ OnlyByHolder
  BY <1>2, StoreCreate
<1>3. ASSUME NEW r \in Requests,
             \/ _raise_error(r) \/ Answer(r) \/ Link(r) \/ UpdateRow(r)
             \/ \E c \in Id : \/ read_connection(r, c) \/ delete_connection(r, c) \/ create_transfer(r, c)
                              \/ (\E remove \in BOOLEAN : copy_connection(r, c, remove))
                              \/ (\E kind, cred : update_connection(r, c, kind, cred))
      PROVE  StoreInv' /\ StoreStep /\ OnlyByHolder
  BY <1>3, StoreReads
<1>4. ASSUME NEW r \in Requests, UpdateCredentials(r) \/ Delete(r) \/ (\E new \in Id : Copy(r, new))
      PROVE  StoreInv' /\ StoreStep /\ OnlyByHolder
  BY <1>4, StoreCommit, StoreDelete
<1>5. ASSUME \/ \E c \in Id : delete_transfer(c)
             \/ \E w \in Workers :
                  (\E c \in Id : LoadTransfer(w, c)) \/ LoadConnection(w) \/ LoadCredentials(w)
      PROVE  StoreInv' /\ StoreStep /\ OnlyByHolder
  <2>1. UNCHANGED <<row, auth, lock, req>>
    BY <1>5 DEF delete_transfer, LoadTransfer, LoadConnection, LoadCredentials
  <2>2. QED
    BY <2>1, StoreIdle
<1>6. QED
  BY <1>1, <1>2, <1>3, <1>4, <1>5 DEF Next

\* The invariant of the store.
LEMMA StoreInvHolds == Spec => []StoreInv
<1>1. Init => StoreInv
  BY DEF Init, StoreInv, LocksHeld, ReplacesOld, Idle
<1>2. Inv /\ StoreInv /\ [Next]_vars => StoreInv'
  BY StoreSteps
<1>3. QED
  BY <1>1, <1>2, InvHolds, PTL DEF Spec

\* Row locks are held exactly between the two UPDATEs of update_connection, on
\* a connection that exists: an update never brings a deleted connection back,
\* two updates of a connection never mix their rows, and no lock stays behind.
THEOREM LocksHeldHolds == Spec => []LocksHeld
<1>1. StoreInv => LocksHeld
  BY DEF StoreInv
<1>2. QED
  BY <1>1, StoreInvHolds, PTL

\* Nobody changes or deletes a connection between the two UPDATEs of an update
\* of it, other than that update's own commit.
THEOREM UpdatesAreIsolated == Spec => [][OnlyByHolder]_vars
<1>1. Inv /\ StoreInv /\ [Next]_vars => OnlyByHolder
  BY StoreSteps
<1>2. QED
  BY <1>1, InvHolds, StoreInvHolds, PTL DEF Spec

\* However requests overlap, the rows of connections change as if every endpoint
\* were one step: data and credentials together, a copy and the removal of its
\* origin together, and never a connection that gains or loses its credentials.
THEOREM StoreImplemented == Spec => ImplementsStore
<1>1. Init => Store!Init
  BY DEF Init, Store!Init
<1>2. Inv /\ StoreInv /\ [Next]_vars => StoreStep
  BY StoreSteps
<1>3. QED
  BY <1>1, <1>2, InvHolds, StoreInvHolds, PTL DEF Spec, ImplementsStore, Store!Spec, StoreStep
=============================================================================
