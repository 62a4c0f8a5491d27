-------------------------- MODULE ConnectionSchemas --------------------------
(***************************************************************************)
(* The three descriptions of a connection that have to agree: the request  *)
(* schemas the server accepts and stores (connection data and credentials, *)
(* each a JSON object), the data transfer objects the worker builds from   *)
(* the two, and the fields each handler takes from the object when it      *)
(* connects.                                                               *)
(*                                                                         *)
(* Only names of fields are kept.  A schema is dumped with its defaults    *)
(* filled in, so that a stored object has every field of its schema.       *)
(***************************************************************************)
EXTENDS FiniteSets

FileTypes == {"ftp", "ftps", "hdfs", "s3", "samba", "sftp", "webdav"}
DBTypes == {"clickhouse", "hive", "iceberg", "mssql", "mysql", "oracle", "postgres"}
ConnectionType == FileTypes \union DBTypes

IcebergKinds == {"iceberg_rest_s3_direct", "iceberg_rest_s3_delegated"}

ConnectionKind == (ConnectionType \ {"iceberg"}) \union IcebergKinds

TypeOf(kind) == IF kind \in IcebergKinds THEN "iceberg" ELSE kind

--------------------------------------------------------------------------
(* Credentials, by their type: the open fields, and the secret ones, which *)
(* an update may leave out (get_secret_fields).                            *)

OAuth2Fields ==
  {"rest_catalog_oauth2_client_id", "rest_catalog_oauth2_scopes", "rest_catalog_oauth2_resource",
   "rest_catalog_oauth2_audience", "rest_catalog_oauth2_token_endpoint"}

BasicAuthSchema == [open |-> {"user"}, secret |-> {"password"}]
S3AuthSchema == [open |-> {"access_key"}, secret |-> {"secret_key"}]
SambaAuthSchema == [open |-> {"user", "auth_type"}, secret |-> {"password"}]
IcebergRESTCatalogBearerAuthSchema == [open |-> {}, secret |-> {"rest_catalog_token"}]
IcebergRESTCatalogOAuth2ClientCredentialsAuthSchema ==
  [open |-> OAuth2Fields, secret |-> {"rest_catalog_oauth2_client_secret"}]
IcebergRESTCatalogBearerS3BasicAuthSchema ==
  [open |-> {"s3_access_key"}, secret |-> {"rest_catalog_token", "s3_secret_key"}]
IcebergRESTCatalogOAuth2ClientCredentialsS3BasicAuthSchema ==
  [open |-> OAuth2Fields \union {"s3_access_key"},
   secret |-> {"rest_catalog_oauth2_client_secret", "s3_secret_key"}]

DelegatedAuthTypes == {"iceberg_rest_bearer", "iceberg_rest_oauth2_client_credentials"}
DirectAuthTypes ==
  {"iceberg_rest_bearer_s3_basic", "iceberg_rest_oauth2_client_credentials_s3_basic"}

AuthType == {"basic", "s3", "samba"} \union DelegatedAuthTypes \union DirectAuthTypes

AuthSchema(type) ==
  CASE type = "basic" -> BasicAuthSchema
    [] type = "s3"    -> S3AuthSchema
    [] type = "samba" -> SambaAuthSchema
    [] type = "iceberg_rest_bearer" -> IcebergRESTCatalogBearerAuthSchema
    [] type = "iceberg_rest_oauth2_client_credentials" ->
         IcebergRESTCatalogOAuth2ClientCredentialsAuthSchema
    [] type = "iceberg_rest_bearer_s3_basic" -> IcebergRESTCatalogBearerS3BasicAuthSchema
    [] type = "iceberg_rest_oauth2_client_credentials_s3_basic" ->
         IcebergRESTCatalogOAuth2ClientCredentialsS3BasicAuthSchema

AuthFields(type) == {"type"} \union AuthSchema(type).open \union AuthSchema(type).secret

--------------------------------------------------------------------------
(* Connections, by kind: a type, or one of the two iceberg flavours.  The  *)
(* Create, Read and Update schemas of a kind have the same data and admit  *)
(* the same types of credentials.                                          *)

ConnectionSchema(data, auths) == [data |-> data, auths |-> auths]

Database == {"host", "port", "database_name", "additional_params"}

ClickhouseConnectionSchema == ConnectionSchema(Database, {"basic"})
MySQLConnectionSchema == ConnectionSchema(Database, {"basic"})
MSSQLConnectionSchema == ConnectionSchema(Database, {"basic"})
PostgresConnectionSchema == ConnectionSchema(Database, {"basic"})
OracleConnectionSchema ==
  ConnectionSchema({"host", "port", "service_name", "sid", "additional_params"}, {"basic"})
HiveConnectionSchema == ConnectionSchema({"cluster"}, {"basic"})
HDFSConnectionSchema == ConnectionSchema({"cluster"}, {"basic"})
FTPConnectionSchema == ConnectionSchema({"host", "port"}, {"basic"})
FTPSConnectionSchema == ConnectionSchema({"host", "port"}, {"basic"})
SFTPConnectionSchema == ConnectionSchema({"host", "port"}, {"basic"})
WebDAVConnectionSchema == ConnectionSchema({"host", "port", "protocol"}, {"basic"})
SambaConnectionSchema ==
  ConnectionSchema({"host", "share", "port", "protocol", "domain"}, {"samba"})
S3ConnectionSchema ==
  ConnectionSchema({"host", "bucket", "protocol", "region", "port", "bucket_style",
                    "additional_params"}, {"s3"})
IcebergAuthDataSchema == DirectAuthTypes \union DelegatedAuthTypes
IcebergRESTCatalogS3DirectConnectionSchema ==
  ConnectionSchema({"type", "rest_catalog_url", "s3_warehouse_path", "s3_host", "s3_port",
                    "s3_protocol", "s3_bucket", "s3_region", "s3_bucket_style",
                    "s3_additional_params"}, IcebergAuthDataSchema)
IcebergRESTCatalogS3DelegatedConnectionSchema ==
  ConnectionSchema({"type", "rest_catalog_url", "s3_warehouse_name", "s3_access_delegation"},
                   IcebergAuthDataSchema)

Schema(kind) ==
  CASE kind = "clickhouse" -> ClickhouseConnectionSchema
    [] kind = "mysql"      -> MySQLConnectionSchema
    [] kind = "mssql"      -> MSSQLConnectionSchema
    [] kind = "postgres"   -> PostgresConnectionSchema
    [] kind = "oracle"     -> OracleConnectionSchema
    [] kind = "hive"       -> HiveConnectionSchema
    [] kind = "hdfs"       -> HDFSConnectionSchema
    [] kind = "ftp"        -> FTPConnectionSchema
    [] kind = "ftps"       -> FTPSConnectionSchema
    [] kind = "sftp"       -> SFTPConnectionSchema
    [] kind = "webdav"     -> WebDAVConnectionSchema
    [] kind = "samba"      -> SambaConnectionSchema
    [] kind = "s3"         -> S3ConnectionSchema
    [] kind = "iceberg_rest_s3_direct" -> IcebergRESTCatalogS3DirectConnectionSchema
    [] kind = "iceberg_rest_s3_delegated" -> IcebergRESTCatalogS3DelegatedConnectionSchema

\* connection_and_auth_data_match: the types whose name mentions "s3".
connection_and_auth_data_match(kind, authType) ==
  /\ kind = "iceberg_rest_s3_direct" => authType \in DirectAuthTypes
  /\ kind = "iceberg_rest_s3_delegated" => authType \notin DirectAuthTypes

\* What the Create and Update schemas accept, and what the Read schemas do.
Accepts(kind, authType) ==
  /\ authType \in Schema(kind).auths
  /\ connection_and_auth_data_match(kind, authType)
ReadAcceptsBasic(kind, authType) ==   \* Mutant: samba's Read schema takes basic
  authType \in IF kind = "samba" THEN {"basic"} ELSE Schema(kind).auths
ReadAccepts(kind, authType) == authType \in Schema(kind).auths

--------------------------------------------------------------------------
(* The worker's objects: the fields a constructor needs, and all it takes. *)

DTO(needs, defaults) == [needs |-> needs, takes |-> needs \union defaults]

Login == {"host", "port", "user", "password"}

PostgresConnectionDTO == DTO(Login \union {"database_name"}, {"additional_params"})
ClickhouseConnectionDTO == DTO(Login, {"database_name", "additional_params"})
MSSQLConnectionDTO == DTO(Login \union {"database_name"}, {"additional_params"})
MySQLConnectionDTO == DTO(Login, {"database_name", "additional_params"})
OracleConnectionDTO == DTO(Login, {"additional_params", "sid", "service_name"})
HiveConnectionDTO == DTO({"user", "password", "cluster"}, {})
HDFSConnectionDTO == DTO({"user", "password", "cluster"}, {})
SFTPConnectionDTO == DTO(Login, {})
FTPConnectionDTO == DTO(Login, {})
FTPSConnectionDTO == DTO(Login, {})
WebDAVConnectionDTO == DTO(Login, {"protocol"})
SambaWithoutAuthType ==               \* Mutant: a field of the schema is missing
  DTO({"host", "share", "user", "password"}, {"protocol", "domain", "port"})
SambaConnectionDTO ==
  DTO({"host", "share", "user", "password"}, {"protocol", "auth_type", "domain", "port"})
S3ConnectionDTO ==
  DTO({"host", "port", "access_key", "secret_key", "bucket", "bucket_style", "region"},
      {"additional_params", "protocol"})

OAuth2Defaults ==
  {"rest_catalog_oauth2_resource", "rest_catalog_oauth2_audience",
   "rest_catalog_oauth2_token_endpoint", "rest_catalog_auth_type"}
OAuth2Needs ==
  {"rest_catalog_oauth2_client_id", "rest_catalog_oauth2_client_secret",
   "rest_catalog_oauth2_scopes"}

DirectDTO(needs, defaults) ==
  DTO({"rest_catalog_url", "s3_warehouse_path", "s3_host", "s3_bucket", "s3_bucket_style",
       "s3_region", "s3_access_key", "s3_secret_key", "s3_port", "s3_protocol"} \union needs,
      {"s3_additional_params"} \union defaults)
DelegatedDTO(needs, defaults) ==
  DTO({"rest_catalog_url"} \union needs,
      {"s3_warehouse_name", "s3_access_delegation"} \union defaults)

\* get_iceberg_connection_dto and the two functions it calls.
get_iceberg_connection_dto(fields) ==
  LET direct == "s3_warehouse_path" \in fields
      oauth2 == "rest_catalog_oauth2_client_id" \in fields
      needs == IF oauth2 THEN OAuth2Needs ELSE {"rest_catalog_token"}
      defaults == IF oauth2 THEN OAuth2Defaults ELSE {"rest_catalog_auth_type"}
  IN  IF direct THEN DirectDTO(needs, defaults) ELSE DelegatedDTO(needs, defaults)

\* connection_handler_proxy: the constructor for each type of transfer parameters.
connection_handler_proxy(type, fields) ==
  CASE type = "hive"       -> HiveConnectionDTO
    [] type = "iceberg"    -> get_iceberg_connection_dto(fields)
    [] type = "oracle"     -> OracleConnectionDTO
    [] type = "clickhouse" -> ClickhouseConnectionDTO
    [] type = "mssql"      -> MSSQLConnectionDTO
    [] type = "mysql"      -> MySQLConnectionDTO
    [] type = "postgres"   -> PostgresConnectionDTO
    [] type = "s3"         -> S3ConnectionDTO
    [] type = "hdfs"       -> HDFSConnectionDTO
    [] type = "sftp"       -> SFTPConnectionDTO
    [] type = "ftp"        -> FTPConnectionDTO
    [] type = "ftps"       -> FTPSConnectionDTO
    [] type = "samba"      -> SambaConnectionDTO
    [] type = "webdav"     -> WebDAVConnectionDTO

--------------------------------------------------------------------------
(* What each handler's connect takes from the object.                      *)

PostgresHandler == Login \union {"database_name", "additional_params"}
ClickhouseHandler == Login \union {"database_name", "additional_params"}
MSSQLHandler == Login \union {"database_name", "additional_params"}
MySQLHandler == Login \union {"database_name", "additional_params"}
OracleHandler == Login \union {"sid", "service_name", "additional_params"}
HiveHandler == {"cluster"}
HDFSHandler == {"cluster", "user", "password"}
FTPHandler == Login
FTPSHandler == Login
SFTPHandler == Login
WebDAVHandler == Login \union {"protocol"}
SambaHandler == Login \union {"share", "protocol", "domain", "auth_type"}
S3Handler ==
  {"host", "port", "access_key", "secret_key", "bucket", "bucket_style", "protocol", "region",
   "additional_params"}

\* _make_auth: the object's own auth type decides, not the connection's data.
MakeAuth(dto) ==
  IF "rest_catalog_token" \in dto.takes
  THEN {"rest_catalog_token"}
  ELSE OAuth2Needs \union (OAuth2Defaults \ {"rest_catalog_auth_type"})
IcebergRESTCatalogS3Handler(dto) ==
  MakeAuth(dto) \union {"rest_catalog_url"} \union
    (IF "s3_warehouse_path" \in dto.takes
     THEN {"s3_warehouse_path", "s3_host", "s3_port", "s3_protocol", "s3_bucket",
           "s3_bucket_style", "s3_region", "s3_access_key", "s3_secret_key"}
     ELSE {"s3_warehouse_name", "s3_access_delegation"})

connect(type, dto) ==
  CASE type = "hive"       -> HiveHandler
    [] type = "iceberg"    -> IcebergRESTCatalogS3Handler(dto)
    [] type = "oracle"     -> OracleHandler
    [] type = "clickhouse" -> ClickhouseHandler
    [] type = "mssql"      -> MSSQLHandler
    [] type = "mysql"      -> MySQLHandler
    [] type = "postgres"   -> PostgresHandler
    [] type = "s3"         -> S3Handler
    [] type = "hdfs"       -> HDFSHandler
    [] type = "sftp"       -> SFTPHandler
    [] type = "ftp"        -> FTPHandler
    [] type = "ftps"       -> FTPSHandler
    [] type = "samba"      -> SambaHandler
    [] type = "webdav"     -> WebDAVHandler

\* get_handler and connect: the data is updated with the credentials, "type"
\* is dropped, and the constructor refuses a missing or an unknown field.
get_handler(type, fields) ==
  LET given == fields \ {"type"}
      dto == connection_handler_proxy(type, given)
  IN  /\ dto.needs \subseteq given
      /\ given \subseteq dto.takes
      /\ connect(type, dto) \subseteq dto.takes
=============================================================================
