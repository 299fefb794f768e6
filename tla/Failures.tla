------------------------------ MODULE Failures ------------------------------
(* The exceptions of exceptions.py and the answers that the handlers of    *)
(* exception_handlers.py, registered in main.py, make of them.             *)
EXTENDS Integers

\* The class each class derives from.  Below the classes of exceptions.py come
\* those of the libraries; the classes between them and Exception have no
\* handler either and are left out.  LibraryError is any other class that a
\* library raises: a database driver, a parser, the standard library.
Parent == [
    AuthError               |-> "Exception",
    CredentialsError        |-> "AuthError",
    InvalidCredentialsError |-> "CredentialsError",
    EmailExistError         |-> "CredentialsError",
    RateLimitError          |-> "AuthError",
    UnauthorizedError       |-> "AuthError",
    SessionInBlacklistError |-> "AuthError",
    UserInactiveError       |-> "AuthError",
    TokenError              |-> "AuthError",
    InvalidTokenError       |-> "TokenError",
    ExpiredTokenError       |-> "TokenError",
    RevokedTokenError       |-> "TokenError",
    FakturoNotFoundError    |-> "Exception",
    InvoiceNotFoundError    |-> "FakturoNotFoundError",
    UserNotFoundError       |-> "FakturoNotFoundError",
    ClientNotFoundError     |-> "FakturoNotFoundError",
    RefreshTokenNotFoundError |-> "FakturoNotFoundError",
    DeviceNotFoundError     |-> "FakturoNotFoundError",
    ARESICONotFoundError    |-> "FakturoNotFoundError",
    FakturoDeleteError      |-> "Exception",
    InvoiceDeleteError      |-> "FakturoDeleteError",
    FakturoConflictError    |-> "Exception",
    InvoiceConflict         |-> "FakturoConflictError",
    VersionDeprecationError |-> "FakturoConflictError",
    BusinessRuleError       |-> "Exception",
    InvalidStatusChangeError |-> "BusinessRuleError",
    CeleryError             |-> "Exception",
    InvoiceNotFound         |-> "CeleryError",
    ARESNotAvailableError   |-> "Exception",
    HTTPException           |-> "Exception",
    RequestValidationError  |-> "Exception",
    TimeoutError            |-> "Exception",
    DBAPIError              |-> "Exception",
    StaleDataError          |-> "Exception",
    NoResultFound           |-> "Exception",
    InvalidRequestError     |-> "Exception",
    RedisError              |-> "Exception",
    OperationalError        |-> "Exception",
    OverflowError           |-> "Exception",
    KeyError                |-> "Exception",
    ValueError              |-> "Exception",
    JSONDecodeError         |-> "ValueError",
    ValidationError         |-> "ValueError",
    LibraryError            |-> "Exception"]

Classes == DOMAIN Parent

\* The status a class of AuthError gives itself.
AuthStatus == [
    InvalidCredentialsError |-> 401, EmailExistError |-> 400, RateLimitError |-> 429,
    UnauthorizedError |-> 401, SessionInBlacklistError |-> 423, UserInactiveError |-> 423,
    InvalidTokenError |-> 401, ExpiredTokenError |-> 401, RevokedTokenError |-> 423]

\* The handlers are looked up along the base classes, and are registered for
\* the first class of a family; no class is more than two below it.
Base(c) == IF Parent[c] = "Exception" THEN c ELSE Parent[c]

Family(c) == Base(Base(c))

\* A variant: the handler of one family is forgotten.
RegisteredButOne == {
    "FakturoNotFoundError", "AuthError", "FakturoDeleteError", "FakturoConflictError",
    "ARESNotAvailableError", "HTTPException", "RequestValidationError"}

\* The classes with a handler: those main.py adds and the two of FastAPI.
Registered == {
    "FakturoNotFoundError", "AuthError", "FakturoDeleteError", "FakturoConflictError",
    "BusinessRuleError", "ARESNotAvailableError", "HTTPException", "RequestValidationError"}

Handled(c) == Family(c) \in Registered

\* What the handler of the family answers.
HandlerStatus(c) ==
    CASE Family(c) = "AuthError" -> AuthStatus[c]
      [] Family(c) = "FakturoNotFoundError" -> 404
      [] Family(c) = "FakturoDeleteError" -> 405
      [] Family(c) = "FakturoConflictError" -> 409
      [] Family(c) = "BusinessRuleError" -> 422
      [] Family(c) = "ARESNotAvailableError" -> 503
      [] Family(c) = "HTTPException" -> 401
      [] Family(c) = "RequestValidationError" -> 422

\* What the code means to answer: the classes of every "raise" under routers,
\* services, repositories and security, and the two that FastAPI answers itself.
Foreseen == {
    "RefreshTokenNotFoundError", "InvalidTokenError", "InvoiceDeleteError",
    "InvoiceConflict", "InvalidStatusChangeError", "ClientNotFoundError",
    "SessionInBlacklistError", "InvalidCredentialsError", "UserInactiveError",
    "EmailExistError", "DeviceNotFoundError", "ARESNotAvailableError",
    "ARESICONotFoundError", "InvoiceNotFoundError", "VersionDeprecationError",
    "ExpiredTokenError", "RevokedTokenError", "RateLimitError",
    "HTTPException", "RequestValidationError"}

\* What the libraries raise and no "except" of the code catches: the pool and
\* the statements (database.py), a commit whose row is gone or has a newer
\* version and the read after it (invoice_repository.py, client_repository.py),
\* Redis (cache.py), the broker (routers/invoices.py), the date of a lock too
\* far ahead (rate_limit.py), what ARES answers (routers/clients.py,
\* client_service.py), the header fields (middleware.py), and any other class.
\* The one StaleDataError that is caught, in update_client, goes on as
\* VersionDeprecationError.
Uncaught == {
    "TimeoutError", "DBAPIError", "StaleDataError", "NoResultFound",
    "InvalidRequestError", "RedisError", "OperationalError", "OverflowError",
    "KeyError", "ValueError", "JSONDecodeError", "ValidationError", "LibraryError"}

\* What serving a request can raise.
Raised == Foreseen \cup Uncaught
=============================================================================
