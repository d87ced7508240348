------------------------------ MODULE AuthRequests ------------------------------
(***************************************************************************)
(* What the modules of the gateway share: the requests of one client       *)
(* address, and what becomes of an error on its way to the client.         *)
(***************************************************************************)
CONSTANTS
    Registration,  \* POST /auth/register requests; each is sent once
    Login,         \* POST /auth/login requests
    Call           \* requests of protected routes

ASSUME RequestAssumption ==
    /\ Registration \cap Login = {}
    /\ (Registration \cup Login) \cap Call = {}

Request == Registration \cup Login \cup Call

\* toGRPCError of user-service; what is no error of its own is internal.
GRPCCode(error) ==
    CASE error = "ErrInvalidInput" -> "InvalidArgument"
      [] error = "ErrEmailExists" -> "AlreadyExists"
      [] error = "ErrInvalidCredentials" -> "Unauthenticated"
      [] error = "ErrCompanyNotFound" -> "NotFound"
      [] OTHER -> "Internal"

\* grpcToHTTPStatus of the gateway.
HTTPStatus(code) ==
    CASE code = "InvalidArgument" -> "bad request"
      [] code = "AlreadyExists" -> "conflict"
      [] code = "Unauthenticated" -> "unauthorized"
      [] code = "NotFound" -> "not found"
      [] OTHER -> "internal error"

Statuses == {"bad request", "conflict", "unauthorized", "forbidden", "not found", "internal error"}

Refusal(error) == HTTPStatus(GRPCCode(error))
===============================================================================
