-------------------------------- MODULE Accounts --------------------------------
(***************************************************************************)
(* Register of user-service: the company is found or created, the e-mail   *)
(* address is checked, the user inserted; three statements, no transaction *)
(* around them.                                                            *)
(***************************************************************************)
EXTENDS AuthRequests

CONSTANTS
    Email,
    Secret,   \* passwords
    Forms,    \* registration -> its fields: the choices
    RoleOf,   \* registration -> the role it asks for; "" is none
    None      \* no company_id: the request names a new company, which gets its id

Form == [email : Email, company : Registration \cup {None}, secret : Secret]
Role == {"admin", "manager", "worker"}

Account ==
    [by : Registration, email : Email, company : Registration, secret : Secret, role : Role]

ASSUME AccountAssumption ==
    /\ None \notin Registration
    /\ Forms \subseteq [Registration -> Form]
    /\ RoleOf \in [Registration -> Role \cup {""}]

VARIABLES
    form,       \* request -> its fields; a company is named by the request that made it
    stage,      \* request -> the next statement of its handler
    companies,  \* table companies
    users,      \* table users, as [by, email, company, secret, role]
    overtaken   \* history: requests whose e-mail was inserted after they checked it

accountVars == <<form, stage, companies, users, overtaken>>

CompanyOf(r) == IF form[r].company = None THEN r ELSE form[r].company

AccountInit ==
    /\ form \in Forms
    /\ stage = [r \in Registration |-> "company"]
    /\ companies = {}
    /\ users = {}
    /\ overtaken = {}

Proceed(r, next) == stage' = [stage EXCEPT ![r] = next]

\* FindByID, or the INSERT of a new company; a company_id nobody has is refused.
ResolveCompany(r) ==
    /\ stage[r] = "company"
    /\ IF form[r].company = None
         THEN companies' = companies \cup {r} /\ Proceed(r, "email")
         ELSE /\ IF form[r].company \in companies
                   THEN Proceed(r, "email")
                   ELSE Proceed(r, Refusal("ErrCompanyNotFound"))
              /\ UNCHANGED companies
    /\ UNCHANGED <<form, users, overtaken>>

\* ExistsByEmail takes a company and ignores it.
Used(r) == \E u \in users : u.email = form[r].email

\* Mutant: the error of ExistsByEmail is dropped, and its zero value believed.
CheckEmailIgnoringErrors(r) ==
    /\ stage[r] = "email"
    /\ Proceed(r, "insert") \/ (Used(r) /\ Proceed(r, Refusal("ErrEmailExists")))
    /\ UNCHANGED <<form, companies, users, overtaken>>

CheckEmail(r) ==
    /\ stage[r] = "email"
    /\ Proceed(r, IF Used(r) THEN Refusal("ErrEmailExists") ELSE "insert")
    /\ UNCHANGED <<form, companies, users, overtaken>>

\* idx_users_email_company: one row for an address and a company.
Duplicate(r) ==
    \E u \in users : u.email = form[r].email /\ u.company = CompanyOf(r)

\* The password is kept as its bcrypt hash; without a role one is a worker.
Row(r) ==
    [by |-> r, email |-> form[r].email, company |-> CompanyOf(r), secret |-> form[r].secret,
     role |-> IF RoleOf[r] = "" THEN "worker" ELSE RoleOf[r]]

InsertUser(r) ==
    /\ stage[r] = "insert"
    /\ IF Duplicate(r)
         THEN Proceed(r, Refusal("SQLSTATE 23505")) /\ UNCHANGED <<users, overtaken>>
         ELSE /\ Proceed(r, "registered")
              /\ users' = users \cup {Row(r)}
              /\ overtaken' = overtaken \cup
                     {q \in Registration \ {r} : stage[q] = "insert" /\ form[q].email = form[r].email}
    /\ UNCHANGED <<form, companies>>

\* A field of the request is empty, or a statement fails; what went before stays.
RegisterFails(r) ==
    /\ stage[r] \in {"company", "email", "insert"}
    /\ \E error \in {"ErrInvalidInput", "SQLSTATE"} :
           /\ error = "ErrInvalidInput" => stage[r] = "company"
           /\ Proceed(r, Refusal(error))
    /\ UNCHANGED <<form, companies, users, overtaken>>

RegisterStep(r) == ResolveCompany(r) \/ CheckEmail(r) \/ InsertUser(r) \/ RegisterFails(r)
===============================================================================
