-------------------------------- MODULE Login --------------------------------
(***************************************************************************)
(* The login dialogue of the shell (pkg/native_shell/server/src/main.cc,   *)
(* do_login) and the server it asks (pkg/authd/server/main.cc).  Keys come *)
(* from the ring of module Console, in any sequence.  A name or a password *)
(* is a sequence of characters; that two passwords have one salted hash is *)
(* taken as impossible (SHA-256).                                          *)
(***************************************************************************)
EXTENDS Loops, Integers, Sequences, FiniteSets

CONSTANTS
  Chars,          \* printable characters
  LineMax,        \* characters of a name or password (63 in the code)
  MAX_LOGIN_ATTEMPTS,
  Shadows,        \* what /ext4/etc/shadow can be
  Fallback        \* the built-in entry

ASSUME LoginAssumption ==
  /\ LineMax \in Nat \ {0} /\ MAX_LOGIN_ATTEMPTS \in Nat \ {0}
  /\ \A s \in Shadows : s.opens \in BOOLEAN /\ s.lines \in Seq([usable : BOOLEAN, user : Seq(Chars), pass : Seq(Chars)])
  /\ Fallback.usable

Erase     == {"bs", "del"}             \* '\b' and 127
NoFile    == [opens |-> FALSE, lines |-> <<>>]
LoginKeys == Chars \cup Erase \cup {"nl", "ctl"}

VARIABLES
  shadow,         \* the file when authd starts; without a disk it does not open
  creds,          \* g_creds
  authd,          \* "booting", "ready", or "absent" when the shell has no capability
  lpc,            \* "user", "pass" or "in"
  line,           \* the buffer that is being read
  user,           \* the name that was read
  attempt,
  g_login_user

loginVars == <<shadow, creds, authd, lpc, line, user, attempt, g_login_user>>

-----------------------------------------------------------------------------
(* authd *)

(* load_credentials: the usable lines, or the built-in entry when the file *)
(* does not open or has none                                               *)
load_credentials(s) ==
  LET usable == Kept(s.lines, {i \in DOMAIN s.lines : s.lines[i].usable})    \* add_shadow_line
  IN  IF s.opens /\ usable # <<>> THEN usable ELSE <<Fallback>>

(* Mutant: any entry of that name will do *)
authenticate_any(u, p) == \E i \in DOMAIN creds : creds[i].user = u /\ creds[i].pass = p

(* op_authenticate: the first entry of that name decides *)
op_authenticate(u, p) ==
  \E i \in DOMAIN creds :
    /\ creds[i].user = u /\ creds[i].pass = p
    /\ \A j \in 1 .. i - 1 : creds[j].user # u

(* auth_check: without authd nobody gets in *)
auth_check(u, p) == authd = "ready" /\ op_authenticate(u, p)

(* main of authd; a call made before it is done waits *)
authd_main(s) ==
  /\ authd = "booting" /\ authd' = "ready"
  /\ shadow' = s /\ creds' = load_credentials(s)
  /\ UNCHANGED <<lpc, line, user, attempt, g_login_user>>

(* the configuration does not have it, or it cannot bind its gate *)
no_authd ==
  /\ authd = "booting" /\ authd' = "absent"
  /\ UNCHANGED <<shadow, creds, lpc, line, user, attempt, g_login_user>>

-----------------------------------------------------------------------------
(* The dialogue *)

(* read_login_line before the newline: 127 erases, but goes into an empty  *)
(* buffer as a character, being no less than a space                       *)
edited(buf, c) ==
  CASE c \in Erase /\ buf # <<>>  -> SubSeq(buf, 1, Len(buf) - 1)
    [] Len(buf) < LineMax /\ (c \in Chars \/ (c = "del" /\ buf = <<>>)) -> Append(buf, c)
    [] OTHER -> buf

login_key(c) ==
  /\ lpc \in {"user", "pass"} /\ c # "nl"
  /\ line' = edited(line, c)
  /\ UNCHANGED <<shadow, creds, authd, lpc, user, attempt, g_login_user>>

(* an empty name is asked for again and not counted *)
read_user ==
  /\ lpc = "user"
  /\ lpc' = IF line = <<>> THEN "user" ELSE "pass"
  /\ user' = line /\ line' = <<>>
  /\ UNCHANGED <<shadow, creds, authd, attempt, g_login_user>>

(* after the last attempt do_login fails, and main calls it again *)
NextAttempt == (attempt + 1) % MAX_LOGIN_ATTEMPTS

read_password ==
  /\ lpc = "pass" /\ authd # "booting"
  /\ IF auth_check(user, line)
     THEN lpc' = "in" /\ g_login_user' = user /\ UNCHANGED attempt
     ELSE lpc' = "user" /\ attempt' = NextAttempt /\ UNCHANGED g_login_user
  /\ line' = <<>> /\ user' = <<>>
  /\ UNCHANGED <<shadow, creds, authd>>

LoginInit ==
  /\ shadow = NoFile /\ creds = <<>> /\ authd = "booting"
  /\ lpc = "user" /\ line = <<>> /\ user = <<>> /\ attempt = 0 /\ g_login_user = <<>>

LoginNext ==
  \/ no_authd \/ \E s \in Shadows : authd_main(s)
  \/ read_user \/ read_password \/ \E c \in LoginKeys \ {"nl"} : login_key(c)

LoginSpec == LoginInit /\ [][LoginNext]_loginVars

-----------------------------------------------------------------------------
(* Properties *)

LoginTypeOK ==
  /\ authd \in {"booting", "ready", "absent"} /\ lpc \in {"user", "pass", "in"}
  /\ \A buf \in {line, user, g_login_user} :
       buf \in Seq(Chars \cup {"del"}) /\ Len(buf) <= LineMax
  /\ attempt \in 0 .. MAX_LOGIN_ATTEMPTS - 1

(* Who may log in, by the file alone *)
Entitled(u, p) ==
  LET mine(i) == shadow.lines[i].usable /\ shadow.lines[i].user = u
      any     == shadow.opens /\ \E i \in DOMAIN shadow.lines : shadow.lines[i].usable
  IN  /\ authd = "ready"
      /\ IF any
         THEN \E i \in DOMAIN shadow.lines :
                /\ mine(i) /\ shadow.lines[i].pass = p
                /\ \A j \in 1 .. i - 1 : ~mine(j)
         ELSE u = Fallback.user /\ p = Fallback.pass

(* A password is accepted exactly when the shadow file says so: the first  *)
(* usable line of the user counts, the built-in entry only without a       *)
(* usable file, and without authd nobody gets in, after however many       *)
(* attempts and corrections (auth_check, "Fail closed").                   *)
LoginExact ==
  [][lpc = "pass" /\ lpc' # "pass" => (lpc' = "in" <=> Entitled(user, line))]_loginVars

=============================================================================
