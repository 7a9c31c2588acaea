\* One user with one device beside Google logins, two session rows and two
\* overlapping requests; a session lives two seconds, the clock runs past it.
CONSTANTS
  Users = {u1}
  Agents = {phone}
  NoAgent = NoAgent
  SessionIds = {s1, s2}
  Requests = {q1, q2}
  TTL = 2
  MaxNow = 3
SPECIFICATION Spec
INVARIANTS TypeOK EndedStaysEnded NoTokenOutlivesLogin TokenNotForgotten
