SPECIFICATION MysqlSpec
CONSTANTS
  Thread = {t1, t2, t3}
  Conn = {c1, c2, c3}
  MaxConn = 2
  Nil = Nil
INVARIANTS
  AllOrNothing
  PooledIsClean
